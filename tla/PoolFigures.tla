---------------------------- MODULE PoolFigures ----------------------------
(***************************************************************************)
(* What the catalog says of one DrivePool pool (catalog-duplication.ts and *)
(* the pool view of catalog-service.ts): the rollup that counts every file *)
(* once with the disks it is on, and the table of files short of copies    *)
(* with the time since when.  Both read the rows a page at a time and      *)
(* yield in between, while scans record files and sweep them away; a scan  *)
(* may make its rollup while the duplication check makes one.              *)
(***************************************************************************)
EXTENDS Integers, Sequences, FiniteSets

CONSTANTS
    PoolParts,          \* the enabled pool parts, in the order of their root ids
    DeviceReported, \* of each part: the physical disk behind it
    Unreported0,    \* the parts whose disk nobody has reported yet
    FirstRows,      \* of each path, a number in the order of the keys: the parts it is on
    CopiesAsked,         \* of each path: the level its folder's rule asks for
    Grace,          \* underDuplicationGraceDays
    LastDay,        \* bound: days
    MaxWrites       \* bound: changes of rows, rules, disks and settings; deaths

VARIABLES
    fileRows,        \* of each path and part: the row, "none", "live" or "deleted"
    dupLevel,       \* of each path: duplication_level of its rows
    unreported,  \* parts whose disk is not known
    roller,      \* of each process: its rollup, the cursor and what it has so far
    figures,     \* dir_stats and pool_summary of the pool: the paths counted, with copies
    dupCheck,       \* the step of the duplication check, and its cursor
    shortfall,   \* the table: of each path, since when, 0 when it has no row
    marked,      \* paths the sweep has touched
    dupAlerts,   \* the open alerts, "under" and "shared"
    tracking,    \* alertOnUnderDuplication
    poolDay, checkedOn, \* the day, and the one of the last check
    untrusted,   \* ghost: paths changed since the rollup that was stored began
    sweeps,      \* ghost: of each sweep, its day and the rows it left
    writes, rolledUp \* ghost: a counter and a flag for the bounds

figureVars == <<fileRows, dupLevel, unreported, roller, figures, dupCheck, shortfall, marked, dupAlerts, tracking, poolDay,
                checkedOn, untrusted, sweeps, writes, rolledUp>>

Paths == DOMAIN FirstRows
PartSet == {PoolParts[i] : i \in DOMAIN PoolParts}

ASSUME FiguresAssumption ==
  /\ PoolParts \in Seq(DOMAIN DeviceReported) /\ Unreported0 \subseteq PartSet
  /\ FirstRows \in Seq(SUBSET PartSet) /\ CopiesAsked \in [Paths -> Nat]
  /\ Grace \in Nat /\ LastDay \in Nat \ {0} /\ MaxWrites \in Nat

Rollers == {"check", "scan"}

\* partDeviceKeys(): a part whose disk is unknown is a disk of its own.
DeviceOf(r, unknown) == IF r \in unknown THEN r ELSE DeviceReported[r]

Devices(p, unknown) == {DeviceOf(r, unknown) : r \in {q \in PartSet : fileRows[p][q] = "live"}}
Known(p) == \E r \in PartSet : fileRows[p][r] # "none"

\* findPartsSharingADisk(): never of two parts whose disk is not known.
SharingADisk == \E q, r \in PartSet \ unreported : q # r /\ DeviceReported[q] = DeviceReported[r]

NoCheck == [pc |-> "off", key |-> 0, on |-> FALSE, unknown |-> {}]
CheckAt(pc) == dupCheck.pc = pc

-----------------------------------------------------------------------------
(* The rollup, a row of files per page.                                    *)
NoRollup == [pc |-> "off", key |-> 0, part |-> 0, group |-> 0, disks |-> {}, counted |-> <<>>, dirty |-> {}, unknown |-> {}]

\* Mutant of NextRow: the cursor is the path alone.
NextPath(w) ==
  {x \in Paths \X DOMAIN PoolParts :
     /\ fileRows[x[1]][PoolParts[x[2]]] # "none" /\ x[1] > roller[w].key
     /\ \A y \in Paths \X DOMAIN PoolParts :
          fileRows[y[1]][PoolParts[y[2]]] # "none" /\ y[1] > roller[w].key
            => x[1] < y[1] \/ (x[1] = y[1] /\ x[2] <= y[2])}

\* The rows after the cursor, which is a path and a root, and of those the first.
AfterCursor(w, x) == x[1] > roller[w].key \/ (x[1] = roller[w].key /\ x[2] > roller[w].part)
NextRow(w) ==
  {x \in Paths \X DOMAIN PoolParts :
     /\ fileRows[x[1]][PoolParts[x[2]]] # "none" /\ AfterCursor(w, x)
     /\ \A y \in Paths \X DOMAIN PoolParts :
          fileRows[y[1]][PoolParts[y[2]]] # "none" /\ AfterCursor(w, y)
            => x[1] < y[1] \/ (x[1] = y[1] /\ x[2] <= y[2])}

\* flush(): a path on no disk any more is lost, which is counted too.
Flushed(roll) ==
  IF roll.group = 0 THEN roll.counted ELSE Append(roll.counted, <<roll.group, Cardinality(roll.disks)>>)

\* The disks are the ones known when it begins.
RollupBegins(w) == roller' = [roller EXCEPT ![w] = [NoRollup EXCEPT !.pc = "on", !.unknown = unreported]]

RollupReads(w) ==
  /\ roller[w].pc = "on"
  /\ \E x \in NextRow(w) :
       LET roll == roller[w] p == x[1] r == PoolParts[x[2]]
           disk == IF fileRows[p][r] = "live" THEN {DeviceOf(r, roll.unknown)} ELSE {}
       IN roller' = [roller EXCEPT ![w] =
            [roll EXCEPT !.key = p, !.part = x[2], !.group = p,
               !.disks = IF roll.group = p THEN @ \cup disk ELSE disk,
               !.counted = IF roll.group = p THEN @ ELSE Flushed(roll)]]
  /\ UNCHANGED <<fileRows, dupLevel, unreported, figures, dupCheck, shortfall, marked, dupAlerts, tracking, poolDay, checkedOn,
                 untrusted, sweeps, writes, rolledUp>>

\* finaliseDirStats() puts the new rows in the place of the old ones, whoever
\* wrote those and however much later that one began.
RollupStored(w) ==
  /\ figures' = Flushed(roller[w]) /\ untrusted' = roller[w].dirty
  /\ roller' = [roller EXCEPT ![w] = NoRollup]

RollupEnds(w) ==
  /\ roller[w].pc = "on" /\ NextRow(w) = {}
  /\ RollupStored(w)
  /\ dupCheck' = IF w = "check" THEN [dupCheck EXCEPT !.pc = "shared"] ELSE dupCheck
  /\ UNCHANGED <<fileRows, dupLevel, unreported, shortfall, marked, dupAlerts, tracking, poolDay, checkedOn, sweeps, writes, rolledUp>>

\* Bound: only while the check makes its own, on the first day.
ScanRollsUp ==
  /\ CheckAt("rollup") /\ poolDay = 1 /\ roller["scan"].pc = "off" /\ ~rolledUp
  /\ rolledUp' = TRUE
  /\ RollupBegins("scan")
  /\ UNCHANGED <<fileRows, dupLevel, unreported, figures, dupCheck, shortfall, marked, dupAlerts, tracking, poolDay, checkedOn,
                 untrusted, sweeps, writes>>

-----------------------------------------------------------------------------
(* The duplication check.                                                  *)
CheckBegins ==
  /\ CheckAt("off") /\ checkedOn < poolDay
  /\ dupCheck' = [NoCheck EXCEPT !.pc = "levels"]
  /\ UNCHANGED <<fileRows, dupLevel, unreported, roller, figures, shortfall, marked, dupAlerts, tracking, poolDay, checkedOn,
                 untrusted, sweeps, writes, rolledUp>>

\* refreshDuplicationLevels(), and then the pool's rollup.
RefreshesLevels ==
  /\ CheckAt("levels")
  /\ dupLevel' = CopiesAsked
  /\ RollupBegins("check") /\ dupCheck' = [dupCheck EXCEPT !.pc = "rollup"]
  /\ UNCHANGED <<fileRows, unreported, figures, shortfall, marked, dupAlerts, tracking, poolDay, checkedOn, untrusted,
                 sweeps, writes, rolledUp>>

\* The parts that share a disk; then the table is emptied when nobody asks for
\* it, and else swept.  The settings are the ones read at the beginning.
\* Bound: a scan's rollup has ended by then.
RaisesShared ==
  /\ CheckAt("shared") /\ roller["scan"].pc = "off"
  /\ dupAlerts' = dupAlerts \cup (IF SharingADisk THEN {"shared"} ELSE {})
  /\ dupCheck' = [pc |-> "sweep", key |-> 0, on |-> SharingADisk, unknown |-> unreported]
  /\ UNCHANGED <<fileRows, dupLevel, unreported, roller, figures, shortfall, marked, tracking, poolDay, checkedOn, untrusted,
                 sweeps, writes, rolledUp>>

Short(p) ==
  LET on == Devices(p, dupCheck.unknown) IN on # {} /\ Cardinality(on) < dupLevel[p]

\* Mutant of Clocked: a row's since is refreshed with the rest of it.
ClockedAnew(p) == [shortfall EXCEPT ![p] = poolDay]

\* INSERT ... ON CONFLICT leaves since alone.
Clocked(p) == IF shortfall[p] = 0 THEN [shortfall EXCEPT ![p] = poolDay] ELSE shortfall

\* A page of the sweep is one path that is short at that moment.
SweepsPage ==
  /\ CheckAt("sweep") /\ tracking
  /\ \E p \in Paths :
       /\ p > dupCheck.key /\ Short(p) /\ \A q \in Paths : q > dupCheck.key /\ Short(q) => p <= q
       /\ shortfall' = Clocked(p) /\ marked' = marked \cup {p}
       /\ dupCheck' = [dupCheck EXCEPT !.key = p]
  /\ UNCHANGED <<fileRows, dupLevel, unreported, roller, figures, dupAlerts, tracking, poolDay, checkedOn, untrusted, sweeps,
                 writes, rolledUp>>

\* reconcile() resolves every alert of the category this run did not raise.
CheckEnds(table, under) ==
  /\ shortfall' = table /\ marked' = {}
  /\ dupAlerts' = (IF under THEN {"under"} ELSE {}) \cup (IF dupCheck.on THEN {"shared"} ELSE {})
  /\ dupCheck' = NoCheck /\ checkedOn' = poolDay
  /\ UNCHANGED <<fileRows, dupLevel, unreported, roller, figures, tracking, poolDay, untrusted, writes, rolledUp>>

\* The rows the sweep did not touch go, and the ones old enough are told of.
SweepEnds ==
  /\ CheckAt("sweep") /\ tracking /\ \A p \in Paths : Short(p) => p <= dupCheck.key
  /\ LET table == [p \in Paths |-> IF p \in marked THEN shortfall[p] ELSE 0]
         overdue == {p \in Paths : table[p] > 0 /\ table[p] <= poolDay - Grace}
     IN /\ CheckEnds(table, overdue # {})
        /\ sweeps' = Append(sweeps, [on |-> poolDay, left |-> {p \in Paths : table[p] > 0}])

\* A stop is looked for before a root and before a pool; the run is paused and
\* will begin anew.
CheckPauses ==
  /\ CheckAt("levels") \/ (CheckAt("sweep") /\ dupCheck.key = 0 /\ tracking)
  /\ writes < MaxWrites /\ writes' = writes + 1
  /\ dupCheck' = NoCheck
  /\ UNCHANGED <<fileRows, dupLevel, unreported, roller, figures, shortfall, marked, dupAlerts, tracking, poolDay, checkedOn,
                 untrusted, sweeps, rolledUp>>

NotTracking ==
  /\ CheckAt("sweep") /\ ~tracking
  /\ CheckEnds([p \in Paths |-> 0], FALSE)
  /\ sweeps' = Append(sweeps, [on |-> poolDay, left |-> {}])

-----------------------------------------------------------------------------
\* A write tells every rollup under way, and the one stored, what it changed.
RowsChange(changed) ==
  /\ writes < MaxWrites /\ writes' = writes + 1
  /\ untrusted' = untrusted \cup changed
  /\ UNCHANGED <<shortfall, dupAlerts, poolDay, checkedOn, rolledUp>>

Dirtied(changed) == roller' = [w \in Rollers |-> [roller[w] EXCEPT !.dirty = IF roller[w].pc = "on" THEN @ \cup changed ELSE @]]

\* A scan records a file, or its sweep takes one away: DrivePool moves and
\* copies files, and people delete them.
RowWritten(p, r) ==
  /\ fileRows' = [fileRows EXCEPT ![p][r] = IF @ = "live" THEN "deleted" ELSE "live"]
  /\ RowsChange({p}) /\ Dirtied({p})
  /\ UNCHANGED <<dupLevel, unreported, figures, dupCheck, marked, tracking, sweeps>>

DiskReported ==
  /\ unreported # {} /\ unreported' = {}
  /\ RowsChange(Paths) /\ Dirtied(Paths)
  /\ UNCHANGED <<fileRows, dupLevel, figures, dupCheck, marked, tracking, sweeps>>

TrackingToggled ==
  /\ CheckAt("off") /\ tracking' = ~tracking
  /\ RowsChange({}) /\ Dirtied({})
  /\ UNCHANGED <<fileRows, dupLevel, unreported, figures, dupCheck, marked, sweeps>>

\* The rows a sweep had marked stay, the ones it would have dropped too.
FigureServiceDies ==
  /\ RowsChange({}) /\ roller' = [w \in Rollers |-> NoRollup]
  /\ dupCheck' = NoCheck /\ marked' = {}
  /\ sweeps' = IF marked # {} THEN Append(sweeps, [on |-> poolDay, left |-> {p \in Paths : shortfall[p] > 0}]) ELSE sweeps
  /\ UNCHANGED <<fileRows, dupLevel, unreported, figures, tracking>>

\* Bound: the check is over before the next one is due.
DayPasses ==
  /\ poolDay < LastDay /\ CheckAt("off") /\ poolDay' = poolDay + 1
  /\ UNCHANGED <<fileRows, dupLevel, unreported, roller, figures, dupCheck, shortfall, marked, dupAlerts, tracking, checkedOn,
                 untrusted, sweeps, writes, rolledUp>>

InitFigures ==
  /\ fileRows = [p \in Paths |-> [r \in PartSet |-> IF r \in FirstRows[p] THEN "live" ELSE "none"]]
  /\ dupLevel = [p \in Paths |-> 1] /\ unreported = Unreported0
  /\ roller = [w \in Rollers |-> NoRollup] /\ figures = <<>>
  /\ dupCheck = NoCheck /\ shortfall = [p \in Paths |-> 0] /\ marked = {}
  /\ dupAlerts = {} /\ tracking = TRUE /\ poolDay = 1 /\ checkedOn = 0
  /\ untrusted = Paths /\ sweeps = <<>> /\ writes = 0 /\ rolledUp = FALSE

NextFigures ==
  \/ \E w \in Rollers : RollupReads(w) \/ RollupEnds(w)
  \/ ScanRollsUp \/ CheckBegins \/ RefreshesLevels \/ RaisesShared \/ SweepsPage \/ SweepEnds \/ NotTracking \/ CheckPauses
  \/ \E p \in Paths, r \in PartSet : RowWritten(p, r)
  \/ DiskReported \/ TrackingToggled \/ FigureServiceDies \/ DayPasses

FiguresSpec == InitFigures /\ [][NextFigures]_figureVars

-----------------------------------------------------------------------------
FiguresTypeOK ==
  /\ fileRows \in [Paths -> [PartSet -> {"none", "live", "deleted"}]] /\ dupLevel \in [Paths -> Nat]
  /\ \A w \in Rollers : roller[w].key \in 0..Len(FirstRows) /\ roller[w].disks \subseteq PartSet \cup {DeviceReported[r] : r \in PartSet}
  /\ dupCheck.pc \in {"off", "levels", "rollup", "shared", "sweep"}
  /\ shortfall \in [Paths -> 0..LastDay] /\ marked \subseteq Paths /\ dupAlerts \subseteq {"under", "shared"}

(* A file is counted once at most, and one that nothing has changed since  *)
(* the stored rollup began is counted with the disks that hold it, though  *)
(* pages of it were read while other files came and went and another       *)
(* rollup ran.  And the alert on too few copies is open after a check      *)
(* exactly when some file was short of them at every check of the grace    *)
(* period: not when it recovered meanwhile, and not from the day it was    *)
(* first seen.                                                             *)
FiguresMatchTheCatalog ==
  /\ \A i, j \in DOMAIN figures : figures[i][1] = figures[j][1] => i = j
  /\ \A p \in Paths \ untrusted :
       Known(p) <=> \E i \in DOMAIN figures : figures[i] = <<p, Cardinality(Devices(p, unreported))>>
  /\ CheckAt("off") /\ checkedOn = poolDay =>
       ("under" \in dupAlerts <=>
          \E p \in Paths, i \in DOMAIN sweeps :
            /\ sweeps[i].on <= poolDay - Grace
            /\ \A j \in i..Len(sweeps) : p \in sweeps[j].left)
=============================================================================
