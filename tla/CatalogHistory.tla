--------------------------- MODULE CatalogHistory ---------------------------
(***************************************************************************)
(* What the catalog tells of the past and of the future (catalog-service.  *)
(* ts): the log of changes a scan writes next to the rows of files, what   *)
(* the pages count from it, the figures kept for five seconds, the alert   *)
(* on many files gone at once, and which files a failing disk would take.  *)
(* The scan is that of the members of one pool, one at a time; the agent's *)
(* part of it is in AgentScan.                                             *)
(***************************************************************************)
EXTENDS Integers, Sequences, FiniteSets, Functions

CONSTANTS
    Members,      \* the pool parts that are catalog roots
    DiskOfMember, \* of each: the physical disk it is on
    PoolFiles,    \* the files, by their pool-relative path
    FirstHeld,    \* of each member: the files on it at first
    KeepRuns,     \* changeHistoryRuns: the runs whose changes are kept
    MaxCatalogRuns, MaxEdits \* bounds: scans; changes on the disks

ASSUME HistoryAssumption ==
  /\ KeepRuns \in Nat \ {0} /\ MaxCatalogRuns \in Nat /\ MaxEdits \in Nat
  /\ FirstHeld \in [Members -> SUBSET PoolFiles]
  /\ IsFiniteSet(Members) /\ IsFiniteSet(PoolFiles)

VARIABLES
    onMember,    \* of each member and file: its size and mtime on the disk, 0 when it is not there
    rowOf,       \* of each member and file: the row of files
    catalogRuns, \* of each member: the ids of its catalog_runs
    catalogScan, \* the scan under way
    history,     \* catalog_changes, by their ids
    keptStats,   \* statsCache: of each member, the counts or <<>>
    rollUp,      \* dir_stats of each member's top directory: its number of files, or -1
    massGone,    \* the open alerts on mass deletion
    pruned,      \* ghost: the members of whose history some is gone
    cutShort,    \* ghost: the members whose last sweep a restart cut in two
    runsBegun, edits \* ghost: counters for the bounds

historyVars == <<onMember, rowOf, catalogRuns, catalogScan, history, keptStats, rollUp, massGone, pruned, cutShort, runsBegun, edits>>

NoRow == [state |-> "none", stamp |-> 0, run |-> 0]
NoScan == [member |-> "none", run |-> 0, pc |-> "off", walked |-> {}, swept |-> 0]
LiveFiles(m) == {f \in PoolFiles : rowOf[m][f].state = "live"}
GoneFiles(m) == {f \in PoolFiles : rowOf[m][f].state = "deleted"}

LastRun(m) == catalogRuns[m][Len(catalogRuns[m])]

CountsNow(m) == <<Cardinality(LiveFiles(m)), Cardinality(GoneFiles(m))>>
Forgotten0 == [m \in Members |-> <<>>]

ChangeOf(m, f, kind, new, old) ==
  [run |-> catalogScan.run, member |-> m, file |-> f, kind |-> kind, new |-> new, old |-> old]

-----------------------------------------------------------------------------
(* Writing.                                                                *)

\* SQLite's id of a new row: one more than the largest there is.
NextId == IF DOMAIN history = {} THEN 1 ELSE 1 + CHOOSE i \in DOMAIN history : \A j \in DOMAIN history : j <= i

Logged(change) == [i \in DOMAIN history \cup {NextId} |-> IF i = NextId THEN change ELSE history[i]]

\* recordFiles(), of one file: the row, and at most one change.
WriteRow(m, f, stamp) ==
  LET row == rowOf[m][f]
      kind == CASE row.state = "none" -> "created"
                [] row.state = "deleted" -> "restored"
                [] row.state = "live" -> IF row.stamp = stamp THEN "same" ELSE "modified"
  IN /\ rowOf' = [rowOf EXCEPT ![m][f] = [state |-> "live", stamp |-> stamp, run |-> catalogScan.run]]
     /\ history' = IF kind = "same" THEN history ELSE Logged(ChangeOf(m, f, kind, stamp, row.stamp))
     /\ keptStats' = Forgotten0

\* activeRun() is resumed, and else a run begins.
ScanBegins(m) ==
  /\ catalogScan.pc = "off"
  /\ \/ \E i \in DOMAIN catalogRuns[m] :
          /\ catalogRuns[m][i].state = "running"
          /\ catalogScan' = [NoScan EXCEPT !.member = m, !.run = catalogRuns[m][i].id, !.pc = "walk"]
          /\ UNCHANGED <<catalogRuns, runsBegun>>
     \/ /\ \A i \in DOMAIN catalogRuns[m] : catalogRuns[m][i].state # "running"
        /\ runsBegun < MaxCatalogRuns /\ runsBegun' = runsBegun + 1
        /\ catalogRuns' = [catalogRuns EXCEPT ![m] = Append(@, [id |-> runsBegun + 1, state |-> "running"])]
        /\ catalogScan' = [NoScan EXCEPT !.member = m, !.run = runsBegun + 1, !.pc = "walk"]
  /\ UNCHANGED <<onMember, rowOf, history, keptStats, rollUp, massGone, pruned, cutShort, edits>>

RecordsFile(f) ==
  LET m == catalogScan.member
  IN /\ catalogScan.pc = "walk" /\ f \notin catalogScan.walked
     /\ IF onMember[m][f] > 0 THEN WriteRow(m, f, onMember[m][f]) ELSE UNCHANGED <<rowOf, history, keptStats>>
     /\ catalogScan' = [catalogScan EXCEPT !.walked = @ \cup {f}]
     /\ UNCHANGED <<onMember, catalogRuns, rollUp, massGone, pruned, cutShort, runsBegun, edits>>

WalkEnds ==
  /\ catalogScan.pc = "walk" /\ catalogScan.walked = PoolFiles
  /\ catalogScan' = [catalogScan EXCEPT !.pc = "sweep"]
  /\ cutShort' = cutShort \ {m \in {catalogScan.member} : ~\E i \in DOMAIN history :
                                history[i].run = catalogScan.run /\ history[i].kind = "deleted"}
  /\ UNCHANGED <<onMember, rowOf, catalogRuns, history, keptStats, rollUp, massGone, pruned, runsBegun, edits>>

\* sweepMissing(), a row per batch: what the run has not seen.
Unseen(m) == {f \in LiveFiles(m) : rowOf[m][f].run # catalogScan.run}

SweepsFile(f) ==
  LET m == catalogScan.member
  IN /\ catalogScan.pc = "sweep" /\ f \in Unseen(m)
     /\ rowOf' = [rowOf EXCEPT ![m][f].state = "deleted"]
     /\ history' = Logged(ChangeOf(m, f, "deleted", 0, rowOf[m][f].stamp))
     /\ catalogScan' = [catalogScan EXCEPT !.swept = @ + 1]
     /\ keptStats' = Forgotten0
     /\ UNCHANGED <<onMember, catalogRuns, rollUp, massGone, pruned, cutShort, runsBegun, edits>>

\* checkMassDeletion(), with massDeletionAlertPercent at one half.
ManyGone(m, deleted) == deleted > 0 /\ 2 * deleted >= Cardinality(LiveFiles(m)) + deleted

\* Mutant of Closed: the run stays open, and the next scan resumes it.
ClosedNever(m, state) == catalogRuns

Closed(m, state) ==
  [catalogRuns EXCEPT ![m] = [i \in DOMAIN @ |-> IF @[i].id = catalogScan.run THEN [@[i] EXCEPT !.state = state] ELSE @[i]]]

\* The deletions counted are the ones of this call of the sweep; the totals of
\* the member's directories are made anew, in rebuildDirStatsYielding().
ScanFinishes ==
  LET m == catalogScan.member
  IN /\ catalogScan.pc = "sweep" /\ Unseen(m) = {}
     /\ catalogRuns' = Closed(m, "completed") /\ catalogScan' = NoScan /\ keptStats' = Forgotten0
     /\ rollUp' = [rollUp EXCEPT ![m] = Cardinality(LiveFiles(m))]
     /\ massGone' = IF ManyGone(m, catalogScan.swept) THEN massGone \cup {m} ELSE massGone \ {m}
     /\ UNCHANGED <<onMember, rowOf, history, pruned, cutShort, runsBegun, edits>>

\* The agent gives up: the run is failed, and nothing is concluded from it.
ScanFails ==
  /\ catalogScan.pc = "walk" /\ edits < MaxEdits /\ edits' = edits + 1
  /\ catalogRuns' = Closed(catalogScan.member, "failed") /\ catalogScan' = NoScan /\ keptStats' = Forgotten0
  /\ UNCHANGED <<onMember, rowOf, history, rollUp, massGone, pruned, cutShort, runsBegun>>

\* The service restarts: the walk begins anew under the same run.
ScanDies ==
  /\ catalogScan.pc # "off" /\ edits < MaxEdits /\ edits' = edits + 1
  /\ catalogScan' = NoScan /\ keptStats' = Forgotten0
  /\ cutShort' = IF catalogScan.pc = "sweep" THEN cutShort \cup {catalogScan.member} ELSE cutShort
  /\ UNCHANGED <<onMember, rowOf, catalogRuns, history, rollUp, massGone, pruned, runsBegun>>

\* pruneChanges(): the changes before the oldest of the member's newest runs.
PrunesHistory ==
  LET oldest(m) == catalogRuns[m][IF Len(catalogRuns[m]) > KeepRuns THEN Len(catalogRuns[m]) - KeepRuns + 1 ELSE 1].id
      stale(c) == c.run < oldest(c.member)
  IN /\ \E i \in DOMAIN history : stale(history[i])
     /\ history' = Restrict(history, {i \in DOMAIN history : ~stale(history[i])})
     /\ pruned' = pruned \cup {m \in Members : \E i \in DOMAIN history : stale(history[i]) /\ history[i].member = m}
     /\ UNCHANGED <<onMember, rowOf, catalogRuns, catalogScan, keptStats, rollUp, massGone, cutShort, runsBegun, edits>>

\* purgeRoot(), of a root that is not configured any more, which may come back;
\* the changes go with the runs they belong to.
PurgesRoot(m) ==
  /\ catalogScan.pc = "off" /\ catalogRuns[m] # <<>> /\ edits < MaxEdits /\ edits' = edits + 1
  /\ rowOf' = [rowOf EXCEPT ![m] = [f \in PoolFiles |-> NoRow]]
  /\ catalogRuns' = [catalogRuns EXCEPT ![m] = <<>>]
  /\ history' = Restrict(history, {i \in DOMAIN history : history[i].member # m})
  /\ keptStats' = Forgotten0 /\ pruned' = pruned \ {m} /\ rollUp' = [rollUp EXCEPT ![m] = -1]
  /\ UNCHANGED <<onMember, catalogScan, massGone, cutShort, runsBegun>>

-----------------------------------------------------------------------------
(* Reading.                                                                *)

\* rootStats(): what is kept for five seconds, or else counted.
\* Bound: of the member that is swept, where it matters.
ReadsStats(m) ==
  /\ catalogScan.member = m /\ catalogScan.pc = "sweep" /\ keptStats[m] = <<>> /\ keptStats' = [keptStats EXCEPT ![m] = CountsNow(m)]
  /\ UNCHANGED <<onMember, rowOf, catalogRuns, catalogScan, history, rollUp, massGone, pruned, cutShort, runsBegun, edits>>

\* computeTotals(): of the members that have been rolled up, or else of all rows.
Rolled == {m \in Members : rollUp[m] >= 0}
SumOf(counts) == FoldFunction(+, 0, counts)
Totals == SumOf(IF Rolled # {} THEN Restrict(rollUp, Rolled) ELSE [m \in Members |-> Cardinality(LiveFiles(m))])

\* poolFilesInDirectory(): the disks that hold a file; searchFiles() counts rows.
CopiesListed(f) == Cardinality({DiskOfMember[m] : m \in {n \in Members : f \in LiveFiles(n)}})
CopiesFound(f) == Cardinality({m \in Members : f \in LiveFiles(m)})

\* listChanges(), which lists them by their ids.
ChangesShown(m, f) == {i \in DOMAIN history : history[i].member = m /\ history[i].file = f}

\* diffSummary() and runChangeCounts().
ChangeCount(run, kinds) == Cardinality({i \in DOMAIN history : history[i].run = run /\ history[i].kind \in kinds})

\* failureDomain(): the members on the disk of one, and the others.
FailsWith(m) == {n \in Members : DiskOfMember[n] = DiskOfMember[m]}

\* Mutant of LossOf: the member alone is taken to fail.
LossOfMember(m) == {f \in LiveFiles(m) : \A n \in Members \ {m} : f \notin LiveFiles(n)}

\* diskLossImpact() and listUnrecoverableFiles(): no live row on another disk.
\* Of a pool with one part catalogued its rule is asked instead; that is left out.
LossOf(m) ==
  {f \in UNION {LiveFiles(n) : n \in FailsWith(m)} : \A n \in Members \ FailsWith(m) : f \notin LiveFiles(n)}

\* poolMissingFiles(): rows, and none of them live.
PoolMissing == {f \in PoolFiles : (\E m \in Members : f \in GoneFiles(m)) /\ \A m \in Members : f \notin LiveFiles(m)}

-----------------------------------------------------------------------------
\* People and DrivePool write, copy and delete; the stamps are told apart, no more.
DiskChanges(m, f) ==
  /\ edits < MaxEdits /\ edits' = edits + 1
  /\ \E stamp \in (0..2) \ {onMember[m][f]} : (stamp = 2 => onMember[m][f] = 1) /\ onMember' = [onMember EXCEPT ![m][f] = stamp]
  /\ UNCHANGED <<rowOf, catalogRuns, catalogScan, history, keptStats, rollUp, massGone, pruned, cutShort, runsBegun>>

InitHistory ==
  /\ onMember = [m \in Members |-> [f \in PoolFiles |-> IF f \in FirstHeld[m] THEN 1 ELSE 0]]
  /\ rowOf = [m \in Members |-> [f \in PoolFiles |-> NoRow]]
  /\ catalogRuns = [m \in Members |-> <<>>] /\ catalogScan = NoScan /\ history = <<>>
  /\ keptStats = Forgotten0 /\ rollUp = [m \in Members |-> -1] /\ massGone = {} /\ pruned = {} /\ cutShort = {} /\ runsBegun = 0 /\ edits = 0

NextHistory ==
  \/ \E m \in Members : ScanBegins(m) \/ PurgesRoot(m) \/ ReadsStats(m)
  \/ \E f \in PoolFiles : RecordsFile(f) \/ SweepsFile(f)
  \/ WalkEnds \/ ScanFinishes \/ ScanFails \/ ScanDies \/ PrunesHistory
  \/ \E m \in Members, f \in PoolFiles : DiskChanges(m, f)

HistorySpec == InitHistory /\ [][NextHistory]_historyVars

-----------------------------------------------------------------------------
HistoryTypeOK ==
  /\ onMember \in [Members -> [PoolFiles -> 0..2]]
  /\ \A m \in Members, f \in PoolFiles : rowOf[m][f] \in [state : {"none", "live", "deleted"}, stamp : 0..2, run : 0..MaxCatalogRuns]
  /\ catalogScan.pc \in {"off", "walk", "sweep"} /\ massGone \subseteq Members /\ pruned \subseteq Members
  /\ \A i \in DOMAIN history : history[i].kind \in {"created", "modified", "deleted", "restored"}

\* The changes of a file tell one story, and it ends where its row stands.
EndsAsTheRow(change, row) ==
  /\ change.kind = "deleted" <=> row.state = "deleted"
  /\ row.state = "live" => change.new = row.stamp

Follows(change, earlier) ==
  /\ change.kind # "created" /\ change.run >= earlier.run
  /\ change.kind = "restored" <=> earlier.kind = "deleted"
  /\ change.kind \in {"modified", "deleted"} => change.old = earlier.new

StoryHolds(m, f) ==
  LET told == ChangesShown(m, f)
  IN /\ told = {} => m \in pruned \/ rowOf[m][f] = NoRow
     /\ \A i \in told : (\A j \in told : j <= i) => EndsAsTheRow(history[i], rowOf[m][f])
     /\ \A i, j \in told : i < j /\ (\A k \in told : k <= i \/ j <= k) => Follows(history[j], history[i])

\* A member's rows say what is on it.
Current(m) == \A f \in PoolFiles : (rowOf[m][f].state = "live") <=> (onMember[m][f] > 0)

(* Through failed, resumed and repeated scans, prunings and purges: the    *)
(* log of a file is one story that ends where its row stands; the figures  *)
(* kept are those of the rows; the alert on mass deletion is open whenever *)
(* the member's last run took half its files, and only then once that run  *)
(* has completed, unless a restart cut its sweep in two; the totals are    *)
(* those of the rows once every member's last run has completed; and when  *)
(* the rows say what is on the disks, the copies the storage view shows    *)
(* are the disks that hold a file, the copies a search shows are the same  *)
(* unless two members that hold it share a disk, and the loss foretold for *)
(* a disk is what would be on no other disk without it.                    *)
CatalogAnswersTruly ==
  /\ \A m \in Members, f \in PoolFiles : StoryHolds(m, f)
  /\ \A m \in Members : keptStats[m] # <<>> => keptStats[m] = CountsNow(m)
  /\ \A m \in Members \ cutShort : catalogScan.pc = "off" /\ catalogRuns[m] # <<>> =>
       LET gone == ChangeCount(LastRun(m).id, {"deleted"})
           tookHalf == gone > 0 /\ 2 * gone >= Cardinality(LiveFiles(m)) + gone
       IN /\ tookHalf => m \in massGone
          /\ m \in massGone /\ LastRun(m).state = "completed" => tookHalf
  /\ catalogScan.pc = "off" /\ (\A m \in Members : catalogRuns[m] # <<>> /\ LastRun(m).state = "completed") =>
       Totals = SumOf([m \in Members |-> Cardinality(LiveFiles(m))])
  /\ (\A m \in Members : Current(m)) =>
       /\ \A f \in PoolFiles :
         LET holding == {m \in Members : onMember[m][f] > 0}
             disks == Cardinality({DiskOfMember[m] : m \in holding})
         IN /\ CopiesListed(f) = disks
            /\ (\A m, n \in holding : DiskOfMember[m] = DiskOfMember[n] => m = n) => CopiesFound(f) = disks
       /\ \A m \in Members :
         LossOf(m) = {f \in PoolFiles : (\E n \in Members : onMember[n][f] > 0)
                        /\ \A n \in Members : onMember[n][f] > 0 => DiskOfMember[n] = DiskOfMember[m]}
  /\ PoolMissing \cap UNION {LiveFiles(m) : m \in Members} = {}
=============================================================================
