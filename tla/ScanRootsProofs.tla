--------------------------- MODULE ScanRootsProofs ---------------------------
(***************************************************************************)
(* What TLAPS proves of ScanRoots for every set of disks, every list of    *)
(* roots, every pool and every number of runs and restarts: while nobody   *)
(* edits the roots, a pass that windows and restarts cut into pieces loses *)
(* no file, leaves no catalog run open and no pool with old rollups, and   *)
(* visits every root.  Run RootsEdited shows what an edit does to it.      *)
(***************************************************************************)
EXTENDS ScanRoots, TLAPS

(* Nobody saves other catalog roots. *)
RootsStay == \A S, T \in Settings : S = T

-----------------------------------------------------------------------------
(* Where a pass is.                                                        *)

On == pass.pc # "off"
AtRoot == pass.pc \in {"walking", "sweeping", "pausing"}

(* There is one saved cursor at most, and it names a root.  The cursor of  *)
(* the pass is there or one root further; in between no run is remembered, *)
(* so what a restart repeats is a whole root.                              *)
OnCourse ==
    /\ \A c, d \in saved : c = d
    /\ \A c \in saved : c.index \in DOMAIN enabled
    /\ On =>
        /\ pass.roots = enabled
        /\ pass.cursor.index \in 1..(Len(enabled) + 1)
        /\ AtRoot => pass.cursor.index \in DOMAIN enabled /\ pass.cursor.run # 0
        /\ pass.pc = "ending" => pass.cursor.index = Len(enabled) + 1
        /\ saved = {} => pass.cursor.index = 1
        /\ \A c \in saved :
            /\ pass.cursor.index \in {c.index, c.index + 1}
            /\ c.run # 0 => pass.cursor.index = c.index /\ pass.cursor.run = c.run

(* A cursor's run is the one in progress of its root, and what its         *)
(* worklist leaves out has been seen in that run.                          *)
Feeds(c) ==
    c.run # 0 =>
        /\ c.index \in DOMAIN enabled
        /\ runs[c.run].root = {enabled[c.index]} /\ runs[c.run].state = "running"

SkipsWhatWasSeen(c) ==
    c.list # {} =>
        /\ c.run # 0 /\ c.list = {enabled[c.index]}
        /\ <<enabled[c.index], "early">> \in disk => seen[<<enabled[c.index], "early">>] = c.run

Resumable ==
    /\ \A c \in saved : Feeds(c) /\ SkipsWhatWasSeen(c)
    /\ On => Feeds(pass.cursor) /\ SkipsWhatWasSeen(pass.cursor)

(* When the sweep begins, everything on the disk has been seen in the run. *)
WalkedBeforeSwept ==
    pass.pc = "sweeping" => \A p \in disk : p[1] = Here => seen[p] = pass.cursor.run

(* The roots a run may be open for: the one the pass is at, and the next   *)
(* one while the pass repeats what a restart cost it.                      *)
MayBeOpen(i) ==
    IF saved = {} THEN i = 1 /\ (On \/ visited = {})
    ELSE \E c \in saved :
            \/ i = c.index + 1
            \/ i = c.index /\ ~(On /\ pass.cursor.index = c.index + 1)

OpenRunsAhead ==
    /\ \A r \in RunIds : runs[r].state = "running" =>
            \E i \in DOMAIN enabled : MayBeOpen(i) /\ runs[r].root = {enabled[i]}
    /\ \A r, q \in RunIds :
            runs[r].state = "running" /\ runs[q].state = "running" /\ runs[r].root = runs[q].root => r = q

(* A pool to be rebuilt is one that the saved cursor knows of. *)
PoolsRemembered ==
    /\ stale => \E c \in saved : c.dirty
    /\ On => \A c \in saved : pass.cursor.dirty = c.dirty

(* What lies behind a cursor has been visited. *)
VisitedBehind ==
    /\ \A c \in saved : \A i \in 1..(c.index - 1) : enabled[i] \in visited
    /\ On => \A i \in 1..(pass.cursor.index - 1) : enabled[i] \in visited
    /\ On /\ saved = {} => visited = {}

InOrder ==
    /\ OnCourse /\ Resumable /\ WalkedBeforeSwept /\ NothingIsLost
    /\ OpenRunsAhead /\ PoolsRemembered /\ VisitedBehind
-----------------------------------------------------------------------------
(* Types.                                                                  *)

PassType == [pc : {"off", "next", "walking", "sweeping", "pausing", "ending"},
             roots : Settings \cup {<<>>}, cursor : Cursor]
RunType == [root : SUBSET Roots, state : {"none", "running", "completed", "failed"}]

AtItsRoot == AtRoot => pass.cursor.index \in DOMAIN pass.roots

Typed == TypeOK /\ AtItsRoot

USE DEF RunIds

LEMMA TypeParts ==
    TypeOK <=> /\ enabled \in Settings
               /\ pass \in PassType
               /\ saved \in SUBSET Cursor
               /\ runs \in [RunIds -> RunType]
               /\ seen \in [Parts -> 0..MaxRuns]
               /\ disk \subseteq Parts /\ live \subseteq Parts
               /\ stale \in BOOLEAN
               /\ visited \subseteq Roots
               /\ crashes \in 0..MaxCrashes
  BY DEF TypeOK, PassType, RunType

LEMMA IdleType == FreshCursor \in Cursor /\ Idle \in PassType
  BY SettingsAssumption DEF FreshCursor, Cursor, Idle, PassType

LEMMA HereIsARoot ==
    ASSUME TypeOK, pass.cursor.index \in DOMAIN pass.roots
    PROVE  Here \in Roots
  <1>1. pass.roots \in Settings \cup {<<>>}
    BY TypeParts DEF PassType
  <1>2. pass.roots # <<>>
    OBVIOUS
  <1>3. pass.roots \in Seq(Roots)
    BY <1>1, <1>2, SettingsAssumption
  <1> QED BY <1>3 DEF Here

LEMMA TypeInit == Init => Typed
  <1> SUFFICES ASSUME Init PROVE TypeOK /\ AtItsRoot
    BY DEF Typed
  <1>1. [root |-> {}, state |-> "none"] \in RunType
    BY DEF RunType
  <1>2. 0 \in 0..MaxRuns /\ 0 \in 0..MaxCrashes
    BY SettingsAssumption
  <1>3. TypeOK
    BY <1>1, <1>2, IdleType, TypeParts DEF Init
  <1> QED BY <1>3 DEF Init, Idle, AtItsRoot, AtRoot

(* What an edit makes of a cursor, field by field. *)
AfterRoot(c, dirty) == [c EXCEPT !.run = 0, !.list = {}, !.dirty = dirty]
OneFurther(c) == [c EXCEPT !.index = @ + 1]

LEMMA AfterRootIs ==
    ASSUME NEW c \in Cursor, NEW dirty \in BOOLEAN
    PROVE  /\ AfterRoot(c, dirty) \in Cursor
           /\ AfterRoot(c, dirty).index = c.index /\ AfterRoot(c, dirty).run = 0
           /\ AfterRoot(c, dirty).list = {} /\ AfterRoot(c, dirty).dirty = dirty
  <1>1. 0 \in 0..MaxRuns /\ {} \in SUBSET Roots
    BY SettingsAssumption
  <1> QED BY <1>1 DEF AfterRoot, Cursor

LEMMA OneFurtherIs ==
    ASSUME NEW c \in Cursor
    PROVE  /\ OneFurther(c) \in Cursor
           /\ OneFurther(c).index = c.index + 1 /\ OneFurther(c).run = c.run
           /\ OneFurther(c).list = c.list /\ OneFurther(c).dirty = c.dirty
  <1>1. c.index + 1 \in Nat \ {0}
    BY DEF Cursor
  <1> QED BY <1>1 DEF OneFurther, Cursor

(* What the pass and the cursor are after a root. *)
LEMMA RootDoneIs ==
    ASSUME Typed, AtRoot, NEW dirty \in BOOLEAN, RootDone(pass.cursor, dirty)
    PROVE  /\ saved' = {AfterRoot(pass.cursor, dirty)}
           /\ pass' \in PassType
           /\ pass'.pc = "next" /\ pass'.roots = pass.roots
           /\ pass'.cursor = OneFurther(AfterRoot(pass.cursor, dirty))
           /\ visited' = visited \cup {Here} /\ Here \in Roots
  <1>1. pass \in PassType /\ pass.cursor \in Cursor
    BY TypeParts DEF Typed, PassType
  <1>2. OneFurther(AfterRoot(pass.cursor, dirty)) \in Cursor
    BY <1>1, AfterRootIs, OneFurtherIs
  <1>3. Here \in Roots
    BY HereIsARoot DEF Typed, AtItsRoot
  <1>4. saved' = {AfterRoot(pass.cursor, dirty)} /\ visited' = visited \cup {Here}
    BY DEF RootDone, Saves, AfterRoot
  <1>5. pass' = [pass EXCEPT !.pc = "next", !.cursor = OneFurther(AfterRoot(pass.cursor, dirty))]
    BY DEF RootDone, AfterRoot, OneFurther
  <1>6. /\ pass' \in PassType /\ pass'.pc = "next" /\ pass'.roots = pass.roots
        /\ pass'.cursor = OneFurther(AfterRoot(pass.cursor, dirty))
    BY <1>1, <1>2, <1>5 DEF PassType
  <1> QED BY <1>3, <1>4, <1>6

LEMMA RootDoneType ==
    ASSUME Typed, AtRoot, NEW dirty \in BOOLEAN, RootDone(pass.cursor, dirty)
    PROVE  /\ saved' \in SUBSET Cursor /\ pass' \in PassType /\ visited' \subseteq Roots
           /\ pass'.pc = "next"
  <1>1. pass.cursor \in Cursor /\ visited \subseteq Roots
    BY TypeParts DEF Typed, PassType
  <1> QED BY <1>1, AfterRootIs, RootDoneIs

LEMMA TypeStep == Typed /\ [Next]_vars => Typed'
  <1> SUFFICES ASSUME Typed, [Next]_vars PROVE Typed'
    OBVIOUS
  <1>a. /\ enabled \in Settings /\ pass \in PassType /\ saved \in SUBSET Cursor
        /\ runs \in [RunIds -> RunType] /\ seen \in [Parts -> 0..MaxRuns]
        /\ disk \subseteq Parts /\ live \subseteq Parts /\ stale \in BOOLEAN
        /\ visited \subseteq Roots /\ crashes \in 0..MaxCrashes
    BY TypeParts DEF Typed
  <1>c. pass.cursor \in Cursor /\ pass.roots \in Settings \cup {<<>>}
    BY <1>a DEF PassType
  <1>h. pass.cursor.index \in DOMAIN pass.roots => Here \in Roots
    BY HereIsARoot DEF Typed
  <1>t. ASSUME TypeOK', AtItsRoot' PROVE Typed'
    BY <1>t DEF Typed
  <1>r. ASSUME NEW P, Record(P) PROVE seen' \in [Parts -> 0..MaxRuns] /\ live' \subseteq Parts
    BY <1>r, <1>a, <1>c DEF Record, Cursor
  <1>1. CASE Begin
    <2>1. pass' = [pc |-> "next", roots |-> enabled,
                   cursor |-> IF saved = {} THEN FreshCursor ELSE CHOOSE c \in saved : TRUE]
      BY <1>1 DEF Begin
    <2>2. (IF saved = {} THEN FreshCursor ELSE CHOOSE c \in saved : TRUE) \in Cursor
      BY <1>a, IdleType
    <2>3. pass' \in PassType /\ pass'.pc = "next"
      BY <2>1, <2>2, <1>a DEF PassType
    <2> QED BY <2>3, <1>a, <1>1, <1>t, TypeParts DEF Begin, AtItsRoot, AtRoot, TypeOK, PassType, RunType
  <1>2. CASE NextRoot
    <2>1. PICK r \in RunIds : FeedsRun(r) /\ pass' = [pass EXCEPT !.pc = "walking", !.cursor.run = r]
      BY <1>2 DEF NextRoot
    <2>2. pass.cursor.index \in DOMAIN pass.roots
      BY <1>2, <1>c, SettingsAssumption DEF NextRoot, Cursor
    <2>3. [root |-> {Here}, state |-> "running"] \in RunType
      BY <2>2, <1>h DEF RunType
    <2>4. runs' \in [RunIds -> RunType]
      BY <2>1, <2>3, <1>a DEF FeedsRun
    <2>5. [pass.cursor EXCEPT !.run = r] \in Cursor
      BY <1>c, SettingsAssumption DEF Cursor
    <2>6. pass' = [pass EXCEPT !.pc = "walking", !.cursor = [pass.cursor EXCEPT !.run = r]]
      BY <2>1, <1>a DEF PassType
    <2>7. pass' \in PassType
      BY <2>5, <2>6, <1>a DEF PassType
    <2>8. pass'.roots = pass.roots /\ pass'.cursor.index = pass.cursor.index
      BY <2>6, <1>a, <1>c DEF PassType, Cursor
    <2> QED BY <2>2, <2>4, <2>7, <2>8, <1>a, <1>2, <1>t DEF NextRoot, AtItsRoot, TypeOK, PassType, RunType
  <1>3. CASE NoRootLeft
    <2>1. pass' \in PassType /\ pass'.pc = "ending"
      BY <1>3, <1>a DEF NoRootLeft, PassType
    <2> QED BY <2>1, <1>a, <1>3, <1>t DEF NoRootLeft, AtItsRoot, AtRoot, TypeOK, PassType, RunType
  <1>4. CASE AgentPauses
    <2>1. /\ pass' \in PassType /\ pass'.pc = "pausing"
          /\ pass'.roots = pass.roots /\ pass'.cursor.index = pass.cursor.index
      <3>1. CASE pass' = [pass EXCEPT !.pc = "pausing"]
        BY <3>1, <1>a DEF PassType
      <3>2. CASE pass' = [pass EXCEPT !.pc = "pausing", !.cursor.list = {Here}]
        <4>1. Here \in Roots
          BY <1>4, <1>h DEF AgentPauses, At, Typed, AtItsRoot, AtRoot
        <4>2. [pass.cursor EXCEPT !.list = {Here}] \in Cursor
          BY <4>1, <1>c DEF Cursor
        <4>3. pass' = [pass EXCEPT !.pc = "pausing", !.cursor = [pass.cursor EXCEPT !.list = {Here}]]
          BY <3>2, <1>a DEF PassType
        <4>4. pass' \in PassType /\ pass'.pc = "pausing" /\ pass'.roots = pass.roots
          BY <4>2, <4>3, <1>a DEF PassType
        <4>5. pass'.cursor.index = pass.cursor.index
          BY <4>3, <1>a, <1>c DEF PassType, Cursor
        <4> QED BY <4>4, <4>5
      <3> QED BY <3>1, <3>2, <1>4 DEF AgentPauses
    <2>2. seen' \in [Parts -> 0..MaxRuns] /\ live' \subseteq Parts
      BY <1>4, <1>a, <1>r DEF AgentPauses
    <2>3. AtItsRoot'
      BY <2>1, <1>4 DEF AgentPauses, At, Typed, AtItsRoot, AtRoot
    <2> QED BY <2>1, <2>2, <2>3, <1>a, <1>4, <1>t DEF AgentPauses, TypeOK, PassType, RunType
  <1>5. CASE AgentCompletes
    <2>1. pass' \in PassType /\ pass'.roots = pass.roots /\ pass'.cursor = pass.cursor
      BY <1>5, <1>a DEF AgentCompletes, PassType
    <2>2. seen' \in [Parts -> 0..MaxRuns] /\ live' \subseteq Parts
      BY <1>5, <1>r DEF AgentCompletes
    <2>3. AtItsRoot'
      BY <2>1, <1>5 DEF AgentCompletes, At, Typed, AtItsRoot, AtRoot
    <2> QED BY <2>1, <2>2, <2>3, <1>a, <1>5, <1>t DEF AgentCompletes, TypeOK, PassType, RunType
  <1>6. CASE AgentFails
    <2>1. saved' \in SUBSET Cursor /\ pass' \in PassType /\ visited' \subseteq Roots /\ pass'.pc = "next"
      BY <1>6, <1>c, RootDoneType DEF AgentFails, At, AtRoot, Cursor
    <2>2. runs' \in [RunIds -> RunType]
      BY <1>6, <1>a DEF AgentFails, RunType
    <2> QED BY <2>1, <2>2, <1>a, <1>6, <1>t DEF AgentFails, AtItsRoot, AtRoot, TypeOK, PassType, RunType
  <1>7. CASE FinishRoot
    <2>0. (pass.cursor.dirty \/ Here \in Pooled) \in BOOLEAN
      OBVIOUS
    <2>1. saved' \in SUBSET Cursor /\ pass' \in PassType /\ visited' \subseteq Roots /\ pass'.pc = "next"
      BY <2>0, <1>7, <1>c, RootDoneType DEF FinishRoot, At, AtRoot, Cursor
    <2>2. runs' \in [RunIds -> RunType]
      BY <1>7, <1>a DEF FinishRoot, RunType
    <2>3. stale' \in BOOLEAN
      BY <1>7 DEF FinishRoot
    <2> QED BY <2>1, <2>2, <2>3, <1>a, <1>7, <1>t DEF FinishRoot, AtItsRoot, AtRoot, TypeOK, PassType, RunType
  <1>8. CASE Sweep
    <2>1. live' \subseteq Parts /\ UNCHANGED <<disk, enabled, pass, saved, runs, seen, stale, visited, crashes>>
      BY <1>8, <1>a DEF Sweep
    <2> QED BY <2>1, <1>a DEF Typed, TypeOK, AtItsRoot, AtRoot
  <1>9. CASE Pause
    <2>1. [pass.cursor EXCEPT !.dirty = FALSE] \in Cursor
      BY <1>c DEF Cursor
    <2>2. stale' \in BOOLEAN
      BY <1>9 DEF Pause, Rebuilt
    <2> QED BY <2>1, <2>2, <1>a, <1>9, <1>t, IdleType
            DEF Pause, Saves, AtItsRoot, AtRoot, Idle, TypeOK, PassType, RunType
  <1>10. CASE End
    <2>2. stale' \in BOOLEAN
      BY <1>10 DEF End, Rebuilt
    <2> QED BY <2>2, <1>a, <1>10, <1>t, IdleType DEF End, AtItsRoot, AtRoot, Idle, TypeOK, PassType, RunType
  <1>11. CASE Restart
    <2>1. crashes' \in 0..MaxCrashes
      BY <1>11, <1>a, SettingsAssumption DEF Restart
    <2> QED BY <2>1, <1>a, <1>11, <1>t, IdleType DEF Restart, AtItsRoot, AtRoot, Idle, TypeOK, PassType, RunType
  <1>12. ASSUME NEW p \in Leaving, Removed(p) PROVE Typed'
    <2>1. disk' \subseteq Parts /\ UNCHANGED <<enabled, pass, saved, runs, seen, live, stale, visited, crashes>>
      BY <1>12, <1>a DEF Removed
    <2> QED BY <2>1, <1>a DEF Typed, TypeOK, AtItsRoot, AtRoot
  <1>13. CASE SettingsChange
    BY <1>13, <1>a DEF SettingsChange, Typed, TypeOK, AtItsRoot, AtRoot
  <1>14. CASE UNCHANGED vars
    BY <1>14 DEF vars, Typed, TypeOK, AtItsRoot, AtRoot, Here
  <1> QED
    BY <1>1, <1>2, <1>3, <1>4, <1>5, <1>6, <1>7, <1>8, <1>9, <1>10, <1>11, <1>12, <1>13, <1>14 DEF Next

(* Every variable of a pass stays in its type, roots edited or not. *)
THEOREM TypeCorrect == Spec => []TypeOK
  <1>1. Init => Typed
    BY TypeInit
  <1>2. Typed /\ [Next]_vars => Typed'
    BY TypeStep
  <1>3. Typed => TypeOK
    BY DEF Typed
  <1> QED BY <1>1, <1>2, <1>3, PTL DEF Spec

-----------------------------------------------------------------------------
(* A pass stays in order, action by action.                                *)

USE DEF At

LEMMA EnabledStays == RootsStay /\ TypeOK /\ TypeOK' => enabled' = enabled
  BY DEF RootsStay, TypeOK

LEMMA InOrderParts ==
    ASSUME Typed, InOrder
    PROVE  /\ pass.cursor \in Cursor /\ saved \subseteq Cursor
           /\ pass.cursor.index \in Nat \ {0} /\ pass.cursor.run \in 0..MaxRuns
           /\ \A c \in saved : c.index \in Nat \ {0} /\ c.run \in 0..MaxRuns
           /\ enabled \in Seq(Roots) /\ enabled # <<>> /\ Len(enabled) \in Nat \ {0}
           /\ DOMAIN enabled = 1..Len(enabled)
           /\ On => Here = enabled[pass.cursor.index]
           /\ runs \in [RunIds -> RunType] /\ seen \in [Parts -> 0..MaxRuns]
  <1>1. /\ pass.cursor \in Cursor /\ saved \subseteq Cursor /\ enabled \in Settings
        /\ runs \in [RunIds -> RunType] /\ seen \in [Parts -> 0..MaxRuns]
    BY TypeParts DEF Typed, PassType
  <1>2. enabled \in Seq(Roots) /\ enabled # <<>>
    BY <1>1, SettingsAssumption
  <1>3. Len(enabled) \in Nat \ {0} /\ DOMAIN enabled = 1..Len(enabled)
    BY <1>2
  <1>4. On => Here = enabled[pass.cursor.index]
    BY DEF InOrder, OnCourse, Here
  <1> QED BY <1>1, <1>2, <1>3, <1>4 DEF Cursor

LEMMA InOrderInit == Init => InOrder
  <1> SUFFICES ASSUME Init PROVE InOrder
    OBVIOUS
  <1>1. ~On /\ saved = {} /\ \A r \in RunIds : runs[r].state # "running"
    BY DEF Init, On, Idle
  <1> QED BY <1>1
          DEF Init, Idle, InOrder, OnCourse, Resumable, WalkedBeforeSwept, NothingIsLost, OpenRunsAhead,
              PoolsRemembered, VisitedBehind

(* A root is done with, well or not: its run is closed, so that of the     *)
(* runs that may be open only the next root's is left.                     *)
LEMMA RootDoneInOrder ==
    ASSUME Typed, InOrder, AtRoot, NEW dirty \in BOOLEAN, RootDone(pass.cursor, dirty),
           UNCHANGED <<enabled, disk, seen, live>>,
           NEW end \in {"completed", "failed"},
           runs' = [runs EXCEPT ![pass.cursor.run].state = end],
           stale' => dirty
    PROVE  InOrder'
  <1> DEFINE k == pass.cursor.index
  <1> DEFINE run == pass.cursor.run
  <1> DEFINE new == AfterRoot(pass.cursor, dirty)
  <1>a. /\ On /\ run \in RunIds /\ k \in DOMAIN enabled /\ Here = enabled[k] /\ k \in Nat \ {0}
        /\ DOMAIN enabled = 1..Len(enabled) /\ Len(enabled) \in Nat
        /\ runs \in [RunIds -> RunType] /\ pass.cursor \in Cursor /\ pass.roots = enabled
    BY InOrderParts DEF InOrder, OnCourse, AtRoot, On
  <1>b. /\ saved' = {new} /\ pass'.pc = "next" /\ pass'.roots = enabled
        /\ pass'.cursor = OneFurther(new) /\ visited' = visited \cup {Here}
    BY <1>a, RootDoneIs
  <1>c. new \in Cursor /\ new.index = k /\ new.run = 0 /\ new.list = {} /\ new.dirty = dirty
    BY <1>a, AfterRootIs
  <1>d. /\ pass'.cursor.index = k + 1 /\ pass'.cursor.run = 0 /\ pass'.cursor.list = {}
        /\ pass'.cursor.dirty = dirty
    BY <1>b, <1>c, OneFurtherIs
  <1>e. On' /\ ~AtRoot'
    BY <1>b DEF On, AtRoot
  <1> HIDE DEF k, run, new
  <1>1. OnCourse'
    BY <1>a, <1>b, <1>c, <1>d, <1>e DEF OnCourse
  <1>2. Resumable'
    BY <1>b, <1>c, <1>d DEF Resumable, Feeds, SkipsWhatWasSeen
  <1>3. WalkedBeforeSwept' /\ NothingIsLost'
    BY <1>b DEF WalkedBeforeSwept, NothingIsLost, InOrder
  <1>4. OpenRunsAhead'
    <2>1. \A q \in RunIds : q # run => runs'[q] = runs[q]
      BY <1>a DEF run
    <2>2. runs'[run].state # "running"
      BY <1>a DEF run, RunType
    <2>3. runs[run].root = {enabled[k]} /\ runs[run].state = "running"
      BY <1>a DEF InOrder, Resumable, Feeds, run, k
    <2>4. ASSUME NEW q \in RunIds, runs'[q].state = "running"
          PROVE  \E i \in DOMAIN enabled : MayBeOpen(i)' /\ runs'[q].root = {enabled[i]}
      <3>1. q # run /\ runs[q].state = "running" /\ runs'[q] = runs[q]
        BY <2>1, <2>2, <2>4
      <3>2. PICK i \in DOMAIN enabled : MayBeOpen(i) /\ runs[q].root = {enabled[i]}
        BY <3>1 DEF InOrder, OpenRunsAhead
      <3>3. i # k
        BY <3>1, <3>2, <2>3, <1>a DEF InOrder, OpenRunsAhead
      <3>4. i = k + 1
        <4>1. saved # {}
          BY <3>2, <3>3, <1>a DEF MayBeOpen, InOrder, OnCourse, k
        <4>2. PICK c \in saved : \/ i = c.index + 1
                                 \/ i = c.index /\ ~(On /\ k = c.index + 1)
          BY <3>2, <4>1 DEF MayBeOpen, k
        <4>3. k \in {c.index, c.index + 1}
          BY <1>a DEF InOrder, OnCourse, k
        <4> QED BY <1>a, <3>3, <4>2, <4>3
      <3>5. MayBeOpen(i)'
        BY <3>4, <1>b, <1>c DEF MayBeOpen
      <3> QED BY <3>1, <3>2, <3>5
    <2>5. ASSUME NEW q \in RunIds, NEW s \in RunIds,
                 runs'[q].state = "running", runs'[s].state = "running", runs'[q].root = runs'[s].root
          PROVE  q = s
      <3>1. q # run /\ s # run
        BY <2>2, <2>5
      <3> QED BY <3>1, <2>1, <2>5 DEF InOrder, OpenRunsAhead
    <2> QED BY <2>4, <2>5 DEF OpenRunsAhead
  <1>5. PoolsRemembered'
    BY <1>b, <1>c, <1>d DEF PoolsRemembered
  <1>6. VisitedBehind'
    <2>1. \A i \in 1..(k - 1) : enabled[i] \in visited
      BY <1>a DEF InOrder, VisitedBehind, k
    <2>2. \A i \in 1..k : enabled[i] \in visited'
      BY <2>1, <1>a, <1>b
    <2> QED BY <2>1, <2>2, <1>a, <1>b, <1>c, <1>d DEF VisitedBehind
  <1> QED BY <1>1, <1>2, <1>3, <1>4, <1>5, <1>6 DEF InOrder


LEMMA ActiveRunsIs ==
    ASSUME TypeOK, NEW root
    PROVE  ActiveRuns(root) = {r \in RunIds : runs[r].root = {root} /\ runs[r].state = "running"}
  <1>1. \A rec \in RunType : rec = [root |-> rec.root, state |-> rec.state]
    BY DEF RunType
  <1>2. \A r \in RunIds : runs[r] = [root |-> runs[r].root, state |-> runs[r].state]
    BY <1>1, TypeParts
  <1>3. ASSUME NEW r \in RunIds
        PROVE  runs[r] = [root |-> {root}, state |-> "running"]
                    <=> runs[r].root = {root} /\ runs[r].state = "running"
    <2>1. runs[r] = [root |-> runs[r].root, state |-> runs[r].state]
      BY <1>2
    <2>2. ASSUME runs[r].root = {root}, runs[r].state = "running"
          PROVE  runs[r] = [root |-> {root}, state |-> "running"]
      BY <2>1, <2>2, Zenon
    <2>3. ASSUME runs[r] = [root |-> {root}, state |-> "running"]
          PROVE  runs[r].root = {root} /\ runs[r].state = "running"
      BY <2>3
    <2> QED BY <2>2, <2>3
  <1> QED BY <1>3 DEF ActiveRuns

LEMMA BeginInOrder == ASSUME Typed, InOrder, Begin PROVE InOrder'
  <1> DEFINE from == IF saved = {} THEN FreshCursor ELSE CHOOSE c \in saved : TRUE
  <1>a. /\ ~On /\ UNCHANGED <<disk, enabled, saved, runs, seen, live, stale, crashes>>
        /\ visited' = IF saved = {} THEN {} ELSE visited
    BY DEF Begin, On
  <1>b. pass' = [pc |-> "next", roots |-> enabled, cursor |-> from]
    BY DEF Begin
  <1>c. saved = {} => from.index = 1 /\ from.run = 0 /\ from.list = {} /\ ~from.dirty
    BY DEF FreshCursor
  <1>d. saved # {} => from \in saved
    OBVIOUS
  <1> HIDE DEF from
  <1>e. pass'.pc = "next" /\ pass'.roots = enabled /\ pass'.cursor = from
    BY <1>b
  <1>f. On' /\ ~AtRoot'
    BY <1>e DEF On, AtRoot
  <1>g. /\ DOMAIN enabled = 1..Len(enabled) /\ Len(enabled) \in Nat \ {0}
        /\ \A c \in saved : c.index \in Nat \ {0}
    BY InOrderParts
  <1>1. OnCourse'
    BY <1>a, <1>c, <1>d, <1>e, <1>f, <1>g DEF InOrder, OnCourse
  <1>2. Resumable'
    BY <1>a, <1>c, <1>d, <1>e DEF InOrder, Resumable, Feeds, SkipsWhatWasSeen
  <1>3. WalkedBeforeSwept' /\ NothingIsLost'
    BY <1>a, <1>e DEF WalkedBeforeSwept, NothingIsLost, InOrder
  <1>4. \A i \in DOMAIN enabled : MayBeOpen(i) => MayBeOpen(i)'
    BY <1>a, <1>d, <1>e, <1>f, <1>g DEF MayBeOpen, InOrder, OnCourse
  <1>5. OpenRunsAhead'
    BY <1>4, <1>a DEF OpenRunsAhead, InOrder
  <1>6. PoolsRemembered'
    BY <1>a, <1>d, <1>e DEF PoolsRemembered, InOrder, OnCourse
  <1>7. VisitedBehind'
    BY <1>a, <1>c, <1>d, <1>e DEF VisitedBehind, InOrder, OnCourse
  <1> QED BY <1>1, <1>2, <1>3, <1>5, <1>6, <1>7 DEF InOrder

(* The run a root feeds is the one its cursor names, or else the only one  *)
(* in progress, or else a new one.                                         *)
LEMMA NextRootInOrder == ASSUME Typed, InOrder, NextRoot PROVE InOrder'
  <1> DEFINE k == pass.cursor.index
  <1>1. PICK r \in RunIds : FeedsRun(r) /\ pass' = [pass EXCEPT !.pc = "walking", !.cursor.run = r]
    BY DEF NextRoot
  <1>a. /\ pass.pc = "next" /\ On /\ k <= Len(enabled)
        /\ UNCHANGED <<disk, enabled, saved, seen, live, stale, visited, crashes>>
        /\ pass.roots = enabled
    BY DEF NextRoot, On, InOrder, OnCourse
  <1>b. pass \in PassType /\ pass.cursor \in Cursor
    BY TypeParts DEF Typed, PassType
  <1>c. [pass.cursor EXCEPT !.run = r] \in Cursor
    BY <1>b, SettingsAssumption DEF Cursor
  <1>d. pass' = [pass EXCEPT !.pc = "walking", !.cursor = [pass.cursor EXCEPT !.run = r]]
    BY <1>1, <1>b DEF PassType
  <1>e. /\ pass'.pc = "walking" /\ pass'.roots = enabled
        /\ pass'.cursor = [pass.cursor EXCEPT !.run = r]
    BY <1>a, <1>b, <1>d DEF PassType
  <1>f. /\ pass'.cursor.index = k /\ pass'.cursor.run = r
        /\ pass'.cursor.list = pass.cursor.list /\ pass'.cursor.dirty = pass.cursor.dirty
    BY <1>b, <1>e DEF Cursor
  <1>g. /\ DOMAIN enabled = 1..Len(enabled) /\ Len(enabled) \in Nat \ {0}
        /\ k \in DOMAIN enabled /\ Here = enabled[k]
        /\ \A c \in saved : c.index \in Nat \ {0} /\ c.run \in 0..MaxRuns
        /\ runs \in [RunIds -> RunType] /\ k \in Nat \ {0}
    BY InOrderParts, <1>a
  <1>h. On' /\ AtRoot' /\ r # 0
    BY <1>e, SettingsAssumption DEF On, AtRoot
  <1> HIDE DEF k
  <1>2. /\ pass.cursor.run # 0 => r = pass.cursor.run
        /\ runs'[r].root = {enabled[k]} /\ runs'[r].state = "running"
        /\ \A q \in RunIds : runs[q].state = "running" => runs'[q] = runs[q]
        /\ \A q \in RunIds : q # r => runs'[q] = runs[q]
        /\ \A q \in RunIds : runs'[q].state = "running" /\ runs'[q].root = {enabled[k]} => q = r
    <2>1. CASE pass.cursor.run # 0
      <3>1. r = pass.cursor.run /\ UNCHANGED runs
        BY <2>1, <1>1 DEF FeedsRun
      <3>2. runs[r].root = {enabled[k]} /\ runs[r].state = "running"
        BY <2>1, <3>1, <1>a DEF InOrder, Resumable, Feeds, k
      <3> QED BY <3>1, <3>2 DEF InOrder, OpenRunsAhead
    <2>2. CASE pass.cursor.run = 0 /\ ActiveRuns(Here) # {}
      <3>1. r \in ActiveRuns(Here) /\ UNCHANGED runs
        BY <2>2, <1>1 DEF FeedsRun
      <3>2. runs[r].root = {enabled[k]} /\ runs[r].state = "running"
        BY <3>1, <1>g, ActiveRunsIs DEF Typed
      <3> QED BY <3>1, <3>2, <2>2 DEF InOrder, OpenRunsAhead
    <2>3. CASE pass.cursor.run = 0 /\ ActiveRuns(Here) = {}
      <3>1. /\ runs[r].state = "none"
            /\ runs' = [runs EXCEPT ![r] = [root |-> {enabled[k]}, state |-> "running"]]
        BY <2>3, <1>1, <1>g DEF FeedsRun
      <3>2. \A q \in RunIds : ~(runs[q].root = {enabled[k]} /\ runs[q].state = "running")
        <4>1. ActiveRuns(Here) = {q \in RunIds : runs[q].root = {Here} /\ runs[q].state = "running"}
          BY ActiveRunsIs DEF Typed
        <4> QED BY <4>1, <2>3, <1>g
      <3>3. runs'[r].root = {enabled[k]} /\ runs'[r].state = "running"
        BY <3>1, <1>g
      <3>4. \A q \in RunIds : q # r => runs'[q] = runs[q]
        BY <3>1, <1>g
      <3> QED BY <2>3, <3>1, <3>2, <3>3, <3>4
    <2> QED BY <2>1, <2>2, <2>3
  <1>3. OnCourse'
    <2>1. \A c \in saved : c.run # 0 => k = c.index /\ r = c.run
      BY <1>2, <1>a, <1>g DEF InOrder, OnCourse, k
    <2>2. \A c \in saved : k \in {c.index, c.index + 1}
      BY <1>a DEF InOrder, OnCourse, k
    <2>3. saved = {} => k = 1
      BY <1>a DEF InOrder, OnCourse, k
    <2>4. \A c, d \in saved : c = d
      BY DEF InOrder, OnCourse
    <2>5. \A c \in saved : c.index \in DOMAIN enabled
      BY DEF InOrder, OnCourse
    <2>6. k \in 1..(Len(enabled) + 1)
      BY <1>g
    <2> QED BY <1>a, <1>e, <1>f, <1>g, <1>h, <2>1, <2>2, <2>3, <2>4, <2>5, <2>6 DEF OnCourse
  <1>4. Resumable'
    <2>1. \A c \in saved : Feeds(c)'
      BY <1>2, <1>a, <1>g DEF InOrder, Resumable, Feeds
    <2>2. \A c \in saved : SkipsWhatWasSeen(c)'
      BY <1>a DEF InOrder, Resumable, SkipsWhatWasSeen
    <2>3. Feeds(pass.cursor)'
      BY <1>2, <1>a, <1>f, <1>g DEF Feeds
    <2>4. SkipsWhatWasSeen(pass.cursor)'
      BY <1>2, <1>a, <1>f DEF InOrder, Resumable, SkipsWhatWasSeen, k
    <2> QED BY <1>a, <2>1, <2>2, <2>3, <2>4 DEF Resumable
  <1>5. WalkedBeforeSwept' /\ NothingIsLost'
    BY <1>a, <1>e DEF WalkedBeforeSwept, NothingIsLost, InOrder
  <1>6. OpenRunsAhead'
    <2>1. \A i \in DOMAIN enabled : MayBeOpen(i) => MayBeOpen(i)'
      BY <1>a, <1>f, <1>h DEF MayBeOpen, k
    <2>2. \A i \in DOMAIN enabled : i = k => MayBeOpen(i)'
      BY <1>a, <1>f, <1>g, <1>h DEF MayBeOpen, InOrder, OnCourse, k
    <2>3. ASSUME NEW q \in RunIds, runs'[q].state = "running"
          PROVE  \E i \in DOMAIN enabled : MayBeOpen(i)' /\ runs'[q].root = {enabled[i]}
      <3>1. CASE q = r
        BY <3>1, <1>2, <1>g, <2>2
      <3>2. CASE q # r
        BY <3>2, <2>3, <1>2, <2>1 DEF InOrder, OpenRunsAhead
      <3> QED BY <3>1, <3>2
    <2>4. ASSUME NEW q \in RunIds, NEW s \in RunIds,
                 runs'[q].state = "running", runs'[s].state = "running", runs'[q].root = runs'[s].root
          PROVE  q = s
      <3>1. CASE q = r \/ s = r
        BY <3>1, <2>4, <1>2
      <3>2. CASE q # r /\ s # r
        BY <3>2, <2>4, <1>2 DEF InOrder, OpenRunsAhead
      <3> QED BY <3>1, <3>2
    <2> QED BY <2>3, <2>4, <1>a DEF OpenRunsAhead
  <1>7. PoolsRemembered'
    BY <1>a, <1>f DEF PoolsRemembered, InOrder
  <1>8. VisitedBehind'
    BY <1>a, <1>f, <1>h DEF VisitedBehind, InOrder, k
  <1> QED BY <1>3, <1>4, <1>5, <1>6, <1>7, <1>8 DEF InOrder

(* What the walk of a root records does no harm to what was remembered:    *)
(* only parts of this root are seen anew, and in the run of its cursor.    *)
LEMMA RecordKeeps ==
    ASSUME Typed, InOrder, AtRoot, NEW P, Record(P), \A p \in P : p[1] = Here,
           UNCHANGED <<enabled, disk, saved, runs>>
    PROVE  /\ NothingIsLost' /\ \A p \in P \cap disk : seen'[p] = pass.cursor.run
           /\ \A p \in Parts : p \notin P \cap disk => seen'[p] = seen[p]
           /\ \A c \in saved : Feeds(c)' /\ SkipsWhatWasSeen(c)'
  <1>a. /\ seen' = [p \in Parts |-> IF p \in P \cap disk THEN pass.cursor.run ELSE seen[p]]
        /\ live' = live \cup (P \cap disk) /\ disk \subseteq Parts
    BY TypeParts DEF Record, Typed
  <1>1. NothingIsLost'
    BY <1>a DEF InOrder, NothingIsLost
  <1>2. \A p \in P \cap disk : seen'[p] = pass.cursor.run
    BY <1>a
  <1>3. \A p \in Parts : p \notin P \cap disk => seen'[p] = seen[p]
    BY <1>a
  <1>4. ASSUME NEW c \in saved PROVE SkipsWhatWasSeen(c)'
    <2> SUFFICES ASSUME c.list # {}
                 PROVE  /\ c.run # 0 /\ c.list = {enabled[c.index]}
                        /\ <<enabled[c.index], "early">> \in disk
                              => seen'[<<enabled[c.index], "early">>] = c.run
      BY DEF SkipsWhatWasSeen
    <2>1. /\ c.run # 0 /\ c.list = {enabled[c.index]}
          /\ <<enabled[c.index], "early">> \in disk => seen[<<enabled[c.index], "early">>] = c.run
      BY DEF InOrder, Resumable, SkipsWhatWasSeen
    <2>2. pass.cursor.run = c.run
      BY <2>1 DEF InOrder, OnCourse, On, AtRoot
    <2> QED BY <2>1, <2>2, <1>2, <1>3, <1>a
  <1>5. \A c \in saved : Feeds(c)'
    BY DEF InOrder, Resumable, Feeds
  <1> QED BY <1>1, <1>2, <1>3, <1>4, <1>5

LEMMA AgentPausesInOrder == ASSUME Typed, InOrder, AgentPauses PROVE InOrder'
  <1>a. /\ pass.pc = "walking" /\ On /\ AtRoot
        /\ UNCHANGED <<disk, enabled, saved, runs, stale, visited, crashes>>
    BY DEF AgentPauses, On, AtRoot
  <1>b. pass \in PassType /\ pass.cursor \in Cursor
    BY TypeParts DEF Typed, PassType
  <1>c. /\ pass.cursor.index \in DOMAIN enabled /\ pass.cursor.run # 0 /\ Here = enabled[pass.cursor.index]
        /\ pass.roots = enabled
    BY <1>a, InOrderParts DEF InOrder, OnCourse
  <1>1. CASE UNCHANGED <<seen, live>> /\ pass' = [pass EXCEPT !.pc = "pausing"]
    <2>1. pass'.pc = "pausing" /\ pass'.roots = pass.roots /\ pass'.cursor = pass.cursor
      BY <1>1, <1>b DEF PassType
    <2>2. OnCourse'
      BY <2>1, <1>a, <1>c DEF InOrder, OnCourse, On, AtRoot
    <2>3. Resumable' /\ WalkedBeforeSwept' /\ NothingIsLost'
      BY <2>1, <1>a, <1>1 DEF InOrder, Resumable, On, WalkedBeforeSwept, NothingIsLost, Feeds, SkipsWhatWasSeen
    <2>4. \A i \in DOMAIN enabled : MayBeOpen(i) => MayBeOpen(i)'
      BY <2>1, <1>a DEF MayBeOpen, On
    <2>5. OpenRunsAhead'
      BY <2>4, <1>a DEF InOrder, OpenRunsAhead
    <2>6. PoolsRemembered' /\ VisitedBehind'
      BY <2>1, <1>a DEF InOrder, PoolsRemembered, VisitedBehind, On
    <2> QED BY <2>2, <2>3, <2>5, <2>6 DEF InOrder
  <1>2. CASE /\ pass.cursor.list = {} /\ Record({<<Here, "early">>})
             /\ pass' = [pass EXCEPT !.pc = "pausing", !.cursor.list = {Here}]
    <2>0. Here \in Roots
      BY <1>a, HereIsARoot DEF Typed, AtItsRoot
    <2>1. pass' = [pass EXCEPT !.pc = "pausing", !.cursor = [pass.cursor EXCEPT !.list = {Here}]]
      BY <1>2, <1>b DEF PassType
    <2>2. /\ pass'.pc = "pausing" /\ pass'.roots = pass.roots
          /\ pass'.cursor = [pass.cursor EXCEPT !.list = {Here}]
      BY <2>1, <1>b DEF PassType
    <2>3. /\ pass'.cursor.index = pass.cursor.index /\ pass'.cursor.run = pass.cursor.run
          /\ pass'.cursor.list = {Here} /\ pass'.cursor.dirty = pass.cursor.dirty
      BY <2>0, <2>2, <1>b DEF Cursor
    <2>4. /\ NothingIsLost' /\ \A p \in {<<Here, "early">>} \cap disk : seen'[p] = pass.cursor.run
          /\ \A c \in saved : Feeds(c)' /\ SkipsWhatWasSeen(c)'
      BY <1>2, <1>a, RecordKeeps
    <2>5. OnCourse'
      BY <2>2, <2>3, <1>a, <1>c DEF InOrder, OnCourse, On, AtRoot
    <2>6. Feeds(pass.cursor)' /\ SkipsWhatWasSeen(pass.cursor)'
      BY <2>3, <2>4, <1>a, <1>c DEF InOrder, Resumable, Feeds, SkipsWhatWasSeen
    <2>7. Resumable' /\ WalkedBeforeSwept'
      BY <2>2, <2>4, <2>6, <1>a DEF Resumable, WalkedBeforeSwept
    <2>8. \A i \in DOMAIN enabled : MayBeOpen(i) => MayBeOpen(i)'
      BY <2>2, <2>3, <1>a DEF MayBeOpen, On
    <2>9. OpenRunsAhead'
      BY <2>8, <1>a DEF InOrder, OpenRunsAhead
    <2>10. PoolsRemembered' /\ VisitedBehind'
      BY <2>2, <2>3, <1>a DEF InOrder, PoolsRemembered, VisitedBehind, On
    <2> QED BY <2>4, <2>5, <2>7, <2>9, <2>10 DEF InOrder
  <1> QED BY <1>1, <1>2 DEF AgentPauses

LEMMA AgentCompletesInOrder == ASSUME Typed, InOrder, AgentCompletes PROVE InOrder'
  <1>a. /\ pass.pc = "walking" /\ On /\ AtRoot /\ Record(Reach(pass.cursor.list))
        /\ UNCHANGED <<disk, enabled, saved, runs, stale, visited, crashes>>
    BY DEF AgentCompletes, On, AtRoot
  <1>b. pass'.pc = "sweeping" /\ pass'.roots = pass.roots /\ pass'.cursor = pass.cursor
    BY TypeParts DEF AgentCompletes, Typed, PassType
  <1>c. /\ pass.cursor.index \in DOMAIN enabled /\ pass.cursor.run # 0 /\ Here = enabled[pass.cursor.index]
        /\ pass.roots = enabled
    BY <1>a, InOrderParts DEF InOrder, OnCourse
  <1>d. \A p \in Reach(pass.cursor.list) : p[1] = Here
    BY DEF Reach
  <1>1. /\ NothingIsLost' /\ \A p \in Reach(pass.cursor.list) \cap disk : seen'[p] = pass.cursor.run
        /\ \A p \in Parts : p \notin Reach(pass.cursor.list) \cap disk => seen'[p] = seen[p]
        /\ \A c \in saved : Feeds(c)' /\ SkipsWhatWasSeen(c)'
    BY <1>a, <1>d, RecordKeeps
  <1>2. OnCourse'
    BY <1>a, <1>b, <1>c DEF InOrder, OnCourse, On, AtRoot
  <1>3. ASSUME NEW p \in disk, p[1] = Here PROVE seen'[p] = pass.cursor.run
    <2>1. p \in Parts
      BY TypeParts DEF Typed
    <2>2. p = <<Here, "early">> \/ p = <<Here, "late">>
      BY <2>1, <1>3 DEF Parts
    <2>3. pass.cursor.list = {} \/ pass.cursor.list = {Here}
      BY <1>a, <1>c DEF InOrder, Resumable, SkipsWhatWasSeen
    <2>4. CASE p \in Reach(pass.cursor.list)
      BY <2>4, <1>1
    <2>5. CASE p \notin Reach(pass.cursor.list)
      <3>1. pass.cursor.list # {} /\ p = <<Here, "early">>
        BY <2>2, <2>3, <2>5 DEF Reach
      <3>2. seen[p] = pass.cursor.run
        BY <3>1, <1>a, <1>c DEF InOrder, Resumable, SkipsWhatWasSeen
      <3> QED BY <3>2, <2>1, <2>5, <1>1
    <2> QED BY <2>4, <2>5
  <1>4. WalkedBeforeSwept'
    BY <1>3, <1>a, <1>b DEF WalkedBeforeSwept, Here
  <1>5. Feeds(pass.cursor)' /\ SkipsWhatWasSeen(pass.cursor)'
    <2>1. Feeds(pass.cursor)'
      BY <1>a, <1>b DEF InOrder, Resumable, Feeds
    <2>2. <<Here, "early">>[1] = Here
      OBVIOUS
    <2>3. SkipsWhatWasSeen(pass.cursor)'
      BY <2>2, <1>a, <1>b, <1>c, <1>3 DEF InOrder, Resumable, SkipsWhatWasSeen
    <2> QED BY <2>1, <2>3
  <1>6. Resumable'
    BY <1>1, <1>5, <1>a DEF Resumable
  <1>7. \A i \in DOMAIN enabled : MayBeOpen(i) => MayBeOpen(i)'
    BY <1>a, <1>b DEF MayBeOpen, On
  <1>8. OpenRunsAhead'
    BY <1>7, <1>a DEF InOrder, OpenRunsAhead
  <1>9. PoolsRemembered' /\ VisitedBehind'
    BY <1>a, <1>b DEF InOrder, PoolsRemembered, VisitedBehind, On
  <1> QED BY <1>1, <1>2, <1>4, <1>6, <1>8, <1>9 DEF InOrder

(* The pass stops; the saved cursor is what the next one begins with. *)
LEMMA PassStops ==
    ASSUME Typed, InOrder, On, pass' = Idle,
           UNCHANGED <<enabled, disk, live, runs, seen, visited>>,
           \A c \in saved' : /\ c.index = pass.cursor.index /\ c.run = pass.cursor.run
                             /\ c.list = pass.cursor.list /\ c.index \in DOMAIN enabled,
           \A c, d \in saved' : c = d, saved' # {},
           stale' => \E c \in saved' : c.dirty
    PROVE  InOrder'
  <1>1. ~On' /\ ~AtRoot' /\ pass'.pc = "off"
    BY DEF On, AtRoot, Idle
  <1>2. OnCourse'
    BY <1>1 DEF OnCourse
  <1>3. Resumable'
    BY <1>1 DEF InOrder, Resumable, Feeds, SkipsWhatWasSeen
  <1>4. WalkedBeforeSwept' /\ NothingIsLost'
    BY <1>1 DEF InOrder, WalkedBeforeSwept, NothingIsLost
  <1>5. ASSUME NEW i \in DOMAIN enabled, MayBeOpen(i) PROVE MayBeOpen(i)'
    <2>1. i \in {pass.cursor.index, pass.cursor.index + 1}
      BY <1>5, InOrderParts DEF MayBeOpen, InOrder, OnCourse
    <2> QED BY <2>1, <1>1 DEF MayBeOpen
  <1>6. OpenRunsAhead'
    BY <1>5 DEF InOrder, OpenRunsAhead
  <1>7. PoolsRemembered' /\ VisitedBehind'
    BY <1>1 DEF InOrder, PoolsRemembered, VisitedBehind
  <1> QED BY <1>2, <1>3, <1>4, <1>6, <1>7 DEF InOrder

LEMMA PauseInOrder == ASSUME Typed, InOrder, Pause PROVE InOrder'
  <1>a. /\ On /\ AtRoot /\ pass' = Idle /\ UNCHANGED <<disk, enabled, runs, seen, live, visited, crashes>>
        /\ stale' = (stale /\ ~pass.cursor.dirty)
    BY DEF Pause, Rebuilt, On, AtRoot
  <1>1. saved' = {[pass.cursor EXCEPT !.dirty = FALSE]}
    BY DEF Pause, Saves
  <1>2. \A c \in saved' : /\ c.index = pass.cursor.index /\ c.run = pass.cursor.run
                          /\ c.list = pass.cursor.list /\ c.index \in DOMAIN enabled
    BY <1>1, <1>a, InOrderParts DEF InOrder, OnCourse, Cursor
  <1>3. ~stale'
    BY <1>a DEF InOrder, PoolsRemembered
  <1> QED BY <1>a, <1>1, <1>2, <1>3, PassStops

(* A restart in the middle of a pass: what it had not saved is done again. *)
LEMMA RestartInOrder == ASSUME Typed, InOrder, Restart PROVE InOrder'
  <1>a. /\ On /\ pass' = Idle /\ UNCHANGED <<disk, enabled, saved, runs, seen, live, stale, visited>>
    BY DEF Restart, On
  <1>1. ~On' /\ ~AtRoot' /\ pass'.pc = "off"
    BY <1>a DEF On, AtRoot, Idle
  <1>2. OnCourse'
    BY <1>1, <1>a DEF InOrder, OnCourse
  <1>3. Resumable'
    BY <1>1, <1>a DEF InOrder, Resumable, Feeds, SkipsWhatWasSeen
  <1>4. WalkedBeforeSwept' /\ NothingIsLost'
    BY <1>1, <1>a DEF InOrder, WalkedBeforeSwept, NothingIsLost
  <1>v. saved = {} => visited = {}
    BY <1>a DEF InOrder, VisitedBehind
  <1>5. \A i \in DOMAIN enabled : MayBeOpen(i) => MayBeOpen(i)'
    BY <1>1, <1>a, <1>v DEF MayBeOpen
  <1>6. OpenRunsAhead'
    BY <1>5, <1>a DEF InOrder, OpenRunsAhead
  <1>7. PoolsRemembered' /\ VisitedBehind'
    BY <1>1, <1>a DEF InOrder, PoolsRemembered, VisitedBehind
  <1> QED BY <1>2, <1>3, <1>4, <1>6, <1>7 DEF InOrder

(* A pass ends beyond the last root: no run is open for one there. *)
LEMMA EndingMeans ==
    ASSUME Typed, InOrder, pass.pc = "ending"
    PROVE  /\ \A r \in RunIds : runs[r].state # "running"
           /\ \A i \in DOMAIN enabled : enabled[i] \in visited
           /\ stale => pass.cursor.dirty
  <1>a. /\ On /\ pass.cursor.index = Len(enabled) + 1
        /\ DOMAIN enabled = 1..Len(enabled) /\ Len(enabled) \in Nat \ {0}
    BY InOrderParts DEF InOrder, OnCourse, On
  <1>b. \A c \in saved : c.index = Len(enabled)
    BY <1>a, InOrderParts DEF InOrder, OnCourse
  <1>c. saved # {}
    BY <1>a DEF InOrder, OnCourse
  <1>1. \A i \in DOMAIN enabled : ~MayBeOpen(i)
    BY <1>a, <1>b, <1>c DEF MayBeOpen
  <1>2. \A i \in DOMAIN enabled : enabled[i] \in visited
    BY <1>a DEF InOrder, VisitedBehind
  <1>3. stale => pass.cursor.dirty
    BY <1>a DEF InOrder, PoolsRemembered
  <1> QED BY <1>1, <1>2, <1>3 DEF InOrder, OpenRunsAhead

LEMMA EndInOrder == ASSUME Typed, InOrder, End PROVE InOrder'
  <1>a. /\ On /\ pass.pc = "ending" /\ pass' = Idle /\ saved' = {}
        /\ UNCHANGED <<disk, enabled, runs, seen, live, visited, crashes>>
        /\ stale' = (stale /\ ~pass.cursor.dirty)
    BY DEF End, Rebuilt, On
  <1>1. ~On' /\ ~AtRoot' /\ pass'.pc = "off"
    BY <1>a DEF On, AtRoot, Idle
  <1>2. OnCourse' /\ Resumable'
    BY <1>1, <1>a DEF OnCourse, Resumable
  <1>3. WalkedBeforeSwept' /\ NothingIsLost'
    BY <1>1, <1>a DEF InOrder, WalkedBeforeSwept, NothingIsLost
  <1>4. OpenRunsAhead'
    BY <1>a, EndingMeans DEF OpenRunsAhead
  <1>5. PoolsRemembered' /\ VisitedBehind'
    BY <1>1, <1>a, EndingMeans DEF PoolsRemembered, VisitedBehind
  <1> QED BY <1>2, <1>3, <1>4, <1>5 DEF InOrder

LEMMA NoRootLeftInOrder == ASSUME Typed, InOrder, NoRootLeft PROVE InOrder'
  <1>a. /\ On /\ pass.pc = "next" /\ pass.cursor.index > Len(enabled)
        /\ UNCHANGED <<disk, enabled, saved, runs, seen, live, stale, visited, crashes>>
    BY DEF NoRootLeft, On, InOrder, OnCourse
  <1>b. pass'.pc = "ending" /\ pass'.roots = pass.roots /\ pass'.cursor = pass.cursor
    BY TypeParts DEF NoRootLeft, Typed, PassType
  <1>1. On' /\ ~AtRoot'
    BY <1>b DEF On, AtRoot
  <1>2. OnCourse'
    BY <1>a, <1>b, <1>1, InOrderParts DEF InOrder, OnCourse
  <1>3. Resumable' /\ WalkedBeforeSwept' /\ NothingIsLost'
    BY <1>a, <1>b DEF InOrder, Resumable, Feeds, SkipsWhatWasSeen, WalkedBeforeSwept, NothingIsLost
  <1>4. \A i \in DOMAIN enabled : MayBeOpen(i) => MayBeOpen(i)'
    BY <1>a, <1>b, <1>1 DEF MayBeOpen
  <1>5. OpenRunsAhead'
    BY <1>4, <1>a DEF InOrder, OpenRunsAhead
  <1>6. PoolsRemembered' /\ VisitedBehind'
    BY <1>a, <1>b DEF InOrder, PoolsRemembered, VisitedBehind
  <1> QED BY <1>2, <1>3, <1>5, <1>6 DEF InOrder

(* Each step of a pass, a restart and a file that leaves keep it in order. *)
LEMMA InOrderStep == ASSUME RootsStay PROVE Typed /\ InOrder /\ [Next]_vars => InOrder'
  <1> SUFFICES ASSUME Typed, InOrder, [Next]_vars PROVE InOrder'
    OBVIOUS
  <1>1. CASE AgentFails
    <2>1. AtRoot /\ pass.cursor.dirty \in BOOLEAN /\ (stale => pass.cursor.dirty)
      BY <1>1, TypeParts DEF AgentFails, AtRoot, Typed, PassType, Cursor, InOrder, PoolsRemembered, On
    <2> QED BY <2>1, <1>1, RootDoneInOrder DEF AgentFails
  <1>2. CASE FinishRoot
    <2>1. AtRoot /\ (stale => pass.cursor.dirty)
      BY <1>2 DEF FinishRoot, AtRoot, InOrder, PoolsRemembered, On
    <2>2. PICK dirty \in BOOLEAN : dirty = (pass.cursor.dirty \/ Here \in Pooled)
      OBVIOUS
    <2>3. stale' => dirty
      BY <2>1, <2>2, <1>2 DEF FinishRoot
    <2>4. RootDone(pass.cursor, dirty)
      BY <2>2, <1>2 DEF FinishRoot
    <2>5. /\ UNCHANGED <<enabled, disk, seen, live>>
          /\ runs' = [runs EXCEPT ![pass.cursor.run].state = "completed"]
      BY <1>2 DEF FinishRoot
    <2> QED BY <2>1, <2>3, <2>4, <2>5, RootDoneInOrder
  <1>3. CASE Sweep
    <2>1. /\ pass.pc = "sweeping" /\ UNCHANGED <<disk, enabled, pass, saved, runs, seen, stale, visited, crashes>>
          /\ \E p \in live : p[1] = Here /\ seen[p] # pass.cursor.run /\ live' = live \ {p}
      BY <1>3 DEF Sweep
    <2>2. NothingIsLost'
      BY <2>1 DEF InOrder, NothingIsLost, WalkedBeforeSwept
    <2> QED BY <2>1, <2>2
            DEF InOrder, OnCourse, Resumable, WalkedBeforeSwept, OpenRunsAhead, PoolsRemembered,
                VisitedBehind, On, AtRoot, Feeds, SkipsWhatWasSeen, MayBeOpen, Here
  <1>4. ASSUME NEW p \in Leaving, Removed(p) PROVE InOrder'
    <2>1. /\ UNCHANGED <<enabled, pass, saved, runs, seen, live, stale, visited, crashes>>
          /\ disk' \subseteq disk
      BY <1>4 DEF Removed
    <2>2. Resumable' /\ WalkedBeforeSwept' /\ NothingIsLost'
      BY <2>1 DEF InOrder, Resumable, WalkedBeforeSwept, NothingIsLost, On, Feeds, SkipsWhatWasSeen, Here
    <2> QED BY <2>1, <2>2
            DEF InOrder, OnCourse, OpenRunsAhead, PoolsRemembered, VisitedBehind, On, AtRoot, MayBeOpen
  <1>5. CASE SettingsChange \/ UNCHANGED vars
    <2>1. Typed'
      BY TypeStep
    <2>2. enabled' = enabled
      BY <2>1, EnabledStays DEF Typed
    <2>3. UNCHANGED <<disk, pass, saved, runs, seen, live, stale, visited, crashes>>
      BY <1>5 DEF SettingsChange, vars
    <2> QED BY <2>2, <2>3
            DEF InOrder, OnCourse, Resumable, WalkedBeforeSwept, NothingIsLost, OpenRunsAhead,
                PoolsRemembered, VisitedBehind, On, AtRoot, Feeds, SkipsWhatWasSeen, MayBeOpen, Here
  <1> QED
    BY <1>1, <1>2, <1>3, <1>4, <1>5, BeginInOrder, NextRootInOrder, NoRootLeftInOrder, AgentPausesInOrder,
       AgentCompletesInOrder, PauseInOrder, EndInOrder, RestartInOrder DEF Next

(* Nothing of a pass is left behind while the roots stay: no file that is  *)
(* on its disk is marked deleted, each root has one catalog run in         *)
(* progress at most and a finished pass none, and the pools it touched     *)
(* have been rebuilt (catalog-scan.ts, run() and rebuildDirtyPools()).     *)
THEOREM NothingIsLeftBehind == ASSUME RootsStay PROVE Spec => []PassLeavesNothingBehind
  <1>1. Init => Typed /\ InOrder
    BY TypeInit, InOrderInit
  <1>2. Typed /\ InOrder /\ [Next]_vars => (Typed /\ InOrder)'
    BY TypeStep, InOrderStep
  <1>3. Typed /\ InOrder => PassLeavesNothingBehind
    <2> SUFFICES ASSUME Typed, InOrder PROVE NothingIsLost /\ NoRunLeftOpen /\ PoolsAreRebuilt
      BY DEF PassLeavesNothingBehind
    <2>1. \A root \in Roots : \A r \in ActiveRuns(root) :
              r \in RunIds /\ runs[r].root = {root} /\ runs[r].state = "running"
      BY ActiveRunsIs DEF Typed
    <2>2. ASSUME NEW root \in Roots, NEW r \in ActiveRuns(root), NEW q \in ActiveRuns(root) PROVE r = q
      <3>1. /\ r \in RunIds /\ runs[r].root = {root} /\ runs[r].state = "running"
            /\ q \in RunIds /\ runs[q].root = {root} /\ runs[q].state = "running"
        BY <2>1
      <3> QED BY <3>1 DEF InOrder, OpenRunsAhead
    <2>3. ASSUME pass.pc = "off", saved = {}, visited # {}
          PROVE  \A root \in Roots : ActiveRuns(root) = {}
      <3>1. \A i \in DOMAIN enabled : ~MayBeOpen(i)
        BY <2>3 DEF MayBeOpen, On
      <3> QED BY <3>1, <2>1 DEF InOrder, OpenRunsAhead
    <2>4. PoolsAreRebuilt
      BY DEF InOrder, PoolsRemembered, PoolsAreRebuilt
    <2> QED BY <2>2, <2>3, <2>4 DEF NoRunLeftOpen, InOrder
  <1> QED BY <1>1, <1>2, <1>3, PTL DEF Spec

(* A pass ends only when each of its roots has been finished or has failed, *)
(* in this or an earlier window: the cursor skips none.                     *)
THEOREM EveryRootIsVisited == ASSUME RootsStay PROVE Spec => PassVisitsEveryRoot
  <1> DEFINE Visits == saved # {} /\ saved' = {} => \A i \in DOMAIN pass.roots : pass.roots[i] \in visited
  <1>1. Init => Typed /\ InOrder
    BY TypeInit, InOrderInit
  <1>2. Typed /\ InOrder /\ [Next]_vars => (Typed /\ InOrder)'
    BY TypeStep, InOrderStep
  <1>3. Typed /\ InOrder /\ [Next]_vars => [Visits]_vars
    <2> SUFFICES ASSUME Typed, InOrder, Next, saved # {}, saved' = {}
                 PROVE  \A i \in DOMAIN pass.roots : pass.roots[i] \in visited
      OBVIOUS
    <2>1. End
      BY DEF Next, Begin, NextRoot, NoRootLeft, AgentPauses, AgentCompletes, AgentFails, Sweep, FinishRoot,
             Pause, Restart, SettingsChange, Removed, RootDone, Saves
    <2>2. pass.pc = "ending" /\ pass.roots = enabled
      BY <2>1 DEF End, InOrder, OnCourse, On
    <2> QED BY <2>2, EndingMeans
  <1>4. Spec => [][Visits]_vars
    BY <1>1, <1>2, <1>3, PTL DEF Spec
  <1> QED BY <1>4 DEF PassVisitsEveryRoot
=============================================================================
