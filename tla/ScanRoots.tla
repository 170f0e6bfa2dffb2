----------------------------- MODULE ScanRoots -----------------------------
(***************************************************************************)
(* One pass of catalog.scan over every enabled root                        *)
(* (workflows/catalog-scan.ts): the cursor that carries it across windows  *)
(* and restarts, the catalog run each root feeds, the sweep, and the pools *)
(* to be rebuilt.  What the agent does with one root is AgentScan; here it *)
(* finishes, pauses or fails.  Files leave the disks and none come, so that *)
(* what is on a disk is there throughout.                                  *)
(***************************************************************************)
EXTENDS Naturals, Sequences

CONSTANTS
    Roots,
    Settings,   \* what settings.enabledRoots() may be: sequences of roots
    Pooled,     \* the roots that are members of the pool
    Leaving,    \* bound: the parts whose files may be removed from the disk
    MaxRuns,    \* bound: catalog runs
    MaxCrashes  \* bound: restarts of the service

Parts == Roots \X {"early", "late"}  \* what a walk reaches before and after it is paused

ASSUME SettingsAssumption ==
    /\ Settings \subseteq Seq(Roots) \ {<<>>}
    /\ Pooled \subseteq Roots /\ Leaving \subseteq Parts
    /\ MaxRuns \in Nat \ {0} /\ MaxCrashes \in Nat

VARIABLES
    enabled,  \* settings.enabledRoots()
    pass,     \* the execution: its copy of the roots and of the cursor
    saved,    \* the cursor in the workflow run, when it has one
    disk,     \* the parts whose files are on the disks
    runs,     \* catalog_runs: root and state
    seen,     \* last_run_id of the files of each part of each root
    live,     \* the parts whose files are not marked deleted
    stale,    \* ghost: a disk of the pool was finished since the pool was rebuilt
    visited,  \* ghost: roots finished or failed since the pass began
    crashes   \* ghost: restarts so far, for the bound

vars == <<enabled, pass, saved, disk, runs, seen, live, stale, visited, crashes>>

RunIds == 1..MaxRuns

(* A worklist is empty, which means the top of the root, or names          *)
(* directories of one root; rootIndex counts from one here.                *)
Cursor == [index : Nat \ {0}, run : 0..MaxRuns, list : SUBSET Roots, dirty : BOOLEAN]
FreshCursor == [index |-> 1, run |-> 0, list |-> {}, dirty |-> FALSE]
Idle == [pc |-> "off", roots |-> <<>>, cursor |-> FreshCursor]

TypeOK ==
    /\ enabled \in Settings
    /\ pass \in [pc : {"off", "next", "walking", "sweeping", "pausing", "ending"},
                 roots : Settings \cup {<<>>}, cursor : Cursor]
    /\ saved \in SUBSET Cursor
    /\ runs \in [RunIds -> [root : SUBSET Roots, state : {"none", "running", "completed", "failed"}]]
    /\ seen \in [Parts -> 0..MaxRuns]
    /\ disk \subseteq Parts /\ live \subseteq Parts
    /\ stale \in BOOLEAN
    /\ visited \subseteq Roots
    /\ crashes \in 0..MaxCrashes

-----------------------------------------------------------------------------
At(pc) == pass.pc = pc
Here == pass.roots[pass.cursor.index]

(* ctx.setCursor(cursor) *)
Saves(c) == saved' = {c}

(* run() begins: the cursor of the run it continues, the roots of today. *)
Begin ==
    /\ At("off")
    /\ pass' = [pc |-> "next", roots |-> enabled,
                cursor |-> IF saved = {} THEN FreshCursor ELSE CHOOSE c \in saved : TRUE]
    /\ visited' = IF saved = {} THEN {} ELSE visited
    /\ UNCHANGED <<disk, enabled, saved, runs, seen, live, stale, crashes>>

ActiveRuns(root) == {r \in RunIds : runs[r] = [root |-> {root}, state |-> "running"]}

(* cursor.runId ?? activeRun(root.id) ?? beginRun(root.id) *)
FeedsRun(r) ==
    LET c == pass.cursor
        open == ActiveRuns(Here)
    IN IF c.run # 0 THEN r = c.run /\ UNCHANGED runs
       ELSE IF open # {} THEN r \in open /\ (\A q \in open : q <= r) /\ UNCHANGED runs
       ELSE /\ runs[r].state = "none"
            /\ \A q \in RunIds : q < r => runs[q].state # "none"
            /\ runs' = [runs EXCEPT ![r] = [root |-> {Here}, state |-> "running"]]

NextRoot ==
    /\ At("next")
    /\ pass.cursor.index <= Len(pass.roots)
    /\ \E r \in RunIds : FeedsRun(r) /\ pass' = [pass EXCEPT !.pc = "walking", !.cursor.run = r]
    /\ UNCHANGED <<disk, enabled, saved, seen, live, stale, visited, crashes>>

NoRootLeft ==
    /\ At("next")
    /\ pass.cursor.index > Len(pass.roots)
    /\ pass' = [pass EXCEPT !.pc = "ending"]
    /\ UNCHANGED <<disk, enabled, saved, runs, seen, live, stale, visited, crashes>>

(* recordFiles() of what a walk of P finds. *)
Record(P) ==
    /\ seen' = [p \in Parts |-> IF p \in P \cap disk THEN pass.cursor.run ELSE seen[p]]
    /\ live' = live \cup (P \cap disk)

(* The parts of the root here that a walk of the worklist L covers:        *)
(* directories of another root do not exist on it.                         *)
Reach(L) ==
    IF L = {} THEN {<<Here, "early">>, <<Here, "late">>}
    ELSE IF L = {Here} THEN {<<Here, "late">>} ELSE {}

(* The window closes: before the agent took the job, or part of the way. *)
AgentPauses ==
    /\ At("walking")
    /\ \/ UNCHANGED <<seen, live>> /\ pass' = [pass EXCEPT !.pc = "pausing"]
       \/ /\ pass.cursor.list = {}
          /\ Record({<<Here, "early">>})
          /\ pass' = [pass EXCEPT !.pc = "pausing", !.cursor.list = {Here}]
    /\ UNCHANGED <<disk, enabled, saved, runs, stale, visited, crashes>>

AgentCompletes ==
    /\ At("walking")
    /\ Record(Reach(pass.cursor.list))
    /\ pass' = [pass EXCEPT !.pc = "sweeping"]
    /\ UNCHANGED <<disk, enabled, saved, runs, stale, visited, crashes>>

(* Mutant of RootDone: the pools to rebuild are kept in memory only. *)
RootDoneUnsavedPools(c, dirty) ==
    LET reset == [c EXCEPT !.run = 0, !.list = {}, !.dirty = dirty] IN
    /\ Saves([reset EXCEPT !.dirty = FALSE])
    /\ pass' = [pass EXCEPT !.pc = "next", !.cursor = [reset EXCEPT !.index = @ + 1]]
    /\ visited' = visited \cup {Here}

(* resetRootCursor, rootIndex + 1.  The cursor is saved before the index   *)
(* moves on: a restart here does the root again.                           *)
RootDone(c, dirty) ==
    LET reset == [c EXCEPT !.run = 0, !.list = {}, !.dirty = dirty] IN
    /\ Saves(reset)
    /\ pass' = [pass EXCEPT !.pc = "next", !.cursor = [reset EXCEPT !.index = @ + 1]]
    /\ visited' = visited \cup {Here}

AgentFails ==
    /\ At("walking")
    /\ runs' = [runs EXCEPT ![pass.cursor.run].state = "failed"]
    /\ RootDone(pass.cursor, pass.cursor.dirty)
    /\ UNCHANGED <<disk, enabled, seen, live, stale, crashes>>

(* The root's deletion sweep, which yields. *)
Sweep ==
    /\ At("sweeping")
    /\ \E p \in live : p[1] = Here /\ seen[p] # pass.cursor.run /\ live' = live \ {p}
    /\ UNCHANGED <<disk, enabled, pass, saved, runs, seen, stale, visited, crashes>>

FinishRoot ==
    /\ At("sweeping")
    /\ \A p \in live : p[1] = Here => seen[p] = pass.cursor.run
    /\ runs' = [runs EXCEPT ![pass.cursor.run].state = "completed"]
    /\ stale' = (stale \/ Here \in Pooled)
    /\ RootDone(pass.cursor, pass.cursor.dirty \/ Here \in Pooled)
    /\ UNCHANGED <<disk, enabled, seen, live, crashes>>

(* rebuildDirtyPools() has yielded and is done. *)
Rebuilt == stale' = (stale /\ ~pass.cursor.dirty)

(* Mutant of Pause: a paused root counts as dealt with. *)
PauseMovesOn ==
    /\ At("pausing")
    /\ Rebuilt
    /\ Saves([pass.cursor EXCEPT !.dirty = FALSE, !.index = @ + 1])
    /\ pass' = Idle
    /\ UNCHANGED <<disk, enabled, runs, seen, live, visited, crashes>>

Pause ==
    /\ At("pausing")
    /\ Rebuilt
    /\ Saves([pass.cursor EXCEPT !.dirty = FALSE])
    /\ pass' = Idle
    /\ UNCHANGED <<disk, enabled, runs, seen, live, visited, crashes>>

End ==
    /\ At("ending")
    /\ Rebuilt
    /\ saved' = {}
    /\ pass' = Idle
    /\ UNCHANGED <<disk, enabled, runs, seen, live, visited, crashes>>

Restart ==
    /\ ~At("off")
    /\ crashes < MaxCrashes
    /\ crashes' = crashes + 1
    /\ pass' = Idle
    /\ UNCHANGED <<disk, enabled, saved, runs, seen, live, stale, visited>>

Removed(p) ==
    /\ p \in Leaving \cap disk
    /\ disk' = disk \ {p}
    /\ UNCHANGED <<enabled, pass, saved, runs, seen, live, stale, visited, crashes>>

(* An operator saves other catalog roots. *)
SettingsChange ==
    /\ enabled' \in Settings
    /\ UNCHANGED <<disk, pass, saved, runs, seen, live, stale, visited, crashes>>

Init ==
    /\ enabled \in Settings
    /\ pass = Idle
    /\ saved = {}
    /\ runs = [r \in RunIds |-> [root |-> {}, state |-> "none"]]
    /\ seen = [p \in Parts |-> 0]
    /\ disk = Parts /\ live = Parts
    /\ stale = FALSE
    /\ visited = {}
    /\ crashes = 0

Next ==
    \/ Begin \/ NextRoot \/ NoRootLeft
    \/ AgentPauses \/ AgentCompletes \/ AgentFails
    \/ Sweep \/ FinishRoot \/ Pause \/ End
    \/ Restart \/ SettingsChange
    \/ \E p \in Leaving : Removed(p)

Spec == Init /\ [][Next]_vars

-----------------------------------------------------------------------------
(* Properties.                                                             *)

(* "A half-walked tree is never read as deletions" (docs/ARCHITECTURE.md), *)
(* over a whole pass: no sweep marks a file that is on its disk, however    *)
(* often windows and restarts cut the pass into pieces.                    *)
NothingIsLost == disk \subseteq live

(* The combined view of a pool is never left stale by a pass: what a pause *)
(* or a restart interrupts is remembered until it has been rebuilt.        *)
PoolsAreRebuilt == At("off") /\ saved = {} => ~stale

(* A pass ends only when it has dealt with each of its roots, in this or   *)
(* an earlier window.                                                      *)
PassVisitsEveryRoot ==
    [][saved # {} /\ saved' = {} => \A i \in DOMAIN pass.roots : pass.roots[i] \in visited]_vars

(* "So a paused scan resumes its own run": a root has one catalog run in   *)
(* progress at most, and a finished pass leaves none behind.               *)
NoRunLeftOpen ==
    /\ \A root \in Roots : \A r, q \in ActiveRuns(root) : r = q
    /\ At("off") /\ saved = {} /\ visited # {} => \A root \in Roots : ActiveRuns(root) = {}

(* What a finished or interrupted pass leaves is in order: no file lost,   *)
(* no catalog run left open, no pool with the rollups of an earlier pass.  *)
PassLeavesNothingBehind == NothingIsLost /\ NoRunLeftOpen /\ PoolsAreRebuilt
=============================================================================
