------------------------ MODULE WorkflowEngineProofs ------------------------
(***************************************************************************)
(* What TLAPS proves of WorkflowEngine for every set of workflows, every   *)
(* order, every settings and every bound.                                  *)
(***************************************************************************)
EXTENDS WorkflowEngine, FiniteSetTheorems, TLAPS

USE DEF RowIds, Runs

-----------------------------------------------------------------------------
(* Types.                                                                  *)

RowType == [state : RunStates, force : BOOLEAN, cursor : BOOLEAN]
StarterType == [on : BOOLEAN, wf : SUBSET Workflows, awaits : SUBSET Runs,
                rest : SUBSET Runs, settled : SUBSET Runs, woken : BOOLEAN]
TickType == [pc : {"idle", "due", "next", "fresh"}, open : BOOLEAN,
             resumable : SUBSET Workflows, due : SUBSET Workflows,
             todo : SUBSET Workflows, at : SUBSET Workflows, has : BOOLEAN]

(* The part of the state a start writes. *)
RunsOK ==
    /\ rows \in [Runs -> RowType]
    /\ active \in [Workflows -> 0..MaxRows]
    /\ stop \in [Runs -> StopReasons]
    /\ asked \in SUBSET Runs

LEMMA TypeParts ==
    TypeOK <=> /\ RunsOK
               /\ starter \in [Starters -> StarterType]
               /\ tick \in TickType
               /\ open \in BOOLEAN
               /\ work \in [Workflows -> BOOLEAN]
               /\ failures \in 0..MaxFailures
  BY DEF TypeOK, RunsOK, RowType, StarterType, TickType

(* A start keeps the run rows, the map, the stop reasons and the ghost typed. *)
LEMMA BeginType ==
    ASSUME RunsOK, NEW w \in Workflows, NEW force \in BOOLEAN, Begin(w, force)
    PROVE  RunsOK'
  <1>1. PICK i \in RowIds :
            /\ rows' = [rows EXCEPT ![<<w, i>>] =
                           [state |-> "running", force |-> MergedForce(@.force, force), cursor |-> @.cursor]]
            /\ active' = [active EXCEPT ![w] = i]
            /\ stop' = [stop EXCEPT ![<<w, i>>] = "none"]
            /\ asked' = IF force THEN asked \cup {<<w, i>>} ELSE asked \ {<<w, i>>}
    BY DEF Begin
  <1>2. <<w, i>> \in Runs /\ i \in 0..MaxRows
    BY BoundsAssumption
  <1>3. [state |-> "running", force |-> MergedForce(rows[<<w, i>>].force, force),
         cursor |-> rows[<<w, i>>].cursor] \in RowType
    BY <1>2 DEF RunsOK, RowType, RunStates, MergedForce
  <1>4. rows' \in [Runs -> RowType]
    BY <1>1, <1>2, <1>3 DEF RunsOK
  <1>5. active' \in [Workflows -> 0..MaxRows]
    BY <1>1, <1>2 DEF RunsOK
  <1>6. stop' \in [Runs -> StopReasons]
    BY <1>1, <1>2 DEF RunsOK, StopReasons
  <1>7. asked' \in SUBSET Runs
    BY <1>1, <1>2 DEF RunsOK
  <1> QED BY <1>4, <1>5, <1>6, <1>7 DEF RunsOK

(* A scheduled start that may be refused. *)
LEMMA TickStartsType ==
    ASSUME RunsOK, NEW w \in Workflows, TickStarts(w)
    PROVE  RunsOK'
  <1>1. CASE CanStart(w)
    BY <1>1, BeginType DEF TickStarts
  <1>2. CASE ~CanStart(w)
    BY <1>2 DEF TickStarts, RunsOK
  <1> QED BY <1>1, <1>2

(* The pass record after its first loop has moved on. *)
LEMMA NextDueType ==
    ASSUME work \in [Workflows -> BOOLEAN],
           NEW t \in TickType, NEW todo \in SUBSET Workflows, NEW due \in SUBSET Workflows,
           NextDue(t, todo, due)
    PROVE  tick' \in TickType
  <1>1. CASE DueCandidates(todo, t.open) = {}
    BY <1>1, WorkflowsAssumption DEF NextDue, TickType
  <1>2. CASE DueCandidates(todo, t.open) # {}
    <2>1. PICK w \in DueCandidates(todo, t.open) :
              tick' = [t EXCEPT !.pc = "due", !.at = {w}, !.has = work[w], !.due = due,
                                !.todo = {v \in todo : PositionOf(v) > PositionOf(w)}]
      BY <1>2 DEF NextDue
    <2>2. w \in Workflows
      BY <2>1 DEF DueCandidates
    <2>3. work[w] \in BOOLEAN /\ {v \in todo : PositionOf(v) > PositionOf(w)} \in SUBSET Workflows
      BY <2>2
    <2> QED BY <2>1, <2>2, <2>3 DEF TickType
  <1> QED BY <1>1, <1>2

(* What the end of an execution does to the rest of the state. *)
LEMMA EndsType ==
    ASSUME RunsOK, starter \in [Starters -> StarterType], NEW r \in Runs, Ends(r)
    PROVE  /\ active' \in [Workflows -> 0..MaxRows]
           /\ stop' \in [Runs -> StopReasons]
           /\ asked' \in SUBSET Runs
           /\ starter' \in [Starters -> StarterType]
  <1>1. active' \in [Workflows -> 0..MaxRows]
    <2>1. 0 \in 0..MaxRows
      BY BoundsAssumption
    <2>2. active' = [active EXCEPT ![r[1]] = 0]
      BY DEF Ends
    <2> QED BY <2>1, <2>2 DEF RunsOK
  <1>2. stop' \in [Runs -> StopReasons]
    BY DEF Ends, RunsOK, StopReasons
  <1>3. asked' \in SUBSET Runs
    BY DEF Ends, RunsOK
  <1>4. starter' \in [Starters -> StarterType]
    <2>1. \A s \in Starters :
            [starter[s] EXCEPT !.woken = @ \/ r \in starter[s].awaits,
                               !.settled = @ \cup ({r} \cap starter[s].rest)] \in StarterType
      <3> SUFFICES ASSUME NEW s \in Starters
                   PROVE [starter[s] EXCEPT !.woken = @ \/ r \in starter[s].awaits,
                                !.settled = @ \cup ({r} \cap starter[s].rest)] \in StarterType
        OBVIOUS
      <3>1. starter[s] \in StarterType
        OBVIOUS
      <3>2. (starter[s].woken \/ r \in starter[s].awaits) \in BOOLEAN
        OBVIOUS
      <3>3. starter[s].settled \cup ({r} \cap starter[s].rest) \in SUBSET Runs
        BY <3>1 DEF StarterType
      <3> QED BY <3>1, <3>2, <3>3 DEF StarterType
    <2> QED BY <2>1 DEF Ends
  <1> QED BY <1>1, <1>2, <1>3, <1>4

LEMMA FreeRowType == FreeRow \in RowType /\ NoStarter \in StarterType /\ IdleTick \in TickType
  BY DEF FreeRow, RowType, RunStates, NoStarter, StarterType, IdleTick, TickType

LEMMA TypeInit == Init => TypeOK
  <1> SUFFICES ASSUME Init PROVE TypeOK
    OBVIOUS
  <1>1. RunsOK
    <2>1. 0 \in 0..MaxRows /\ "none" \in StopReasons
      BY BoundsAssumption DEF StopReasons
    <2> QED BY <2>1, FreeRowType DEF Init, RunsOK
  <1>2. failures \in 0..MaxFailures
    BY BoundsAssumption DEF Init
  <1> QED BY <1>1, <1>2, FreeRowType, TypeParts DEF Init

(* Every action keeps every variable in its type. *)
LEMMA TypeStep == TypeOK /\ [Next]_vars => TypeOK'
  <1> SUFFICES ASSUME TypeOK, [Next]_vars PROVE TypeOK'
    OBVIOUS
  <1> DEFINE Rest == /\ starter \in [Starters -> StarterType]
                     /\ tick \in TickType
                     /\ open \in BOOLEAN
                     /\ work \in [Workflows -> BOOLEAN]
                     /\ failures \in 0..MaxFailures
  <1>a. RunsOK /\ Rest
    BY TypeParts
  <1>b. RunsOK' /\ Rest' => TypeOK'
    BY DEF TypeOK, RunsOK, RowType, StarterType, TickType
  <1>c. \A w \in Workflows : Active(w) => ActiveRun(w) \in Runs
    BY <1>a DEF Active, ActiveRun, RunsOK
  <1>1. ASSUME NEW w \in Workflows, Start(w) PROVE TypeOK'
    BY <1>1, <1>a, <1>b, BeginType DEF Start
  <1>2. ASSUME NEW w \in Workflows, RunNow(w) PROVE TypeOK'
    BY <1>2, <1>a, <1>b, BeginType DEF RunNow
  <1>3. ASSUME NEW w \in Workflows, Stop(w) PROVE TypeOK'
    BY <1>3, <1>a, <1>b DEF Stop, RunsOK, StopReasons
  <1>4. ASSUME NEW s \in Starters, NEW w \in Workflows, RunNowWaits(s, w) PROVE TypeOK'
    <2>1. PICK v \in GroupOthers(w) :
            /\ stop' = [stop EXCEPT ![ActiveRun(v)] = "manual"]
            /\ starter' = [starter EXCEPT ![s] =
                  [on |-> TRUE, wf |-> {w}, awaits |-> {ActiveRun(v)},
                   rest |-> {ActiveRun(u) : u \in GroupOthers(w) \ {v}}, settled |-> {}, woken |-> FALSE]]
      BY <1>4 DEF RunNowWaits
    <2>2. \A u \in GroupOthers(w) : ActiveRun(u) \in Runs
      BY <1>c, WorkflowsAssumption DEF GroupOthers
    <2>3. [on |-> TRUE, wf |-> {w}, awaits |-> {ActiveRun(v)},
           rest |-> {ActiveRun(u) : u \in GroupOthers(w) \ {v}}, settled |-> {}, woken |-> FALSE]
             \in StarterType
      BY <2>2 DEF StarterType
    <2>4. starter' \in [Starters -> StarterType]
      BY <2>1, <2>3, <1>a
    <2>5. stop' \in [Runs -> StopReasons]
      BY <2>1, <1>a DEF RunsOK, StopReasons
    <2> QED BY <2>4, <2>5, <1>4, <1>a, <1>b DEF RunNowWaits, RunsOK
  <1>5. ASSUME NEW s \in Starters, KeepWaiting(s) PROVE TypeOK'
    <2>1. PICK r \in starter[s].rest :
            /\ stop' = IF Active(r[1]) THEN [stop EXCEPT ![ActiveRun(r[1])] = "manual"] ELSE stop
            /\ starter' = [starter EXCEPT ![s].awaits = {r}, ![s].rest = @ \ {r},
                                          ![s].settled = @ \ {r}, ![s].woken = r \in starter[s].settled]
      BY <1>5 DEF KeepWaiting
    <2>2. r \in Runs /\ starter[s] \in StarterType
      BY <1>a DEF StarterType
    <2>3. [starter[s] EXCEPT !.awaits = {r}, !.rest = @ \ {r}, !.settled = @ \ {r},
                             !.woken = r \in starter[s].settled] \in StarterType
      <3>1. (r \in starter[s].settled) \in BOOLEAN
        OBVIOUS
      <3> QED BY <2>2, <3>1 DEF StarterType
    <2>4. starter' \in [Starters -> StarterType]
      BY <2>1, <2>3, <1>a
    <2>5. stop' \in [Runs -> StopReasons]
      BY <2>1, <1>a DEF RunsOK, StopReasons
    <2> QED BY <2>4, <2>5, <1>5, <1>a, <1>b DEF KeepWaiting, RunsOK
  <1>6. ASSUME NEW s \in Starters, RunNowResumes(s) PROVE TypeOK'
    <2>1. PICK w \in starter[s].wf : Begin(w, TRUE)
      BY <1>6 DEF RunNowResumes
    <2>2. w \in Workflows
      BY <1>a DEF StarterType
    <2>3. RunsOK'
      BY <2>1, <2>2, <1>a, BeginType
    <2>4. starter' \in [Starters -> StarterType]
      BY <1>6, <1>a, FreeRowType DEF RunNowResumes
    <2> QED BY <2>3, <2>4, <1>6, <1>a, <1>b DEF RunNowResumes
  <1>7. ASSUME NEW r \in Runs, SaveCursor(r) PROVE TypeOK'
    <2>1. rows' = [rows EXCEPT ![r].cursor = TRUE]
      BY <1>7 DEF SaveCursor
    <2>2. rows' \in [Runs -> RowType]
      BY <2>1, <1>a DEF RunsOK, RowType
    <2> QED BY <2>2, <1>7, <1>a, <1>b DEF SaveCursor, RunsOK
  <1>8. ASSUME NEW r \in Runs, Complete(r) PROVE TypeOK'
    <2>1. rows' \in [Runs -> RowType]
      BY <1>8, <1>a, FreeRowType DEF Complete, RunsOK
    <2>2. work' \in [Workflows -> BOOLEAN] /\ Ends(r)
      BY <1>8, <1>a DEF Complete
    <2> QED BY <2>1, <2>2, <1>8, <1>a, <1>b, EndsType DEF Complete, RunsOK, Ends
  <1>9. ASSUME NEW r \in Runs, Pause(r) PROVE TypeOK'
    <2>1. rows' \in [Runs -> RowType] /\ Ends(r)
      BY <1>9, <1>a DEF Pause, RunsOK, RowType, RunStates
    <2> QED BY <2>1, <1>9, <1>a, <1>b, EndsType DEF Pause, RunsOK, Ends
  <1>10. ASSUME NEW r \in Runs, Fail(r) PROVE TypeOK'
    <2>1. rows' \in [Runs -> RowType]
      <3>1. rows' = [rows EXCEPT ![r] = IF @.cursor THEN [@ EXCEPT !.state = "failed"] ELSE FreeRow]
        BY <1>10 DEF Fail
      <3>2. [rows[r] EXCEPT !.state = "failed"] \in RowType
        BY <1>a DEF RunsOK, RowType, RunStates
      <3> QED BY <3>1, <3>2, <1>a, FreeRowType DEF RunsOK
    <2>2. work' \in [Workflows -> BOOLEAN] /\ Ends(r)
      BY <1>10, <1>a DEF Fail
    <2>3. failures' \in 0..MaxFailures
      BY <1>10, <1>a, BoundsAssumption DEF Fail
    <2> QED BY <2>1, <2>2, <2>3, <1>10, <1>a, <1>b, EndsType DEF Fail, RunsOK, Ends
  <1>11. CASE TickBegins
    <2>1. stop' \in [Runs -> StopReasons]
      BY <1>11, <1>a DEF TickBegins, RunsOK, StopReasons
    <2>2. [IdleTick EXCEPT !.open = open, !.resumable = {w \in AutoStart : ResumableRows(w) # {}}] \in TickType
      BY <1>a, FreeRowType, WorkflowsAssumption DEF TickType
    <2>3. tick' \in TickType
      BY <1>11, <2>2, <1>a, NextDueType, WorkflowsAssumption DEF TickBegins
    <2> QED BY <2>1, <2>3, <1>11, <1>a, <1>b DEF TickBegins, RunsOK
  <1>12. CASE TickPreempts
    <2>1. PICK w \in tick.at :
            /\ stop' = [r \in Runs |-> IF tick.has /\ MakesWay(w, r[1]) /\ active[r[1]] = r[2]
                                       THEN "preempted" ELSE stop[r]]
            /\ NextDue(tick, tick.todo, IF tick.has THEN tick.due \cup {w} ELSE tick.due)
      BY <1>12 DEF TickPreempts
    <2>2. stop' \in [Runs -> StopReasons]
      BY <2>1, <1>a DEF RunsOK, StopReasons
    <2>3. /\ tick.todo \in SUBSET Workflows
          /\ (IF tick.has THEN tick.due \cup {w} ELSE tick.due) \in SUBSET Workflows
      BY <1>a DEF TickType
    <2>4. tick' \in TickType
      BY <2>1, <2>3, <1>a, NextDueType
    <2> QED BY <2>2, <2>4, <1>12, <1>a, <1>b DEF TickPreempts, RunsOK
  <1>13. CASE TickVisits
    <2>1. PICK w \in StartCandidates :
            IF w \in tick.resumable
            THEN /\ TickStarts(w)
                 /\ tick' = [tick EXCEPT !.todo = AfterInTick(w)]
            ELSE /\ tick' = [tick EXCEPT !.pc = "fresh", !.at = {w}, !.has = work[w],
                                         !.todo = AfterInTick(w)]
                 /\ UNCHANGED <<rows, active, stop, asked>>
      BY <1>13 DEF TickVisits
    <2>2. w \in Workflows /\ AfterInTick(w) \in SUBSET Workflows /\ work[w] \in BOOLEAN
      BY <1>a DEF StartCandidates, AfterInTick, TickType
    <2>3. tick' \in TickType
      <3>1. [tick EXCEPT !.todo = AfterInTick(w)] \in TickType
        BY <2>2, <1>a DEF TickType
      <3>2. [tick EXCEPT !.pc = "fresh", !.at = {w}, !.has = work[w], !.todo = AfterInTick(w)] \in TickType
        BY <2>2, <1>a DEF TickType
      <3> QED BY <2>1, <3>1, <3>2
    <2>4. RunsOK'
      BY <2>1, <2>2, <1>a, TickStartsType DEF RunsOK
    <2> QED BY <2>3, <2>4, <1>13, <1>a, <1>b DEF TickVisits
  <1>14. CASE TickFresh
    <2>1. PICK w \in tick.at : IF tick.has THEN TickStarts(w) ELSE UNCHANGED <<rows, active, stop, asked>>
      BY <1>14 DEF TickFresh
    <2>2. w \in Workflows
      BY <1>a DEF TickType
    <2>3. RunsOK'
      BY <2>1, <2>2, <1>a, TickStartsType DEF RunsOK
    <2>4. tick' \in TickType
      BY <1>14, <1>a DEF TickFresh, TickType
    <2> QED BY <2>3, <2>4, <1>14, <1>a, <1>b DEF TickFresh
  <1>15. CASE TickEnds
    BY <1>15, <1>a, <1>b, FreeRowType DEF TickEnds, RunsOK
  <1>16. CASE WindowTurns
    BY <1>16, <1>a, <1>b DEF WindowTurns, RunsOK
  <1>17. ASSUME NEW w \in Workflows, WorkArrives(w) PROVE TypeOK'
    BY <1>17, <1>a, <1>b DEF WorkArrives, RunsOK
  <1>18. CASE StopAll
    BY <1>18, <1>a, <1>b DEF StopAll, RunsOK, StopReasons
  <1>19. CASE Restart
    <2>1. rows' \in [Runs -> RowType]
      BY <1>19, <1>a DEF Restart, RunsOK, RowType, RunStates
    <2>2. active' \in [Workflows -> 0..MaxRows] /\ stop' \in [Runs -> StopReasons] /\ asked' \in SUBSET Runs
      BY <1>19, BoundsAssumption DEF Restart, StopReasons
    <2>3. starter' \in [Starters -> StarterType] /\ tick' \in TickType
      BY <1>19, FreeRowType DEF Restart
    <2> QED BY <2>1, <2>2, <2>3, <1>19, <1>a, <1>b DEF Restart, RunsOK
  <1>20. CASE UNCHANGED vars
    BY <1>20, <1>a, <1>b DEF vars, RunsOK
  <1> QED
    BY <1>1, <1>2, <1>3, <1>4, <1>5, <1>6, <1>7, <1>8, <1>9, <1>10, <1>11, <1>12, <1>13,
       <1>14, <1>15, <1>16, <1>17, <1>18, <1>19, <1>20
       DEF Next, Requests, Execution, Tick, Environment

(* Every variable of the engine stays in its type, for every constant. *)
THEOREM TypeCorrect == Spec => []TypeOK
  <1>1. Init => TypeOK
    BY TypeInit
  <1>2. TypeOK /\ [Next]_vars => TypeOK'
    BY TypeStep
  <1> QED BY <1>1, <1>2, PTL DEF Spec

-----------------------------------------------------------------------------
(* One run per group, when requests do not overlap.  Two requests parked   *)
(* on the same run break it (run EngineTwoRequests), so the theorem is     *)
(* about at most one start() inside the engine at a time.                  *)

OneStarter == \A s, t \in Starters : s = t

(* The active map never holds two workflows of the group ... *)
GroupOne == \A v, w \in Group : Active(v) /\ Active(w) => v = w

(* ... and a start() that waits, waits for the one run that holds the      *)
(* disks; once woken it finds them free.                                   *)
Parked ==
    \A s \in Starters :
        /\ ~starter[s].on => starter[s].awaits = {} /\ ~starter[s].woken
        /\ starter[s].on =>
              /\ starter[s].rest = {}
              /\ starter[s].wf \subseteq Group
              /\ starter[s].woken => \A v \in Group : ~Active(v)
              /\ ~starter[s].woken =>
                    \E v \in Group : Active(v) /\ starter[s].awaits = {ActiveRun(v)}

Exclusion == ActiveIsRunning /\ GroupOne /\ Parked

LEMMA ExclusionInit == Init => Exclusion
  BY BoundsAssumption, WorkflowsAssumption
     DEF Init, Exclusion, ActiveIsRunning, GroupOne, Parked, Running, Active, FreeRow, NoStarter

(* A start into a free group keeps the map and the rows in step. *)
LEMMA BeginExclusion ==
    ASSUME TypeOK, ActiveIsRunning, GroupOne,
           NEW w \in Workflows, NEW force \in BOOLEAN, Begin(w, force),
           ~Active(w), w \in Group => \A v \in Group : ~Active(v)
    PROVE  /\ ActiveIsRunning' /\ GroupOne'
           /\ \A v \in Workflows : v # w => active'[v] = active[v]
  <1>1. PICK i \in RowIds :
            /\ rows' = [rows EXCEPT ![<<w, i>>] =
                           [state |-> "running", force |-> MergedForce(@.force, force), cursor |-> @.cursor]]
            /\ active' = [active EXCEPT ![w] = i]
    BY DEF Begin
  <1>2. /\ rows \in [Runs -> RowType] /\ active \in [Workflows -> 0..MaxRows]
        /\ <<w, i>> \in Runs
    BY TypeParts DEF RunsOK
  <1>3. ActiveIsRunning'
    <2> SUFFICES ASSUME NEW r \in Runs
                 PROVE  rows'[r].state = "running" <=> active'[r[1]] = r[2]
      BY DEF ActiveIsRunning, Running
    <2>1. CASE r[1] = w
      <3>1. CASE r[2] = i
        <4>1. r = <<w, i>>
          BY <2>1, <3>1
        <4> QED BY <4>1, <1>1, <1>2
      <3>2. CASE r[2] # i
        <4>1. r # <<w, i>> /\ rows'[r] = rows[r] /\ active'[r[1]] = i
          BY <2>1, <3>2, <1>1, <1>2
        <4>2. active[r[1]] = 0 /\ r[2] # 0
          BY <2>1, BoundsAssumption DEF Active
        <4>3. ~(rows[r].state = "running")
          BY <4>2 DEF ActiveIsRunning, Running
        <4> QED BY <4>1, <4>3, <3>2
      <3> QED BY <3>1, <3>2
    <2>2. CASE r[1] # w
      <3>1. r # <<w, i>> /\ rows'[r] = rows[r] /\ active'[r[1]] = active[r[1]]
        BY <2>2, <1>1, <1>2
      <3> QED BY <3>1 DEF ActiveIsRunning, Running
    <2> QED BY <2>1, <2>2
  <1>4. \A v \in Workflows : v # w => active'[v] = active[v]
    BY <1>1, <1>2
  <1>5. GroupOne'
    BY <1>4, WorkflowsAssumption DEF GroupOne, Active
  <1> QED BY <1>3, <1>4, <1>5

(* A start while no continuation is pending leaves every parked request    *)
(* with the run it waits for.                                              *)
LEMMA BeginParked ==
    ASSUME TypeOK, Exclusion, Drained, UNCHANGED starter,
           NEW w \in Workflows, NEW force \in BOOLEAN, Begin(w, force),
           ~Active(w), GroupOthers(w) = {}
    PROVE  Exclusion'
  <1>1. w \in Group => \A v \in Group : ~Active(v)
    BY DEF GroupOthers
  <1>2. /\ ActiveIsRunning' /\ GroupOne'
        /\ \A v \in Workflows : v # w => active'[v] = active[v]
    BY <1>1, BeginExclusion DEF Exclusion
  <1>3. Parked'
    <2> SUFFICES ASSUME NEW s \in Starters
                 PROVE  /\ ~starter[s].on => starter[s].awaits = {} /\ ~starter[s].woken
                        /\ starter[s].on =>
                              /\ starter[s].rest = {}
                              /\ starter[s].wf \subseteq Group
                              /\ starter[s].woken => \A v \in Group : ~Active(v)'
                              /\ ~starter[s].woken =>
                                    \E v \in Group : Active(v)' /\ starter[s].awaits = {ActiveRun(v)'}
      BY DEF Parked
    <2>1. ~starter[s].woken
      BY DEF Drained, Woken
    <2>2. ASSUME starter[s].on
          PROVE  \E v \in Group : Active(v)' /\ starter[s].awaits = {ActiveRun(v)'}
      <3>1. PICK v \in Group : Active(v) /\ starter[s].awaits = {ActiveRun(v)}
        BY <2>1, <2>2 DEF Exclusion, Parked
      <3>2. v # w /\ v \in Workflows
        BY <3>1, WorkflowsAssumption
      <3>3. active'[v] = active[v]
        BY <3>2, <1>2
      <3> QED BY <3>1, <3>3 DEF Active, ActiveRun
    <2> QED BY <2>1, <2>2 DEF Exclusion, Parked
  <1> QED BY <1>2, <1>3 DEF Exclusion

(* The end of a run gives the group back to whoever waits for it. *)
LEMMA EndsExclusion ==
    ASSUME TypeOK, Exclusion, Drained, NEW r \in Runs, Running(r), Ends(r),
           ~Running(r)', \A q \in Runs : q # r => rows'[q] = rows[q]
    PROVE  Exclusion'
  <1>1. /\ active \in [Workflows -> 0..MaxRows]
        /\ starter \in [Starters -> StarterType]
        /\ r[1] \in Workflows /\ r[2] \in RowIds /\ r = <<r[1], r[2]>>
    BY TypeParts DEF RunsOK
  <1>2. active[r[1]] = r[2] /\ r[2] # 0
    BY <1>1, BoundsAssumption DEF Exclusion, ActiveIsRunning
  <1>3. /\ active'[r[1]] = 0
        /\ \A v \in Workflows : v # r[1] => active'[v] = active[v]
    BY <1>1 DEF Ends
  <1>4. ActiveIsRunning'
    <2> SUFFICES ASSUME NEW q \in Runs
                 PROVE  Running(q)' <=> active'[q[1]] = q[2]
      BY DEF ActiveIsRunning
    <2>1. q[1] \in Workflows /\ q[2] # 0 /\ q = <<q[1], q[2]>>
      BY BoundsAssumption
    <2>2. CASE q = r
      BY <2>1, <2>2, <1>3
    <2>3. CASE q # r
      <3>1. Running(q)' <=> active[q[1]] = q[2]
        BY <2>3 DEF Running, Exclusion, ActiveIsRunning
      <3>2. CASE q[1] = r[1]
        BY <3>1, <3>2, <2>1, <2>3, <1>1, <1>2, <1>3
      <3>3. CASE q[1] # r[1]
        BY <3>1, <3>3, <2>1, <1>3
      <3> QED BY <3>2, <3>3
    <2> QED BY <2>2, <2>3
  <1>5. GroupOne'
    <2>1. \A v \in Workflows : active'[v] # 0 => active[v] # 0
      BY <1>3
    <2> QED BY <2>1, WorkflowsAssumption DEF GroupOne, Active, Exclusion
  <1>6. Parked'
    <2> SUFFICES ASSUME NEW s \in Starters
                 PROVE  /\ ~starter'[s].on => starter'[s].awaits = {} /\ ~starter'[s].woken
                        /\ starter'[s].on =>
                              /\ starter'[s].rest = {}
                              /\ starter'[s].wf \subseteq Group
                              /\ starter'[s].woken => \A v \in Group : ~Active(v)'
                              /\ ~starter'[s].woken =>
                                    \E v \in Group : Active(v)' /\ starter'[s].awaits = {ActiveRun(v)'}
      BY DEF Parked
    <2>a. starter[s] \in StarterType
      BY <1>1
    <2>b. starter'[s] = [starter[s] EXCEPT !.woken = @ \/ r \in starter[s].awaits,
                                           !.settled = @ \cup ({r} \cap starter[s].rest)]
      BY DEF Ends
    <2>1. /\ starter'[s].on = starter[s].on /\ starter'[s].rest = starter[s].rest
          /\ starter'[s].wf = starter[s].wf /\ starter'[s].awaits = starter[s].awaits
      BY <2>a, <2>b DEF StarterType
    <2>2. starter'[s].woken = (starter[s].woken \/ r \in starter[s].awaits)
      BY <2>a, <2>b DEF StarterType
    <2>3. ~starter[s].woken
      BY DEF Drained, Woken
    <2>4. CASE ~starter[s].on
      BY <2>1, <2>2, <2>3, <2>4 DEF Exclusion, Parked
    <2>5. CASE starter[s].on
      <3>1. PICK v \in Group : Active(v) /\ starter[s].awaits = {ActiveRun(v)}
        BY <2>3, <2>5 DEF Exclusion, Parked
      <3>2. starter[s].rest = {} /\ starter[s].wf \subseteq Group
        BY <2>5 DEF Exclusion, Parked
      <3>3. CASE v = r[1]
        <4>1. starter'[s].woken
          BY <3>1, <3>3, <2>2, <1>1, <1>2 DEF ActiveRun
        <4>2. \A u \in Group : ~Active(u)'
          BY <3>1, <3>3, <1>3, WorkflowsAssumption DEF Active, Exclusion, GroupOne
        <4> QED BY <4>1, <4>2, <3>2, <2>1, <2>5
      <3>4. CASE v # r[1]
        <4>0. ActiveRun(v) # r
          BY <3>4, <1>1 DEF ActiveRun
        <4>1. ~starter'[s].woken
          BY <4>0, <3>1, <2>2, <2>3
        <4>2. active'[v] = active[v]
          BY <3>4, <1>3, WorkflowsAssumption
        <4>3. Active(v)' /\ starter'[s].awaits = {ActiveRun(v)'}
          BY <4>2, <3>1, <2>1 DEF Active, ActiveRun
        <4> QED BY <4>1, <4>3, <3>2, <2>1, <2>5
      <3> QED BY <3>3, <3>4
    <2> QED BY <2>4, <2>5
  <1> QED BY <1>4, <1>5, <1>6 DEF Exclusion

(* Steps that leave the rows' states, the map and the requests alone. *)
LEMMA ExclusionFrame ==
    ASSUME Exclusion, UNCHANGED <<active, starter>>,
           \A r \in Runs : Running(r)' <=> Running(r)
    PROVE  Exclusion'
  BY DEF Exclusion, ActiveIsRunning, GroupOne, Parked, Active, ActiveRun

LEMMA ExclusionStep ==
    ASSUME OneStarter
    PROVE  TypeOK /\ Exclusion /\ [Next]_vars => Exclusion'
  <1> SUFFICES ASSUME TypeOK, Exclusion, [Next]_vars PROVE Exclusion'
    OBVIOUS
  <1>a. /\ rows \in [Runs -> RowType] /\ active \in [Workflows -> 0..MaxRows]
        /\ starter \in [Starters -> StarterType] /\ tick \in TickType
    BY TypeParts DEF RunsOK
  <1>f. UNCHANGED <<rows, active, starter>> => Exclusion'
    BY ExclusionFrame DEF Running
  <1>1. ASSUME NEW w \in Workflows, Start(w) PROVE Exclusion'
    BY <1>1, BeginParked DEF Start, Quiet, CanStart
  <1>2. ASSUME NEW w \in Workflows, RunNow(w) PROVE Exclusion'
    BY <1>2, BeginParked DEF RunNow, Quiet
  <1>3. ASSUME NEW w \in Workflows, Stop(w) PROVE Exclusion'
    BY <1>3, <1>f DEF Stop
  <1>4. ASSUME NEW s \in Starters, NEW w \in Workflows, RunNowWaits(s, w) PROVE Exclusion'
    <2>1. PICK v \in GroupOthers(w) :
            starter' = [starter EXCEPT ![s] =
                  [on |-> TRUE, wf |-> {w}, awaits |-> {ActiveRun(v)},
                   rest |-> {ActiveRun(u) : u \in GroupOthers(w) \ {v}}, settled |-> {}, woken |-> FALSE]]
      BY <1>4 DEF RunNowWaits
    <2>2. w \in Group /\ v \in Group /\ Active(v)
      BY DEF GroupOthers
    <2>3. GroupOthers(w) \ {v} = {}
      BY <2>2 DEF GroupOthers, Exclusion, GroupOne
    <2>4. starter'[s] = [on |-> TRUE, wf |-> {w}, awaits |-> {ActiveRun(v)},
                         rest |-> {}, settled |-> {}, woken |-> FALSE]
      BY <2>1, <2>3, <1>a
    <2>5. UNCHANGED <<rows, active>>
      BY <1>4 DEF RunNowWaits
    <2>6. Parked'
      <3> SUFFICES ASSUME NEW t \in Starters
                   PROVE  /\ ~starter'[t].on => starter'[t].awaits = {} /\ ~starter'[t].woken
                          /\ starter'[t].on =>
                                /\ starter'[t].rest = {}
                                /\ starter'[t].wf \subseteq Group
                                /\ starter'[t].woken => \A u \in Group : ~Active(u)'
                                /\ ~starter'[t].woken =>
                                      \E u \in Group : Active(u)' /\ starter'[t].awaits = {ActiveRun(u)'}
        BY DEF Parked
      <3>1. t = s
        BY DEF OneStarter
      <3> QED BY <3>1, <2>2, <2>4, <2>5 DEF Active, ActiveRun
    <2> QED BY <2>5, <2>6 DEF Exclusion, ActiveIsRunning, GroupOne, Running, Active
  <1>5. ASSUME NEW s \in Starters, KeepWaiting(s) PROVE Exclusion'
    BY <1>5 DEF KeepWaiting, Exclusion, Parked
  <1>6. ASSUME NEW s \in Starters, RunNowResumes(s) PROVE Exclusion'
    <2>1. PICK w \in starter[s].wf : Begin(w, TRUE)
      BY <1>6 DEF RunNowResumes
    <2>2. w \in Group /\ (\A v \in Group : ~Active(v)) /\ w \in Workflows
      BY <2>1, <1>6, WorkflowsAssumption DEF RunNowResumes, Exclusion, Parked
    <2>3. ActiveIsRunning' /\ GroupOne'
      BY <2>1, <2>2, BeginExclusion DEF Exclusion
    <2>4. \A t \in Starters : starter'[t] = NoStarter
      BY <1>6, <1>a DEF RunNowResumes, OneStarter
    <2> QED BY <2>3, <2>4 DEF Exclusion, Parked, NoStarter
  <1>7. ASSUME NEW r \in Runs, SaveCursor(r) PROVE Exclusion'
    <2>1. \A q \in Runs : Running(q)' <=> Running(q)
      BY <1>7, <1>a DEF SaveCursor, Running, RowType
    <2> QED BY <2>1, <1>7, ExclusionFrame DEF SaveCursor
  <1>8. ASSUME NEW r \in Runs, Complete(r) PROVE Exclusion'
    <2>1. ~Running(r)' /\ \A q \in Runs : q # r => rows'[q] = rows[q]
      BY <1>8, <1>a DEF Complete, Running, FreeRow
    <2> QED BY <2>1, <1>8, EndsExclusion DEF Complete, Quiet
  <1>9. ASSUME NEW r \in Runs, Pause(r) PROVE Exclusion'
    <2>1. ~Running(r)' /\ \A q \in Runs : q # r => rows'[q] = rows[q]
      BY <1>9, <1>a DEF Pause, Running, RowType
    <2> QED BY <2>1, <1>9, EndsExclusion DEF Pause, Quiet
  <1>10. ASSUME NEW r \in Runs, Fail(r) PROVE Exclusion'
    <2>1. ~Running(r)' /\ \A q \in Runs : q # r => rows'[q] = rows[q]
      BY <1>10, <1>a DEF Fail, Running, RowType, FreeRow
    <2> QED BY <2>1, <1>10, EndsExclusion DEF Fail, Quiet
  <1>11. CASE TickBegins
    BY <1>11, <1>f DEF TickBegins
  <1>12. CASE TickPreempts
    BY <1>12, <1>f DEF TickPreempts
  <1>t. ASSUME NEW w \in Workflows, TickStarts(w), Drained, UNCHANGED starter PROVE Exclusion'
    <2>1. CASE CanStart(w)
      BY <2>1, <1>t, BeginParked DEF TickStarts, CanStart
    <2>2. CASE ~CanStart(w)
      BY <2>2, <1>t, <1>f DEF TickStarts
    <2> QED BY <2>1, <2>2
  <1>13. CASE TickVisits
    <2>1. PICK w \in StartCandidates : TickStarts(w) \/ UNCHANGED <<rows, active>>
      BY <1>13 DEF TickVisits
    <2>2. w \in Workflows
      BY <1>a DEF StartCandidates, TickType
    <2> QED BY <2>1, <2>2, <1>13, <1>t, <1>f DEF TickVisits
  <1>14. CASE TickFresh
    <2>1. PICK w \in tick.at : TickStarts(w) \/ UNCHANGED <<rows, active>>
      BY <1>14 DEF TickFresh
    <2>2. w \in Workflows
      BY <1>a DEF TickType
    <2> QED BY <2>1, <2>2, <1>14, <1>t, <1>f DEF TickFresh
  <1>15. CASE TickEnds
    BY <1>15, <1>f DEF TickEnds
  <1>16. CASE WindowTurns
    BY <1>16, <1>f DEF WindowTurns
  <1>17. ASSUME NEW w \in Workflows, WorkArrives(w) PROVE Exclusion'
    BY <1>17, <1>f DEF WorkArrives
  <1>18. CASE StopAll
    BY <1>18, <1>f DEF StopAll
  <1>19. CASE Restart
    <2>1. \A r \in Runs : ~Running(r)'
      BY <1>19, <1>a DEF Restart, Running, RowType
    <2>2. \A w \in Workflows : active'[w] = 0
      BY <1>19 DEF Restart
    <2>3. \A s \in Starters : starter'[s] = NoStarter
      BY <1>19 DEF Restart
    <2> QED BY <2>1, <2>2, <2>3, BoundsAssumption, WorkflowsAssumption
            DEF Exclusion, ActiveIsRunning, GroupOne, Parked, Active, NoStarter
  <1>20. CASE UNCHANGED vars
    BY <1>20, <1>f DEF vars
  <1> QED
    BY <1>1, <1>2, <1>3, <1>4, <1>5, <1>6, <1>7, <1>8, <1>9, <1>10, <1>11, <1>12, <1>13,
       <1>14, <1>15, <1>16, <1>17, <1>18, <1>19, <1>20
       DEF Next, Requests, Execution, Tick, Environment

LEMMA ExclusionMeans == TypeOK /\ Exclusion => OneRunPerGroup
  <1> SUFFICES ASSUME TypeOK, Exclusion,
                      NEW r \in Runs, NEW q \in Runs,
                      r[1] \in Group, q[1] \in Group, Running(r), Running(q)
               PROVE  r = q
    BY DEF OneRunPerGroup
  <1>1. active[r[1]] = r[2] /\ active[q[1]] = q[2]
    BY DEF Exclusion, ActiveIsRunning
  <1>2. r[2] # 0 /\ q[2] # 0 /\ r = <<r[1], r[2]>> /\ q = <<q[1], q[2]>>
    BY BoundsAssumption
  <1>3. r[1] = q[1]
    BY <1>1, <1>2 DEF Exclusion, GroupOne, Active
  <1> QED BY <1>1, <1>2, <1>3

(* While requests do not overlap, one workflow of the group runs at a time *)
(* and the active map knows every run: for any number of workflows, any    *)
(* settings, a scheduler that yields or not, and restarts at any point.    *)
THEOREM GroupExclusion ==
    ASSUME OneStarter
    PROVE  Spec => [](OneRunPerGroup /\ ActiveIsRunning)
  <1>1. Init => TypeOK /\ Exclusion
    BY TypeInit, ExclusionInit
  <1>2. TypeOK /\ Exclusion /\ [Next]_vars => (TypeOK /\ Exclusion)'
    BY TypeStep, ExclusionStep
  <1>3. TypeOK /\ Exclusion => OneRunPerGroup /\ ActiveIsRunning
    BY ExclusionMeans DEF Exclusion
  <1> QED BY <1>1, <1>2, <1>3, PTL DEF Spec

-----------------------------------------------------------------------------
(* Runs started by hand.                                                   *)

(* The params of a run begun with force say so for as long as it lasts. *)
AskedForced == \A r \in asked : rows[r].force

LEMMA AskedForcedStep == TypeOK /\ AskedForced /\ [Next]_vars => AskedForced'
  <1> SUFFICES ASSUME TypeOK, AskedForced, [Next]_vars PROVE AskedForced'
    OBVIOUS
  <1>a. RunsOK /\ starter \in [Starters -> StarterType] /\ tick \in TickType
    BY TypeParts
  <1>f. UNCHANGED <<rows, asked>> => AskedForced'
    BY DEF AskedForced
  <1>b. ASSUME NEW w \in Workflows, NEW force \in BOOLEAN, Begin(w, force) PROVE AskedForced'
    <2>1. PICK i \in RowIds :
            /\ rows' = [rows EXCEPT ![<<w, i>>] =
                           [state |-> "running", force |-> MergedForce(@.force, force), cursor |-> @.cursor]]
            /\ asked' = IF force THEN asked \cup {<<w, i>>} ELSE asked \ {<<w, i>>}
      BY <1>b DEF Begin
    <2>2. <<w, i>> \in Runs /\ rows'[<<w, i>>].force = force
      BY <2>1, <1>a DEF RunsOK, MergedForce
    <2>3. \A r \in Runs : r # <<w, i>> => rows'[r] = rows[r]
      BY <2>1, <1>a DEF RunsOK
    <2>4. asked \subseteq Runs
      BY <1>a DEF RunsOK
    <2>5. ASSUME NEW r \in asked' PROVE rows'[r].force
      <3>1. CASE r = <<w, i>>
        BY <3>1, <2>1, <2>2, <2>5
      <3>2. CASE r # <<w, i>>
        <4>1. r \in asked
          BY <3>2, <2>1, <2>5
        <4> QED BY <4>1, <3>2, <2>3, <2>4 DEF AskedForced
      <3> QED BY <3>1, <3>2
    <2> QED BY <2>5 DEF AskedForced
  <1>t. ASSUME NEW w \in Workflows, TickStarts(w) PROVE AskedForced'
    BY <1>t, <1>b, <1>f DEF TickStarts
  <1>e. ASSUME NEW r \in Runs, Ends(r), \A q \in Runs : q # r => rows'[q] = rows[q]
        PROVE  AskedForced'
    <2>1. asked' = asked \ {r} /\ asked \subseteq Runs
      BY <1>e, <1>a DEF Ends, RunsOK
    <2> QED BY <2>1, <1>e DEF AskedForced
  <1>1. ASSUME NEW w \in Workflows, Start(w) \/ RunNow(w) \/ Stop(w) PROVE AskedForced'
    BY <1>1, <1>b, <1>f DEF Start, RunNow, Stop
  <1>2. ASSUME NEW s \in Starters, NEW w \in Workflows, RunNowWaits(s, w) PROVE AskedForced'
    BY <1>2, <1>f DEF RunNowWaits
  <1>3. ASSUME NEW s \in Starters, KeepWaiting(s) \/ RunNowResumes(s) PROVE AskedForced'
    <2>1. CASE KeepWaiting(s)
      BY <2>1, <1>f DEF KeepWaiting
    <2>2. CASE RunNowResumes(s)
      <3>1. PICK w \in starter[s].wf : Begin(w, TRUE)
        BY <2>2 DEF RunNowResumes
      <3>2. w \in Workflows
        BY <1>a DEF StarterType
      <3> QED BY <3>1, <3>2, <1>b
    <2> QED BY <1>3, <2>1, <2>2
  <1>4. ASSUME NEW r \in Runs, SaveCursor(r) PROVE AskedForced'
    BY <1>4, <1>a DEF SaveCursor, AskedForced, RunsOK, RowType
  <1>5. ASSUME NEW r \in Runs, Complete(r) \/ Pause(r) \/ Fail(r) PROVE AskedForced'
    <2>1. Ends(r) /\ \A q \in Runs : q # r => rows'[q] = rows[q]
      BY <1>5, <1>a DEF Complete, Pause, Fail, RunsOK
    <2> QED BY <2>1, <1>e
  <1>6. CASE TickBegins \/ TickPreempts \/ TickEnds
    BY <1>6, <1>f DEF TickBegins, TickPreempts, TickEnds
  <1>7. CASE TickVisits
    <2>1. PICK w \in StartCandidates : TickStarts(w) \/ UNCHANGED <<rows, asked>>
      BY <1>7 DEF TickVisits
    <2>2. w \in Workflows
      BY <1>a DEF StartCandidates, TickType
    <2> QED BY <2>1, <2>2, <1>t, <1>f
  <1>8. CASE TickFresh
    <2>1. PICK w \in tick.at : TickStarts(w) \/ UNCHANGED <<rows, asked>>
      BY <1>8 DEF TickFresh
    <2>2. w \in Workflows
      BY <1>a DEF TickType
    <2> QED BY <2>1, <2>2, <1>t, <1>f
  <1>9. CASE WindowTurns \/ StopAll \/ \E w \in Workflows : WorkArrives(w)
    BY <1>9, <1>f DEF WindowTurns, StopAll, WorkArrives
  <1>10. CASE Restart
    BY <1>10 DEF Restart, AskedForced
  <1>11. CASE UNCHANGED vars
    BY <1>11, <1>f DEF vars
  <1> QED
    BY <1>1, <1>2, <1>3, <1>4, <1>5, <1>6, <1>7, <1>8, <1>9, <1>10, <1>11
       DEF Next, Requests, Execution, Tick, Environment

(* A step that gives a run started by hand a new reason to stop gives it   *)
(* an operator's or the shutdown's.                                        *)
LEMMA ForcedStep ==
    TypeOK /\ AskedForced /\ [Next]_vars =>
        [\A r \in asked : stop'[r] # stop[r] => stop'[r] \notin {"window-closed", "preempted"}]_vars
  <1> SUFFICES ASSUME TypeOK, AskedForced, Next, NEW r \in asked, stop'[r] # stop[r]
               PROVE  stop'[r] \notin {"window-closed", "preempted"}
    BY DEF vars
  <1>a. RunsOK /\ r \in Runs /\ r = <<r[1], r[2]>> /\ rows[r].force
    BY TypeParts DEF RunsOK, AskedForced
  <1>b. ASSUME NEW w \in Workflows, NEW force \in BOOLEAN, Begin(w, force)
        PROVE  stop'[r] \notin {"window-closed", "preempted"}
    <2>1. PICK i \in RowIds : stop' = [stop EXCEPT ![<<w, i>>] = "none"]
      BY <1>b DEF Begin
    <2> QED BY <2>1, <1>a DEF RunsOK
  <1>t. ASSUME NEW w \in Workflows, TickStarts(w) PROVE stop'[r] \notin {"window-closed", "preempted"}
    BY <1>t, <1>b DEF TickStarts
  <1>1. ASSUME NEW w \in Workflows, Start(w) \/ RunNow(w) PROVE stop'[r] \notin {"window-closed", "preempted"}
    BY <1>1, <1>b DEF Start, RunNow
  <1>2. ASSUME NEW w \in Workflows, Stop(w) PROVE stop'[r] \notin {"window-closed", "preempted"}
    BY <1>2, <1>a DEF Stop, RunsOK
  <1>3. ASSUME NEW s \in Starters, NEW w \in Workflows, RunNowWaits(s, w)
        PROVE  stop'[r] \notin {"window-closed", "preempted"}
    BY <1>3, <1>a DEF RunNowWaits, RunsOK
  <1>4. ASSUME NEW s \in Starters, KeepWaiting(s) PROVE stop'[r] \notin {"window-closed", "preempted"}
    BY <1>4, <1>a DEF KeepWaiting, RunsOK
  <1>5. ASSUME NEW s \in Starters, RunNowResumes(s) PROVE stop'[r] \notin {"window-closed", "preempted"}
    <2>1. PICK w \in starter[s].wf : Begin(w, TRUE)
      BY <1>5 DEF RunNowResumes
    <2>2. w \in Workflows
      BY TypeParts DEF StarterType
    <2> QED BY <2>1, <2>2, <1>b
  <1>6. ASSUME NEW q \in Runs, SaveCursor(q) PROVE FALSE
    BY <1>6 DEF SaveCursor
  <1>7. ASSUME NEW q \in Runs, Complete(q) \/ Pause(q) \/ Fail(q)
        PROVE  stop'[r] \notin {"window-closed", "preempted"}
    BY <1>7, <1>a DEF Complete, Pause, Fail, Ends, RunsOK
  <1>8. CASE TickBegins
    <2>1. ~(WindowClosedOn(r[1]) /\ active[r[1]] = r[2])
      BY <1>a DEF WindowClosedOn, ActiveRun
    <2> QED BY <2>1, <1>8, <1>a DEF TickBegins
  <1>9. CASE TickPreempts
    <2>1. PICK w \in tick.at :
            stop' = [q \in Runs |-> IF tick.has /\ MakesWay(w, q[1]) /\ active[q[1]] = q[2]
                                   THEN "preempted" ELSE stop[q]]
      BY <1>9 DEF TickPreempts
    <2>2. ~(MakesWay(w, r[1]) /\ active[r[1]] = r[2])
      BY <1>a DEF MakesWay, ActiveRun
    <2> QED BY <2>1, <2>2, <1>a
  <1>10. CASE TickVisits
    <2>1. PICK w \in StartCandidates : TickStarts(w) \/ UNCHANGED stop
      BY <1>10 DEF TickVisits
    <2>2. w \in Workflows
      BY TypeParts DEF StartCandidates, TickType
    <2> QED BY <2>1, <2>2, <1>t
  <1>11. CASE TickFresh
    <2>1. PICK w \in tick.at : TickStarts(w) \/ UNCHANGED stop
      BY <1>11 DEF TickFresh
    <2>2. w \in Workflows
      BY TypeParts DEF TickType
    <2> QED BY <2>1, <2>2, <1>t
  <1>12. CASE TickEnds \/ WindowTurns \/ \E w \in Workflows : WorkArrives(w)
    BY <1>12 DEF TickEnds, WindowTurns, WorkArrives
  <1>13. CASE StopAll
    BY <1>13, <1>a DEF StopAll
  <1>14. CASE Restart
    BY <1>14, <1>a DEF Restart
  <1> QED
    BY <1>1, <1>2, <1>3, <1>4, <1>5, <1>6, <1>7, <1>8, <1>9, <1>10, <1>11, <1>12, <1>13, <1>14
       DEF Next, Requests, Execution, Tick, Environment

(* No scheduler pass ever stops a run started by hand, for its window or   *)
(* to make way, however many requests there are.                           *)
THEOREM ForcedRunsAreLeftAlone == Spec => ForcedLeftAlone
  <1>1. Init => TypeOK /\ AskedForced
    BY TypeInit DEF Init, AskedForced
  <1>2. TypeOK /\ AskedForced /\ [Next]_vars => (TypeOK /\ AskedForced)'
    BY TypeStep, AskedForcedStep
  <1> QED BY <1>1, <1>2, ForcedStep, PTL DEF Spec, ForcedLeftAlone

-----------------------------------------------------------------------------
(* Every way to begin a run looks at the window, or was asked for by hand. *)

LEMMA WindowStep ==
    TypeOK /\ [Next]_vars =>
        [\A w \in Scheduled :
            ~Active(w) /\ active'[w] # 0 /\ <<w, active'[w]>> \notin asked' => open]_vars
  <1> SUFFICES ASSUME TypeOK, Next, NEW w \in Scheduled,
                      active[w] = 0, active'[w] # 0, <<w, active'[w]>> \notin asked'
               PROVE  open
    BY DEF vars, Active
  <1>a. w \in Workflows /\ RunsOK
    BY WorkflowsAssumption, TypeParts
  <1>b. ASSUME NEW v \in Workflows, NEW force \in BOOLEAN, Begin(v, force)
        PROVE  v = w /\ ~force
    <2>1. PICK i \in RowIds : /\ active' = [active EXCEPT ![v] = i]
                              /\ asked' = IF force THEN asked \cup {<<v, i>>} ELSE asked \ {<<v, i>>}
      BY <1>b DEF Begin
    <2>2. v = w
      BY <2>1, <1>a DEF RunsOK
    <2>3. active'[w] = i
      BY <2>1, <2>2, <1>a DEF RunsOK
    <2> QED BY <2>1, <2>2, <2>3
  <1>t. ASSUME NEW v \in Workflows, TickStarts(v) PROVE open
    <2>1. CASE CanStart(v) /\ Begin(v, FALSE)
      BY <2>1, <1>b DEF CanStart
    <2>2. CASE UNCHANGED active
      BY <2>2
    <2> QED BY <2>1, <2>2, <1>t DEF TickStarts
  <1>1. ASSUME NEW v \in Workflows, Start(v) PROVE open
    BY <1>1, <1>b DEF Start, CanStart
  <1>2. ASSUME NEW v \in Workflows, RunNow(v) PROVE FALSE
    BY <1>2, <1>b DEF RunNow
  <1>3. ASSUME NEW s \in Starters, RunNowResumes(s) PROVE FALSE
    <2>1. PICK v \in starter[s].wf : Begin(v, TRUE)
      BY <1>3 DEF RunNowResumes
    <2>2. v \in Workflows
      BY TypeParts DEF StarterType
    <2> QED BY <2>1, <2>2, <1>b
  <1>4. ASSUME NEW q \in Runs, Complete(q) \/ Pause(q) \/ Fail(q) PROVE FALSE
    BY <1>4, <1>a DEF Complete, Pause, Fail, Ends, RunsOK
  <1>5. CASE TickVisits
    <2>1. PICK v \in StartCandidates : TickStarts(v) \/ UNCHANGED active
      BY <1>5 DEF TickVisits
    <2>2. v \in Workflows
      BY TypeParts DEF StartCandidates, TickType
    <2> QED BY <2>1, <2>2, <1>t
  <1>6. CASE TickFresh
    <2>1. PICK v \in tick.at : TickStarts(v) \/ UNCHANGED active
      BY <1>6 DEF TickFresh
    <2>2. v \in Workflows
      BY TypeParts DEF TickType
    <2> QED BY <2>1, <2>2, <1>t
  <1>7. CASE Restart
    BY <1>7, <1>a DEF Restart
  <1>8. ASSUME \/ TickBegins \/ TickPreempts \/ TickEnds \/ WindowTurns \/ StopAll
               \/ (\E v \in Workflows : WorkArrives(v) \/ Stop(v))
               \/ (\E q \in Runs : SaveCursor(q))
               \/ (\E s \in Starters : KeepWaiting(s))
               \/ (\E s \in Starters, v \in Workflows : RunNowWaits(s, v))
        PROVE  FALSE
    BY <1>8 DEF TickBegins, TickPreempts, TickEnds, WindowTurns, StopAll, WorkArrives, Stop,
                SaveCursor, KeepWaiting, RunNowWaits
  <1> QED
    BY <1>1, <1>2, <1>3, <1>4, <1>5, <1>6, <1>7, <1>8
       DEF Next, Requests, Execution, Tick, Environment

(* Heavy I/O that nobody asked for begins inside the window only, with any *)
(* number of requests in flight and whether or not a pass yields.          *)
THEOREM WindowIsObeyed == Spec => BeginsInsideTheWindow
  <1> QED BY TypeInit, TypeStep, WindowStep, PTL DEF Spec, BeginsInsideTheWindow

-----------------------------------------------------------------------------
(* The engine implements WorkflowPromise, when requests do not overlap.    *)

(* A workflow none of whose rows changes what it is to be continued from   *)
(* keeps its phase.                                                        *)
LEMMA PhaseSame ==
    ASSUME NEW w \in Workflows, \A i \in RowIds : rows'[<<w, i>>] = rows[<<w, i>>]
    PROVE  Phase'[w] = Phase[w]
  BY DEF Phase, Running, ResumableRows

LEMMA PhaseBusy ==
    ASSUME ActiveIsRunning, NEW w \in Workflows, active \in [Workflows -> 0..MaxRows]
    PROVE  Phase[w] = "busy" <=> Active(w)
  <1>1. \A i \in RowIds : Running(<<w, i>>) <=> active[w] = i
    BY DEF ActiveIsRunning
  <1>2. Active(w) <=> \E i \in RowIds : active[w] = i
    BY BoundsAssumption DEF Active
  <1> QED BY <1>1, <1>2 DEF Phase

LEMMA BeginPromise ==
    ASSUME TypeOK, Exclusion, NEW w \in Workflows, NEW force \in BOOLEAN, Begin(w, force),
           ~Active(w), w \in Group => \A v \in Group : ~Active(v)
    PROVE  Promise!Begin(w)
  <1>1. PICK i \in RowIds :
            rows' = [rows EXCEPT ![<<w, i>>] =
                       [state |-> "running", force |-> MergedForce(@.force, force), cursor |-> @.cursor]]
    BY DEF Begin
  <1>2. rows \in [Runs -> RowType] /\ active \in [Workflows -> 0..MaxRows]
    BY TypeParts DEF RunsOK
  <1>3. Phase[w] # "busy"
    BY <1>2, PhaseBusy DEF Exclusion
  <1>4. w \in Group => \A v \in Group : Phase[v] # "busy"
    BY <1>2, PhaseBusy, WorkflowsAssumption DEF Exclusion
  <1>5. Phase'[w] = "busy"
    BY <1>1, <1>2 DEF Phase, Running
  <1>6. \A v \in Workflows : v # w => Phase'[v] = Phase[v]
    BY <1>1, <1>2, PhaseSame
  <1>7. Phase' = [Phase EXCEPT ![w] = "busy"]
    BY <1>5, <1>6 DEF Phase
  <1> QED BY <1>3, <1>4, <1>7 DEF Promise!Begin, Promise!DisksFree

LEMMA EndsPromise ==
    ASSUME TypeOK, Exclusion, NEW r \in Runs, Running(r), ~Running(r)',
           \A q \in Runs : q # r => rows'[q] = rows[q]
    PROVE  Promise!End(r[1])
  <1> DEFINE w == r[1]
  <1>1. w \in Workflows /\ r = <<w, r[2]>> /\ r[2] \in RowIds
    OBVIOUS
  <1>2. Phase[w] = "busy"
    BY <1>1 DEF Phase
  <1>3. \A i \in RowIds : ~Running(<<w, i>>)'
    <2> SUFFICES ASSUME NEW i \in RowIds, Running(<<w, i>>)' PROVE FALSE
      OBVIOUS
    <2>1. <<w, i>> # r
      OBVIOUS
    <2>2. Running(<<w, i>>)
      BY <2>1, <1>1 DEF Running
    <2>3. active[w] = i /\ active[w] = r[2]
      BY <2>2, <1>1 DEF Exclusion, ActiveIsRunning
    <2> QED BY <2>1, <2>3, <1>1
  <1>4. Phase'[w] \in {"idle", "begun"}
    BY <1>1, <1>3 DEF Phase
  <1>5. \A v \in Workflows : v # w => Phase'[v] = Phase[v]
    BY <1>1, PhaseSame
  <1>6. Phase' = [Phase EXCEPT ![w] = Phase'[w]]
    BY <1>5, <1>1 DEF Phase
  <1> QED BY <1>2, <1>4, <1>6 DEF Promise!End

LEMMA PromiseStep ==
    ASSUME OneStarter
    PROVE  TypeOK /\ Exclusion /\ [Next]_vars => [Promise!Next]_Phase
  <1> SUFFICES ASSUME TypeOK, Exclusion, [Next]_vars PROVE [Promise!Next]_Phase
    OBVIOUS
  <1> DEFINE Goal == Promise!Next \/ Phase' = Phase
  <1>a. /\ rows \in [Runs -> RowType] /\ starter \in [Starters -> StarterType] /\ tick \in TickType
    BY TypeParts DEF RunsOK
  <1>f. UNCHANGED rows => Goal
    BY DEF Phase, Running, ResumableRows
  <1>b. ASSUME NEW w \in Workflows, NEW force \in BOOLEAN, Begin(w, force),
               ~Active(w), w \in Group => \A v \in Group : ~Active(v)
        PROVE  Goal
    BY <1>b, BeginPromise DEF Promise!Next
  <1>e. ASSUME NEW r \in Runs, Running(r), ~Running(r)', \A q \in Runs : q # r => rows'[q] = rows[q]
        PROVE  Goal
    BY <1>e, EndsPromise DEF Promise!Next
  <1>t. ASSUME NEW w \in Workflows, TickStarts(w) PROVE Goal
    <2>1. CASE CanStart(w)
      <3>1. ~Active(w) /\ (w \in Group => \A v \in Group : ~Active(v))
        BY <2>1 DEF CanStart, GroupOthers
      <3> QED BY <2>1, <3>1, <1>t, <1>b DEF TickStarts
    <2>2. CASE ~CanStart(w)
      BY <2>2, <1>t, <1>f DEF TickStarts
    <2> QED BY <2>1, <2>2
  <1>1. ASSUME NEW w \in Workflows, Start(w) PROVE Goal
    <2>1. ~Active(w) /\ (w \in Group => \A v \in Group : ~Active(v))
      BY <1>1 DEF Start, CanStart, GroupOthers
    <2> QED BY <2>1, <1>1, <1>b DEF Start
  <1>2. ASSUME NEW w \in Workflows, RunNow(w) PROVE Goal
    <2>1. ~Active(w) /\ (w \in Group => \A v \in Group : ~Active(v))
      BY <1>2 DEF RunNow, GroupOthers
    <2> QED BY <2>1, <1>2, <1>b DEF RunNow
  <1>3. ASSUME NEW s \in Starters, RunNowResumes(s) PROVE Goal
    <2>1. PICK w \in starter[s].wf : Begin(w, TRUE)
      BY <1>3 DEF RunNowResumes
    <2>2. w \in Group /\ (\A v \in Group : ~Active(v)) /\ w \in Workflows
      BY <2>1, <1>3, WorkflowsAssumption DEF RunNowResumes, Exclusion, Parked
    <2> QED BY <2>1, <2>2, <1>b
  <1>4. ASSUME NEW r \in Runs, SaveCursor(r) PROVE Goal
    <2>1. \A q \in Runs : Running(q)' <=> Running(q)
      BY <1>4, <1>a DEF SaveCursor, Running, RowType
    <2>2. \A w \in Workflows : ResumableRows(w)' = ResumableRows(w)
      <3> SUFFICES ASSUME NEW w \in Workflows, NEW i \in RowIds
                   PROVE  i \in ResumableRows(w)' <=> i \in ResumableRows(w)
        BY DEF ResumableRows
      <3>1. CASE <<w, i>> = r
        BY <3>1, <1>4, <1>a DEF SaveCursor, Running, RowType, ResumableRows
      <3>2. CASE <<w, i>> # r
        BY <3>2, <1>4, <1>a DEF SaveCursor, ResumableRows
      <3> QED BY <3>1, <3>2
    <2> QED BY <2>1, <2>2 DEF Phase
  <1>5. ASSUME NEW r \in Runs, Complete(r) \/ Pause(r) \/ Fail(r) PROVE Goal
    <2>1. Running(r) /\ ~Running(r)' /\ \A q \in Runs : q # r => rows'[q] = rows[q]
      BY <1>5, <1>a DEF Complete, Pause, Fail, Running, RowType, FreeRow
    <2> QED BY <2>1, <1>e
  <1>6. CASE TickVisits
    <2>1. PICK w \in StartCandidates : TickStarts(w) \/ UNCHANGED rows
      BY <1>6 DEF TickVisits
    <2>2. w \in Workflows
      BY <1>a DEF StartCandidates, TickType
    <2> QED BY <2>1, <2>2, <1>t, <1>f
  <1>7. CASE TickFresh
    <2>1. PICK w \in tick.at : TickStarts(w) \/ UNCHANGED rows
      BY <1>7 DEF TickFresh
    <2>2. w \in Workflows
      BY <1>a DEF TickType
    <2> QED BY <2>1, <2>2, <1>t, <1>f
  <1>8. CASE Restart
    <2>1. \A w \in Workflows : Phase'[w] = IF Phase[w] = "busy" THEN "begun" ELSE Phase[w]
      <3> SUFFICES ASSUME NEW w \in Workflows
                   PROVE  Phase'[w] = IF Phase[w] = "busy" THEN "begun" ELSE Phase[w]
        OBVIOUS
      <3>1. \A i \in RowIds : ~Running(<<w, i>>)'
        BY <1>8, <1>a DEF Restart, Running, RowType
      <3>2. CASE \E i \in RowIds : Running(<<w, i>>)
        <4>1. PICK i \in RowIds : Running(<<w, i>>)
          BY <3>2
        <4>2. i \in ResumableRows(w)'
          BY <4>1, <1>8, <1>a DEF Restart, Running, RowType, ResumableRows
        <4> QED BY <3>1, <3>2, <4>2 DEF Phase
      <3>3. CASE ~\E i \in RowIds : Running(<<w, i>>)
        <4>1. \A i \in RowIds : rows'[<<w, i>>] = rows[<<w, i>>]
          BY <3>3, <1>8 DEF Restart
        <4> QED BY <3>3, <4>1, PhaseSame DEF Phase
      <3> QED BY <3>2, <3>3
    <2>2. Phase' = [w \in Workflows |-> IF Phase[w] = "busy" THEN "begun" ELSE Phase[w]]
      BY <2>1 DEF Phase
    <2> QED BY <2>2 DEF Promise!Next, Promise!Crash
  <1>9. CASE \/ TickBegins \/ TickPreempts \/ TickEnds \/ WindowTurns \/ StopAll
             \/ \E w \in Workflows : WorkArrives(w) \/ Stop(w)
             \/ \E s \in Starters : KeepWaiting(s)
             \/ \E s \in Starters, w \in Workflows : RunNowWaits(s, w)
             \/ UNCHANGED vars
    BY <1>9, <1>f DEF TickBegins, TickPreempts, TickEnds, WindowTurns, StopAll, WorkArrives,
                      Stop, KeepWaiting, RunNowWaits, vars
  <1> QED
    BY <1>1, <1>2, <1>3, <1>4, <1>5, <1>6, <1>7, <1>8, <1>9
       DEF Next, Requests, Execution, Tick, Environment

LEMMA PromiseInit == Init => Promise!Init
  <1> SUFFICES ASSUME Init, NEW w \in Workflows PROVE Phase[w] = "idle"
    BY DEF Promise!Init, Phase
  <1>1. \A i \in RowIds : rows[<<w, i>>] = FreeRow
    BY DEF Init
  <1>2. (\A i \in RowIds : ~Running(<<w, i>>)) /\ ResumableRows(w) = {}
    BY <1>1 DEF Running, ResumableRows, FreeRow
  <1> QED BY <1>2 DEF Phase

(* Turns on the disks and no work forgotten: the engine, with its rows,    *)
(* its map, its scheduler and its waiting requests, is an implementation   *)
(* of WorkflowPromise while requests do not overlap.                       *)
THEOREM EngineKeepsPromise ==
    ASSUME OneStarter
    PROVE  Spec => KeepsPromise
  <1>1. Init => TypeOK /\ Exclusion
    BY TypeInit, ExclusionInit
  <1>2. TypeOK /\ Exclusion /\ [Next]_vars => (TypeOK /\ Exclusion)'
    BY TypeStep, ExclusionStep
  <1> QED BY <1>1, <1>2, PromiseInit, PromiseStep, PTL DEF Spec, KeepsPromise, Promise!Spec

-----------------------------------------------------------------------------
(* Several requests at once: what is left of the agreement.                *)

(* Whom a start() that is not yet woken waits for is still running, and    *)
(* whatever is left in its snapshot runs or is known to have ended.        *)
Awaited ==
    \A s \in Starters : starter[s].on =>
        /\ ~starter[s].woken => \E r \in starter[s].awaits : Running(r)
        /\ \A r \in starter[s].rest : r \in starter[s].settled \/ Running(r)

Kept == EntriesAreRuns /\ Awaited

LEMMA KeptInit == Init => Kept
  BY DEF Init, Kept, EntriesAreRuns, Awaited, Active, NoStarter

(* No run ends, and the entries that appear are those of runs. *)
LEMMA KeptFrame ==
    ASSUME Kept, UNCHANGED starter,
           \A r \in Runs : Running(r) => Running(r)',
           starter \in [Starters -> StarterType],
           \A w \in Workflows : Active(w)' => Running(ActiveRun(w))'
    PROVE  Kept'
  <1>1. \A s \in Starters : starter[s].awaits \subseteq Runs /\ starter[s].rest \subseteq Runs
    BY DEF StarterType
  <1> QED BY <1>1 DEF Kept, EntriesAreRuns, Awaited

LEMMA BeginKept ==
    ASSUME TypeOK, Kept, NEW w \in Workflows, NEW force \in BOOLEAN, Begin(w, force)
    PROVE  /\ \A r \in Runs : Running(r) => Running(r)'
           /\ \A v \in Workflows : Active(v)' => Running(ActiveRun(v))'
  <1>1. PICK i \in RowIds :
            /\ rows' = [rows EXCEPT ![<<w, i>>] =
                           [state |-> "running", force |-> MergedForce(@.force, force), cursor |-> @.cursor]]
            /\ active' = [active EXCEPT ![w] = i]
    BY DEF Begin
  <1>2. rows \in [Runs -> RowType] /\ active \in [Workflows -> 0..MaxRows] /\ <<w, i>> \in Runs
    BY TypeParts DEF RunsOK
  <1>3. Running(<<w, i>>)' /\ \A r \in Runs : r # <<w, i>> => rows'[r] = rows[r]
    BY <1>1, <1>2 DEF Running
  <1>4. \A r \in Runs : Running(r) => Running(r)'
    BY <1>3 DEF Running
  <1>5. ASSUME NEW v \in Workflows, Active(v)' PROVE Running(ActiveRun(v))'
    <2>1. CASE v = w
      BY <1>1, <1>2, <1>3, <2>1 DEF ActiveRun
    <2>2. CASE v # w
      <3>1. active'[v] = active[v]
        BY <1>1, <1>2, <2>2
      <3>2. Running(<<v, active[v]>>) /\ <<v, active[v]>> # <<w, i>>
        BY <1>5, <2>2, <3>1 DEF Kept, EntriesAreRuns, Active, ActiveRun
      <3>3. active[v] \in RowIds
        BY <1>2, <1>5, <3>1, BoundsAssumption DEF Active
      <3> QED BY <1>4, <3>1, <3>2, <3>3 DEF ActiveRun
    <2> QED BY <2>1, <2>2
  <1> QED BY <1>4, <1>5

(* The end of a run wakes whom it should and is noted by the others. *)
LEMMA EndsKept ==
    ASSUME TypeOK, Kept, NEW r \in Runs, Ends(r), \A q \in Runs : q # r => rows'[q] = rows[q]
    PROVE  Kept'
  <1>1. /\ active \in [Workflows -> 0..MaxRows] /\ starter \in [Starters -> StarterType]
        /\ r[1] \in Workflows
    BY TypeParts DEF RunsOK
  <1>2. EntriesAreRuns'
    <2> SUFFICES ASSUME NEW v \in Workflows, active'[v] # 0 PROVE rows'[<<v, active'[v]>>].state = "running"
      BY DEF EntriesAreRuns, Active, ActiveRun, Running
    <2>1. v # r[1] /\ active'[v] = active[v]
      BY <1>1 DEF Ends
    <2>2. <<v, active[v]>> \in Runs /\ <<v, active[v]>> # r
      BY <1>1, <2>1, BoundsAssumption
    <2>3. rows[<<v, active[v]>>].state = "running"
      BY <2>1 DEF Kept, EntriesAreRuns, Active, ActiveRun, Running
    <2> QED BY <2>1, <2>2, <2>3
  <1>3. Awaited'
    <2> SUFFICES ASSUME NEW s \in Starters, starter'[s].on
                 PROVE  /\ ~starter'[s].woken => \E q \in starter'[s].awaits : Running(q)'
                        /\ \A q \in starter'[s].rest : q \in starter'[s].settled \/ Running(q)'
      BY DEF Awaited
    <2>1. starter[s] \in StarterType
      BY <1>1
    <2>2. starter'[s] = [starter[s] EXCEPT !.woken = @ \/ r \in starter[s].awaits,
                                           !.settled = @ \cup ({r} \cap starter[s].rest)]
      BY DEF Ends
    <2>3. /\ starter'[s].on = starter[s].on /\ starter'[s].rest = starter[s].rest
          /\ starter'[s].awaits = starter[s].awaits
          /\ starter'[s].settled = starter[s].settled \cup ({r} \cap starter[s].rest)
      BY <2>1, <2>2 DEF StarterType
    <2>4. starter'[s].woken = (starter[s].woken \/ r \in starter[s].awaits)
      BY <2>1, <2>2 DEF StarterType
    <2>5. starter[s].awaits \subseteq Runs /\ starter[s].rest \subseteq Runs
      BY <2>1 DEF StarterType
    <2>6. \A q \in Runs : q # r => (Running(q)' <=> Running(q))
      BY DEF Running
    <2>7. ~starter'[s].woken => \E q \in starter'[s].awaits : Running(q)'
      BY <2>3, <2>4, <2>5, <2>6 DEF Kept, Awaited
    <2>8. \A q \in starter'[s].rest : q \in starter'[s].settled \/ Running(q)'
      BY <2>3, <2>5, <2>6 DEF Kept, Awaited
    <2> QED BY <2>7, <2>8
  <1> QED BY <1>2, <1>3 DEF Kept

LEMMA KeptStep == TypeOK /\ Kept /\ [Next]_vars => Kept'
  <1> SUFFICES ASSUME TypeOK, Kept, [Next]_vars PROVE Kept'
    OBVIOUS
  <1>a. /\ rows \in [Runs -> RowType] /\ active \in [Workflows -> 0..MaxRows]
        /\ starter \in [Starters -> StarterType] /\ tick \in TickType
    BY TypeParts DEF RunsOK
  <1>f. ASSUME UNCHANGED <<rows, active, starter>> PROVE Kept'
    BY <1>f DEF Kept, EntriesAreRuns, Awaited, Active, ActiveRun, Running
  <1>b. ASSUME NEW w \in Workflows, NEW force \in BOOLEAN, Begin(w, force), UNCHANGED starter PROVE Kept'
    BY <1>a, <1>b, BeginKept, KeptFrame
  <1>t. ASSUME NEW w \in Workflows, TickStarts(w), UNCHANGED starter PROVE Kept'
    BY <1>t, <1>b, <1>f DEF TickStarts
  <1>1. ASSUME NEW w \in Workflows, Start(w) \/ RunNow(w) PROVE Kept'
    BY <1>1, <1>b DEF Start, RunNow
  <1>2. ASSUME NEW s \in Starters, NEW w \in Workflows, RunNowWaits(s, w) PROVE Kept'
    <2>1. PICK v \in GroupOthers(w) :
            starter' = [starter EXCEPT ![s] =
                  [on |-> TRUE, wf |-> {w}, awaits |-> {ActiveRun(v)},
                   rest |-> {ActiveRun(u) : u \in GroupOthers(w) \ {v}}, settled |-> {}, woken |-> FALSE]]
      BY <1>2 DEF RunNowWaits
    <2>2. UNCHANGED <<rows, active>>
      BY <1>2 DEF RunNowWaits
    <2>3. \A u \in GroupOthers(w) : Running(ActiveRun(u))
      BY WorkflowsAssumption DEF GroupOthers, Kept, EntriesAreRuns
    <2>4. \A x : Running(x)' <=> Running(x)
      BY <2>2 DEF Running
    <2>5. /\ starter'[s].awaits = {ActiveRun(v)}
          /\ starter'[s].rest = {ActiveRun(u) : u \in GroupOthers(w) \ {v}}
          /\ \A z \in Starters : z # s => starter'[z] = starter[z]
      BY <1>a, <2>1
    <2>6. Awaited'
      <3> SUFFICES ASSUME NEW z \in Starters, starter'[z].on
                   PROVE  /\ ~starter'[z].woken => \E r \in starter'[z].awaits : Running(r)'
                          /\ \A r \in starter'[z].rest : r \in starter'[z].settled \/ Running(r)'
        BY DEF Awaited
      <3>1. CASE z = s
        BY <2>3, <2>4, <2>5, <3>1
      <3>2. CASE z # s
        BY <2>4, <2>5, <3>2 DEF Kept, Awaited
      <3> QED BY <3>1, <3>2
    <2> QED BY <2>2, <2>6 DEF Kept, EntriesAreRuns, Active, ActiveRun, Running
  <1>3. ASSUME NEW s \in Starters, KeepWaiting(s) PROVE Kept'
    <2>1. PICK r \in starter[s].rest :
            starter' = [starter EXCEPT ![s].awaits = {r}, ![s].rest = @ \ {r},
                                       ![s].settled = @ \ {r}, ![s].woken = r \in starter[s].settled]
      BY <1>3 DEF KeepWaiting
    <2>2. UNCHANGED <<rows, active>>
      BY <1>3 DEF KeepWaiting
    <2>3. starter[s] \in StarterType
      BY <1>a
    <2>4. /\ starter'[s].awaits = {r} /\ starter'[s].rest = starter[s].rest \ {r}
          /\ starter'[s].settled = starter[s].settled \ {r}
          /\ starter'[s].woken = (r \in starter[s].settled)
          /\ starter'[s].on = starter[s].on
          /\ \A z \in Starters : z # s => starter'[z] = starter[z]
      BY <1>a, <2>1, <2>3 DEF StarterType
    <2>5. \A x : Running(x)' <=> Running(x)
      BY <2>2 DEF Running
    <2>6. Awaited'
      <3> SUFFICES ASSUME NEW z \in Starters, starter'[z].on
                   PROVE  /\ ~starter'[z].woken => \E q \in starter'[z].awaits : Running(q)'
                          /\ \A q \in starter'[z].rest : q \in starter'[z].settled \/ Running(q)'
        BY DEF Awaited
      <3>1. CASE z = s
        BY <2>4, <2>5, <3>1 DEF Kept, Awaited
      <3>2. CASE z # s
        BY <2>4, <2>5, <3>2 DEF Kept, Awaited
      <3> QED BY <3>1, <3>2
    <2> QED BY <2>2, <2>6 DEF Kept, EntriesAreRuns, Active, ActiveRun, Running
  <1>4. ASSUME NEW s \in Starters, RunNowResumes(s) PROVE Kept'
    <2>1. PICK w \in starter[s].wf : Begin(w, TRUE)
      BY <1>4 DEF RunNowResumes
    <2>2. w \in Workflows
      BY <1>a DEF StarterType
    <2>3. /\ \A r \in Runs : Running(r) => Running(r)'
          /\ \A v \in Workflows : Active(v)' => Running(ActiveRun(v))'
      BY <2>1, <2>2, BeginKept
    <2>4. \A z \in Starters : starter'[z] = NoStarter \/ starter'[z] = starter[z]
      BY <1>4, <1>a DEF RunNowResumes
    <2>5. \A z \in Starters : starter[z].awaits \subseteq Runs /\ starter[z].rest \subseteq Runs
      BY <1>a DEF StarterType
    <2> QED BY <2>3, <2>4, <2>5 DEF Kept, EntriesAreRuns, Awaited, NoStarter
  <1>5. ASSUME NEW w \in Workflows, Stop(w) \/ WorkArrives(w) PROVE Kept'
    BY <1>5, <1>f DEF Stop, WorkArrives
  <1>6. ASSUME NEW r \in Runs, SaveCursor(r) PROVE Kept'
    <2>1. \A q \in Runs : Running(q)' <=> Running(q)
      BY <1>6, <1>a DEF SaveCursor, Running, RowType
    <2>2. \A v \in Workflows : Active(v) => ActiveRun(v) \in Runs
      BY <1>a, BoundsAssumption DEF Active, ActiveRun
    <2>3. UNCHANGED <<active, starter>>
      BY <1>6 DEF SaveCursor
    <2>4. \A v \in Workflows : Active(v)' => Running(ActiveRun(v))'
      BY <2>1, <2>2, <2>3 DEF Kept, EntriesAreRuns, Active, ActiveRun
    <2> QED BY <1>a, <2>1, <2>3, <2>4, KeptFrame
  <1>7. ASSUME NEW r \in Runs, Complete(r) \/ Pause(r) \/ Fail(r) PROVE Kept'
    <2>1. \A q \in Runs : q # r => rows'[q] = rows[q]
      BY <1>7, <1>a DEF Complete, Pause, Fail
    <2> QED BY <1>7, <2>1, EndsKept DEF Complete, Pause, Fail
  <1>8. CASE TickBegins \/ TickPreempts \/ TickEnds \/ WindowTurns \/ StopAll \/ UNCHANGED vars
    BY <1>8, <1>f DEF TickBegins, TickPreempts, TickEnds, WindowTurns, StopAll, vars
  <1>9. CASE TickVisits
    <2>1. PICK w \in StartCandidates : TickStarts(w) \/ UNCHANGED <<rows, active>>
      BY <1>9 DEF TickVisits
    <2>2. w \in Workflows
      BY <1>a DEF StartCandidates, TickType
    <2> QED BY <2>1, <2>2, <1>9, <1>t, <1>f DEF TickVisits
  <1>10. CASE TickFresh
    <2>1. PICK w \in tick.at : TickStarts(w) \/ UNCHANGED <<rows, active>>
      BY <1>10 DEF TickFresh
    <2>2. w \in Workflows
      BY <1>a DEF TickType
    <2> QED BY <2>1, <2>2, <1>10, <1>t, <1>f DEF TickFresh
  <1>11. CASE Restart
    BY <1>11 DEF Restart, Kept, EntriesAreRuns, Awaited, Active, NoStarter
  <1> QED
    BY <1>1, <1>2, <1>3, <1>4, <1>5, <1>6, <1>7, <1>8, <1>9, <1>10, <1>11
       DEF Next, Requests, Execution, Tick, Environment

(* However many requests collide, no entry of the active map outlives its  *)
(* run, so isRunning() refuses no start wrongly, and no start() is parked  *)
(* on a promise that has been settled.                                     *)
THEOREM NobodyIsOrphaned == Spec => []NoRequestIsOrphaned
  <1>1. Init => TypeOK /\ Kept
    BY TypeInit, KeptInit
  <1>2. TypeOK /\ Kept /\ [Next]_vars => (TypeOK /\ Kept)'
    BY TypeStep, KeptStep
  <1>3. TypeOK /\ Kept => NoRequestIsOrphaned
    BY DEF Kept, Awaited, NoRequestIsOrphaned, WaitsOnARun
  <1> QED BY <1>1, <1>2, <1>3, PTL DEF Spec
-----------------------------------------------------------------------------
(* One request at a time: progress is never forked, and who waits has been *)
(* heard.                                                                  *)

(* At most one row of a workflow is live, and a failed one is kept only    *)
(* for its cursor, so that the next start finds it.                        *)
Unforked ==
    /\ \A w \in Workflows : \A i, j \in LiveRows(w) : i = j
    /\ \A r \in Runs : rows[r].state = "failed" => rows[r].cursor

Agreed == Exclusion /\ Unforked /\ WaitsOnAStoppedRun

LEMMA AgreedInit == Init => Agreed
  <1> SUFFICES ASSUME Init PROVE Unforked /\ WaitsOnAStoppedRun
    BY ExclusionInit DEF Agreed
  <1>1. Unforked
    BY DEF Init, Unforked, LiveRows, FreeRow
  <1>2. WaitsOnAStoppedRun
    BY DEF Init, WaitsOnAStoppedRun, NoStarter
  <1> QED BY <1>1, <1>2

LEMMA CountOfLiveRows == TypeOK /\ Unforked => OneLiveRow
  <1> SUFFICES ASSUME Unforked, NEW w \in Workflows PROVE Cardinality(LiveRows(w)) <= 1
    BY DEF OneLiveRow
  <1>1. CASE LiveRows(w) = {}
    BY <1>1, FS_EmptySet
  <1>2. CASE LiveRows(w) # {}
    <2>1. PICK i \in LiveRows(w) : TRUE
      BY <1>2
    <2>2. LiveRows(w) = {i}
      BY <2>1 DEF Unforked
    <2>3. Cardinality({i}) = 1
      BY FS_Singleton
    <2> QED BY <2>2, <2>3
  <1> QED BY <1>1, <1>2

(* A start of a workflow that is not running continues the row there is. *)
LEMMA BeginUnforked ==
    ASSUME TypeOK, ActiveIsRunning, Unforked,
           NEW w \in Workflows, NEW force \in BOOLEAN, Begin(w, force), ~Active(w)
    PROVE  Unforked'
  <1>1. PICK i \in RowIds :
            /\ IsRowToRun(w, i)
            /\ rows' = [rows EXCEPT ![<<w, i>>] =
                           [state |-> "running", force |-> MergedForce(@.force, force), cursor |-> @.cursor]]
    BY DEF Begin
  <1>2. rows \in [Runs -> RowType] /\ <<w, i>> \in Runs
    BY TypeParts DEF RunsOK
  <1>3. rows'[<<w, i>>].state = "running" /\ \A r \in Runs : r # <<w, i>> => rows'[r] = rows[r]
    BY <1>1, <1>2
  <1>4. \A j \in RowIds : rows[<<w, j>>].state # "running"
    <2> SUFFICES ASSUME NEW j \in RowIds, rows[<<w, j>>].state = "running" PROVE FALSE
      OBVIOUS
    <2>1. active[w] = j
      BY DEF ActiveIsRunning, Running
    <2> QED BY <2>1, BoundsAssumption DEF Active
  <1>5. LiveRows(w) \subseteq ResumableRows(w)
    <2> SUFFICES ASSUME NEW j \in RowIds, rows[<<w, j>>].state # "free" PROVE j \in ResumableRows(w)
      BY DEF LiveRows
    <2>1. rows[<<w, j>>].state \in {"paused", "failed"}
      BY <1>2, <1>4 DEF RowType, RunStates
    <2> QED BY <2>1 DEF Unforked, ResumableRows
  <1>6. ResumableRows(w) \subseteq LiveRows(w)
    BY DEF ResumableRows, LiveRows
  <1>7. \A j \in RowIds : j # i => rows'[<<w, j>>].state = "free"
    <2> SUFFICES ASSUME NEW j \in RowIds, j # i PROVE rows'[<<w, j>>].state = "free"
      OBVIOUS
    <2>1. rows'[<<w, j>>] = rows[<<w, j>>]
      BY <1>3
    <2>2. j \notin LiveRows(w)
      BY <1>1, <1>5, <1>6 DEF IsRowToRun, IsLast, Unforked
    <2> QED BY <2>1, <2>2 DEF LiveRows
  <1>8. \A v \in Workflows : v # w => LiveRows(v)' = LiveRows(v)
    BY <1>3 DEF LiveRows
  <1>9. \A j, k \in LiveRows(w)' : j = k
    BY <1>7 DEF LiveRows
  <1>10. \A r \in Runs : rows'[r].state = "failed" => rows'[r].cursor
    BY <1>3 DEF Unforked
  <1> QED BY <1>8, <1>9, <1>10 DEF Unforked

(* No row that was free becomes live, and a failed row has a cursor. *)
LEMMA UnforkedFrame ==
    ASSUME Unforked,
           \A r \in Runs : rows'[r].state # "free" => rows[r].state # "free",
           \A r \in Runs : rows'[r].state = "failed" => rows'[r].cursor
    PROVE  Unforked'
  <1>1. \A w \in Workflows : LiveRows(w)' \subseteq LiveRows(w)
    BY DEF LiveRows
  <1> QED BY <1>1 DEF Unforked

(* A run that was asked to stop is not asked to go on. *)
LEMMA HeardFrame ==
    ASSUME WaitsOnAStoppedRun, starter \in [Starters -> StarterType], UNCHANGED starter,
           \A r \in Runs : stop[r] # "none" => stop'[r] # "none"
    PROVE  WaitsOnAStoppedRun'
  <1>1. \A s \in Starters : starter[s].awaits \subseteq Runs
    BY DEF StarterType
  <1> QED BY <1>1 DEF WaitsOnAStoppedRun

(* A start with no continuation pending is of a workflow nobody waits for. *)
LEMMA BeginHeard ==
    ASSUME TypeOK, Agreed, Drained, UNCHANGED starter,
           NEW w \in Workflows, NEW force \in BOOLEAN, Begin(w, force), ~Active(w)
    PROVE  WaitsOnAStoppedRun'
  <1>1. PICK i \in RowIds : stop' = [stop EXCEPT ![<<w, i>>] = "none"]
    BY DEF Begin
  <1>2. stop \in [Runs -> StopReasons]
    BY TypeParts DEF RunsOK
  <1> SUFFICES ASSUME NEW s \in Starters, starter[s].on, NEW r \in starter[s].awaits
               PROVE  stop'[r] # "none"
    BY DEF WaitsOnAStoppedRun
  <1>3. ~starter[s].woken
    BY DEF Drained, Woken
  <1>4. PICK v \in Group : Active(v) /\ starter[s].awaits = {ActiveRun(v)}
    BY <1>3 DEF Agreed, Exclusion, Parked
  <1>5. v # w /\ r = <<v, active[v]>>
    BY <1>4 DEF ActiveRun
  <1>6. r \in Runs
    BY TypeParts DEF StarterType
  <1>7. stop'[r] = stop[r]
    BY <1>1, <1>2, <1>5, <1>6
  <1> QED BY <1>3, <1>7 DEF Agreed, WaitsOnAStoppedRun

(* The end of a run wakes whoever waits for it. *)
LEMMA EndsHeard ==
    ASSUME TypeOK, WaitsOnAStoppedRun, NEW r \in Runs, Ends(r)
    PROVE  WaitsOnAStoppedRun'
  <1> SUFFICES ASSUME NEW s \in Starters, starter'[s].on, ~starter'[s].woken,
                      NEW q \in starter'[s].awaits
               PROVE  stop'[q] # "none"
    BY DEF WaitsOnAStoppedRun
  <1>1. starter[s] \in StarterType /\ stop \in [Runs -> StopReasons]
    BY TypeParts DEF RunsOK
  <1>2. /\ starter'[s] = [starter[s] EXCEPT !.woken = @ \/ r \in starter[s].awaits,
                                            !.settled = @ \cup ({r} \cap starter[s].rest)]
        /\ stop' = [stop EXCEPT ![r] = "none"]
    BY DEF Ends
  <1>3. starter'[s].on = starter[s].on /\ starter'[s].awaits = starter[s].awaits
    BY <1>1, <1>2 DEF StarterType
  <1>4. starter'[s].woken = (starter[s].woken \/ r \in starter[s].awaits)
    BY <1>1, <1>2 DEF StarterType
  <1>5. q # r /\ q \in Runs /\ stop[q] # "none"
    BY <1>1, <1>3, <1>4 DEF StarterType, WaitsOnAStoppedRun
  <1> QED BY <1>1, <1>2, <1>5

LEMMA AgreedStep ==
    ASSUME OneStarter
    PROVE  TypeOK /\ Agreed /\ [Next]_vars => Agreed'
  <1> SUFFICES ASSUME TypeOK, Agreed, [Next]_vars PROVE Agreed'
    OBVIOUS
  <1> DEFINE Goal == Unforked' /\ WaitsOnAStoppedRun'
  <1> SUFFICES Goal
    BY ExclusionStep DEF Agreed
  <1>a. /\ rows \in [Runs -> RowType] /\ active \in [Workflows -> 0..MaxRows]
        /\ stop \in [Runs -> StopReasons]
        /\ starter \in [Starters -> StarterType] /\ tick \in TickType
    BY TypeParts DEF RunsOK
  <1>f. ASSUME UNCHANGED <<rows, starter>>, \A r \in Runs : stop[r] # "none" => stop'[r] # "none"
        PROVE  Goal
    <2>1. Unforked'
      BY <1>f, UnforkedFrame DEF Agreed, Unforked
    <2> QED BY <2>1, <1>f, <1>a, HeardFrame DEF Agreed
  <1>b. ASSUME NEW w \in Workflows, NEW force \in BOOLEAN, Begin(w, force), ~Active(w),
               Drained, UNCHANGED starter
        PROVE  Goal
    BY <1>b, BeginUnforked, BeginHeard DEF Agreed, Exclusion
  <1>t. ASSUME NEW w \in Workflows, TickStarts(w), Drained, UNCHANGED starter PROVE Goal
    <2>1. CASE CanStart(w)
      BY <2>1, <1>t, <1>b DEF TickStarts, CanStart
    <2>2. CASE ~CanStart(w)
      BY <2>2, <1>t, <1>f DEF TickStarts
    <2> QED BY <2>1, <2>2
  <1>1. ASSUME NEW w \in Workflows, Start(w) \/ RunNow(w) PROVE Goal
    BY <1>1, <1>b DEF Start, RunNow, Quiet, CanStart
  <1>2. ASSUME NEW w \in Workflows, Stop(w) PROVE Goal
    BY <1>2, <1>f, <1>a DEF Stop
  <1>3. ASSUME NEW s \in Starters, NEW w \in Workflows, RunNowWaits(s, w) PROVE Goal
    <2>1. PICK v \in GroupOthers(w) :
            /\ stop' = [stop EXCEPT ![ActiveRun(v)] = "manual"]
            /\ starter' = [starter EXCEPT ![s] =
                  [on |-> TRUE, wf |-> {w}, awaits |-> {ActiveRun(v)},
                   rest |-> {ActiveRun(u) : u \in GroupOthers(w) \ {v}}, settled |-> {}, woken |-> FALSE]]
      BY <1>3 DEF RunNowWaits
    <2>2. ActiveRun(v) \in Runs
      BY <1>a, WorkflowsAssumption, BoundsAssumption DEF GroupOthers, Active, ActiveRun
    <2>3. WaitsOnAStoppedRun'
      <3> SUFFICES ASSUME NEW z \in Starters, NEW r \in starter'[z].awaits PROVE stop'[r] # "none"
        BY DEF WaitsOnAStoppedRun
      <3>1. z = s
        BY DEF OneStarter
      <3> QED BY <3>1, <2>1, <2>2, <1>a
    <2>4. UNCHANGED rows
      BY <1>3 DEF RunNowWaits
    <2> QED BY <2>3, <2>4, UnforkedFrame DEF Agreed, Unforked
  <1>4. ASSUME NEW s \in Starters, KeepWaiting(s) PROVE Goal
    BY <1>4 DEF KeepWaiting, Agreed, Exclusion, Parked
  <1>5. ASSUME NEW s \in Starters, RunNowResumes(s) PROVE Goal
    <2>1. PICK w \in starter[s].wf : Begin(w, TRUE)
      BY <1>5 DEF RunNowResumes
    <2>2. w \in Group /\ ~Active(w) /\ w \in Workflows
      BY <2>1, <1>5, WorkflowsAssumption DEF RunNowResumes, Agreed, Exclusion, Parked
    <2>3. Unforked'
      BY <2>1, <2>2, BeginUnforked DEF Agreed, Exclusion
    <2>4. \A t \in Starters : starter'[t] = NoStarter
      BY <1>5, <1>a DEF RunNowResumes, OneStarter
    <2> QED BY <2>3, <2>4 DEF WaitsOnAStoppedRun, NoStarter
  <1>6. ASSUME NEW r \in Runs, SaveCursor(r) PROVE Goal
    <2>1. \A q \in Runs : /\ rows'[q].state = rows[q].state
                          /\ rows[q].cursor => rows'[q].cursor
      BY <1>6, <1>a DEF SaveCursor, RowType
    <2>2. Unforked'
      BY <2>1, UnforkedFrame DEF Agreed, Unforked
    <2> QED BY <2>2, <1>6, <1>a, HeardFrame DEF SaveCursor, Agreed
  <1>7. ASSUME NEW r \in Runs, Complete(r) \/ Pause(r) \/ Fail(r) PROVE Goal
    <2>1. /\ rows[r].state # "free"
          /\ \A q \in Runs : q # r => rows'[q] = rows[q]
          /\ rows'[r].state = "failed" => rows'[r].cursor
      BY <1>7, <1>a DEF Complete, Pause, Fail, Running, FreeRow, RowType
    <2>2. Unforked'
      BY <2>1, UnforkedFrame DEF Agreed, Unforked
    <2>3. WaitsOnAStoppedRun'
      BY <1>7, EndsHeard DEF Agreed, Complete, Pause, Fail
    <2> QED BY <2>2, <2>3
  <1>8. CASE TickBegins \/ StopAll
    BY <1>8, <1>f DEF TickBegins, StopAll
  <1>9. CASE TickPreempts
    <2>1. PICK w \in tick.at :
            stop' = [q \in Runs |-> IF tick.has /\ MakesWay(w, q[1]) /\ active[q[1]] = q[2]
                                   THEN "preempted" ELSE stop[q]]
      BY <1>9 DEF TickPreempts
    <2> QED BY <2>1, <1>9, <1>f DEF TickPreempts
  <1>10. CASE TickVisits
    <2>1. PICK w \in StartCandidates : TickStarts(w) \/ UNCHANGED <<rows, stop>>
      BY <1>10 DEF TickVisits
    <2>2. w \in Workflows
      BY <1>a DEF StartCandidates, TickType
    <2> QED BY <2>1, <2>2, <1>10, <1>t, <1>f DEF TickVisits
  <1>11. CASE TickFresh
    <2>1. PICK w \in tick.at : TickStarts(w) \/ UNCHANGED <<rows, stop>>
      BY <1>11 DEF TickFresh
    <2>2. w \in Workflows
      BY <1>a DEF TickType
    <2> QED BY <2>1, <2>2, <1>11, <1>t, <1>f DEF TickFresh
  <1>12. CASE \/ TickEnds \/ WindowTurns \/ (\E w \in Workflows : WorkArrives(w)) \/ UNCHANGED vars
    BY <1>12, <1>f DEF TickEnds, WindowTurns, WorkArrives, vars
  <1>13. CASE Restart
    <2>1. \A r \in Runs : rows'[r].state # "free" => rows[r].state # "free"
      BY <1>13, <1>a DEF Restart, Running, RowType
    <2>2. \A r \in Runs : rows'[r].state = "failed" => rows'[r].cursor
      BY <1>13, <1>a DEF Restart, Running, RowType, Agreed, Unforked
    <2>3. WaitsOnAStoppedRun'
      BY <1>13 DEF Restart, WaitsOnAStoppedRun, NoStarter
    <2> QED BY <2>1, <2>2, <2>3, UnforkedFrame DEF Agreed
  <1> QED
    BY <1>1, <1>2, <1>3, <1>4, <1>5, <1>6, <1>7, <1>8, <1>9, <1>10, <1>11, <1>12, <1>13
       DEF Next, Requests, Execution, Tick, Environment

(* While requests do not overlap, an execution in progress is one that     *)
(* stop() can reach, a workflow has one row to continue at most, and a     *)
(* start() that waits does so for a run that was asked to stop.            *)
THEOREM OneRequestAgrees ==
    ASSUME OneStarter
    PROVE  Spec => []MapAgreesWithRows
  <1>1. Init => TypeOK /\ Agreed
    BY TypeInit, AgreedInit
  <1>2. TypeOK /\ Agreed /\ [Next]_vars => (TypeOK /\ Agreed)'
    BY TypeStep, AgreedStep
  <1>3. TypeOK /\ Agreed => MapAgreesWithRows
    BY CountOfLiveRows DEF Agreed, Exclusion, MapAgreesWithRows
  <1> QED BY <1>1, <1>2, <1>3, PTL DEF Spec

-----------------------------------------------------------------------------
(* Progress survives everything but success.                               *)

LEMMA CursorStep ==
    TypeOK /\ [Next]_vars =>
        [\A r \in Runs : rows[r].cursor /\ ~rows'[r].cursor => Running(r) /\ ~work'[r[1]]]_vars
  <1> SUFFICES ASSUME TypeOK, Next, NEW r \in Runs, rows[r].cursor, ~rows'[r].cursor
               PROVE  Running(r) /\ ~work'[r[1]]
    BY DEF vars
  <1>a. /\ rows \in [Runs -> RowType] /\ work \in [Workflows -> BOOLEAN] /\ r[1] \in Workflows
        /\ starter \in [Starters -> StarterType] /\ tick \in TickType
    BY TypeParts DEF RunsOK
  <1>b. ASSUME NEW w \in Workflows, NEW force \in BOOLEAN, Begin(w, force) PROVE FALSE
    <2>1. PICK i \in RowIds :
            rows' = [rows EXCEPT ![<<w, i>>] =
                       [state |-> "running", force |-> MergedForce(@.force, force), cursor |-> @.cursor]]
      BY <1>b DEF Begin
    <2>2. rows'[r].cursor = rows[r].cursor
      BY <2>1, <1>a
    <2> QED BY <2>2
  <1>t. ASSUME NEW w \in Workflows, TickStarts(w) PROVE FALSE
    BY <1>t, <1>b DEF TickStarts
  <1>1. ASSUME NEW w \in Workflows, Start(w) \/ RunNow(w) PROVE FALSE
    BY <1>1, <1>b DEF Start, RunNow
  <1>2. ASSUME NEW s \in Starters, RunNowResumes(s) PROVE FALSE
    <2>1. PICK w \in starter[s].wf : Begin(w, TRUE)
      BY <1>2 DEF RunNowResumes
    <2>2. w \in Workflows
      BY <1>a DEF StarterType
    <2> QED BY <2>1, <2>2, <1>b
  <1>3. ASSUME NEW q \in Runs, SaveCursor(q) PROVE FALSE
    BY <1>3, <1>a DEF SaveCursor, RowType
  <1>4. ASSUME NEW q \in Runs, Pause(q) \/ Fail(q) PROVE FALSE
    <2>1. rows'[r].cursor = rows[r].cursor
      BY <1>4, <1>a DEF Pause, Fail, RowType
    <2> QED BY <2>1
  <1>5. ASSUME NEW q \in Runs, Complete(q) PROVE Running(r) /\ ~work'[r[1]]
    <2>1. r = q
      BY <1>5, <1>a DEF Complete
    <2> QED BY <2>1, <1>5, <1>a DEF Complete
  <1>6. CASE TickVisits
    <2>1. PICK w \in StartCandidates : TickStarts(w) \/ UNCHANGED rows
      BY <1>6 DEF TickVisits
    <2>2. w \in Workflows
      BY <1>a DEF StartCandidates, TickType
    <2> QED BY <2>1, <2>2, <1>t
  <1>7. CASE TickFresh
    <2>1. PICK w \in tick.at : TickStarts(w) \/ UNCHANGED rows
      BY <1>7 DEF TickFresh
    <2>2. w \in Workflows
      BY <1>a DEF TickType
    <2> QED BY <2>1, <2>2, <1>t
  <1>8. CASE Restart
    <2>1. rows'[r].cursor = rows[r].cursor
      BY <1>8, <1>a DEF Restart, RowType
    <2> QED BY <2>1
  <1>9. ASSUME \/ TickBegins \/ TickPreempts \/ TickEnds \/ WindowTurns \/ StopAll
               \/ (\E w \in Workflows : WorkArrives(w) \/ Stop(w))
               \/ (\E s \in Starters : KeepWaiting(s))
               \/ (\E s \in Starters, w \in Workflows : RunNowWaits(s, w))
        PROVE  FALSE
    BY <1>9 DEF TickBegins, TickPreempts, TickEnds, WindowTurns, StopAll, WorkArrives, Stop,
                KeepWaiting, RunNowWaits
  <1> QED
    BY <1>1, <1>2, <1>3, <1>4, <1>5, <1>6, <1>7, <1>8, <1>9
       DEF Next, Requests, Execution, Tick, Environment

(* A saved cursor goes only with the run's own completion, which leaves no *)
(* work: not with a stop, a failure, a restart, or a second start, however *)
(* many requests collide.                                                  *)
THEOREM ProgressIsKept == Spec => CursorSurvives
  <1> QED BY TypeInit, TypeStep, CursorStep, PTL DEF Spec, CursorSurvives

=============================================================================
