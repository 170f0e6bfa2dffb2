--------------------------- MODULE WorkflowEngine ---------------------------
(***************************************************************************)
(* The workflow manager of packages/server/src/workflows/engine.ts: who    *)
(* may use the disks, which run a start continues, how a scheduler pass,   *)
(* the window and a "Run now" ask a run to wind down, and what a restart   *)
(* leaves behind.                                                          *)
(*                                                                         *)
(* The server is one event loop, so an action is the code between two      *)
(* awaits.  A run is identified by <<workflow, row>>: rows are numbered    *)
(* per workflow because resumableRun only ever compares rows of one        *)
(* workflow.  Rows that nothing reads again (completed, or failed with no  *)
(* cursor) are history and become free.                                    *)
(***************************************************************************)
EXTENDS Naturals, FiniteSets, Sequences

CONSTANTS
    Workflows,           \* the registered definitions
    Group,               \* those with concurrencyGroup 'io'; the others have none
    Scheduled,           \* respectsSchedule
    Preempts,            \* preempts
    AutoStart,           \* autoStart
    Order,               \* orderedDefinitions(), a sequence
    Starters,            \* requests that may be inside start() at the same time
    MaxRows,             \* bound: rows kept per workflow
    MaxFailures,         \* bound: how many runs may fail
    PauseOutsideWindow,  \* settings.schedule.pauseOutsideWindow
    AutoResume,          \* settings.schedule.autoResume
    TickYields           \* may hasWork() be asynchronous?  The interface allows it
                         \* (boolean | Promise<boolean>); every definition registered
                         \* today answers at once, so a pass is one turn of the loop

ASSUME WorkflowsAssumption ==
    /\ Group \subseteq Workflows
    /\ Scheduled \subseteq Workflows
    /\ Preempts \subseteq Workflows
    /\ AutoStart \subseteq Workflows

ASSUME BoundsAssumption == MaxRows \in Nat \ {0} /\ MaxFailures \in Nat

ASSUME SettingsAssumption == {PauseOutsideWindow, AutoResume, TickYields} \subseteq BOOLEAN

ASSUME OrderAssumption ==
    /\ Order \in Seq(Workflows)
    /\ \A w \in Workflows : \E i \in DOMAIN Order : Order[i] = w
    /\ \A i, j \in DOMAIN Order : Order[i] = Order[j] => i = j

VARIABLES
    rows,      \* workflow_runs: the live row of each run
    active,    \* the `active` map: the row a workflow's entry points to, 0 for none
    stop,      \* ActiveRun.stopReason of each execution
    asked,     \* ghost: executions begun by a start with force, "Run now"
    starter,   \* what each pending start() call is waiting for
    tick,      \* the scheduler pass in progress
    open,      \* windowOpen()
    work,      \* what each definition's hasWork() answers
    failures   \* ghost: failed runs so far, for the bound

vars == <<rows, active, stop, asked, starter, tick, open, work, failures>>

RowIds == 1..MaxRows
Runs == Workflows \X RowIds

RunStates == {"free", "running", "paused", "failed"}
StopReasons == {"none", "manual", "window-closed", "shutdown", "preempted"}

FreeRow == [state |-> "free", force |-> FALSE, cursor |-> FALSE]

(* A start() call that is not in progress. *)
NoStarter == [on |-> FALSE, wf |-> {}, awaits |-> {}, rest |-> {}, settled |-> {}, woken |-> FALSE]
IdleTick == [pc |-> "idle", open |-> FALSE, resumable |-> {}, due |-> {}, todo |-> {}, at |-> {}, has |-> FALSE]

TypeOK ==
    /\ rows \in [Runs -> [state : RunStates, force : BOOLEAN, cursor : BOOLEAN]]
    /\ active \in [Workflows -> 0..MaxRows]
    /\ stop \in [Runs -> StopReasons]
    /\ asked \in SUBSET Runs
    /\ starter \in [Starters -> [on : BOOLEAN, wf : SUBSET Workflows, awaits : SUBSET Runs,
                                 rest : SUBSET Runs, settled : SUBSET Runs, woken : BOOLEAN]]
    /\ tick \in [pc : {"idle", "due", "next", "fresh"}, open : BOOLEAN,
                 resumable : SUBSET Workflows, due : SUBSET Workflows,
                 todo : SUBSET Workflows, at : SUBSET Workflows, has : BOOLEAN]
    /\ open \in BOOLEAN
    /\ work \in [Workflows -> BOOLEAN]
    /\ failures \in 0..MaxFailures

-----------------------------------------------------------------------------
(* What the code asks of its state.                                        *)

Active(w) == active[w] # 0
ActiveRun(w) == <<w, active[w]>>
Running(r) == rows[r].state = "running"

(* Mutant of GroupOthers: a run that was asked to stop counts as gone. *)
GroupOthersNotStopping(w) ==
    IF w \in Group THEN {v \in Group \ {w} : Active(v) /\ stop[ActiveRun(v)] = "none"} ELSE {}

(* The other workflows of w's group with an entry in the active map. *)
GroupOthers(w) == IF w \in Group THEN {v \in Group \ {w} : Active(v)} ELSE {}
GroupBusy(w) == w \in Group /\ \E v \in Group : Active(v)

(* Mutant of ResumableRows: failed runs are never resumed. *)
ResumesPausedOnly(w) == {i \in RowIds : rows[<<w, i>>].state = "paused"}

(* Rows resumableRun() would return one of: paused, or failed with a cursor. *)
ResumableRows(w) ==
    {i \in RowIds : \/ rows[<<w, i>>].state = "paused"
                    \/ rows[<<w, i>>].state = "failed" /\ rows[<<w, i>>].cursor}
LiveRows(w) == {i \in RowIds : rows[<<w, i>>].state # "free"}

IsLast(i, S) == i \in S /\ \A j \in S : j <= i

(* The row a start continues: the latest resumable one, else a new row above all. *)
IsRowToRun(w, i) ==
    \/ IsLast(i, ResumableRows(w))
    \/ /\ ResumableRows(w) = {}
       /\ \A j \in LiveRows(w) : j < i
       /\ \A k \in RowIds : (\A j \in LiveRows(w) : j < k) => i <= k

(* Bound: a start takes place only while a row is left for it and for      *)
(* every request already waiting to start the same workflow.               *)
Room(w) ==
    LET pending == Cardinality({s \in Starters : w \in starter[s].wf}) IN
    \/ pending = 0 /\ ResumableRows(w) # {}
    \/ \A i \in LiveRows(w) \cup {0} : i + pending < MaxRows

Woken == {s \in Starters : starter[s].woken}

(* No continuation is pending: other events run only after these are drained. *)
Drained == Woken = {}
Quiet == Drained /\ (TickYields \/ tick.pc = "idle")

-----------------------------------------------------------------------------
(* start(): lines 223-241, after every check and wait.  The params of the  *)
(* resumed row are merged under the new ones, force last.                  *)
MergedForceKept(old, new) == old \/ new  \* mutant: the old params win

MergedForce(old, new) == new

(* Mutant of Begin: the row is resumed without its cursor. *)
BeginWithoutCursor(w, force) ==
    \E i \in RowIds :
        /\ IsRowToRun(w, i)
        /\ rows' = [rows EXCEPT ![<<w, i>>] = [state |-> "running", force |-> force, cursor |-> FALSE]]
        /\ active' = [active EXCEPT ![w] = i]
        /\ stop' = [stop EXCEPT ![<<w, i>>] = "none"]
        /\ asked' = IF force THEN asked \cup {<<w, i>>} ELSE asked \ {<<w, i>>}

Begin(w, force) ==
    \E i \in RowIds :
        /\ IsRowToRun(w, i)
        /\ rows' = [rows EXCEPT ![<<w, i>>] =
                       [state |-> "running", force |-> MergedForce(@.force, force), cursor |-> @.cursor]]
        /\ active' = [active EXCEPT ![w] = i]
        /\ stop' = [stop EXCEPT ![<<w, i>>] = "none"]
        /\ asked' = IF force THEN asked \cup {<<w, i>>} ELSE asked \ {<<w, i>>}

(* Mutant of CanStart: the pass is trusted to have looked at the window. *)
CanStartAnyTime(w) == ~Active(w) /\ GroupOthers(w) = {} /\ Room(w)

CanStart(w) ==
    /\ ~Active(w)
    /\ w \in Scheduled => open
    /\ GroupOthers(w) = {}
    /\ Room(w)

(* POST /api/workflows/:id/start with force false. *)
Start(w) ==
    /\ Quiet
    /\ CanStart(w)
    /\ Begin(w, FALSE)
    /\ UNCHANGED <<starter, tick, open, work, failures>>

(* Mutant of RunNow: the holder's promise is not awaited. *)
RunNowAtOnce(w) ==
    /\ Quiet
    /\ ~Active(w)
    /\ Room(w)
    /\ Begin(w, TRUE)
    /\ UNCHANGED <<starter, tick, open, work, failures>>

(* "Run now" with the group free: no await before the run begins. *)
RunNow(w) ==
    /\ Quiet
    /\ ~Active(w)
    /\ GroupOthers(w) = {}
    /\ Room(w)
    /\ Begin(w, TRUE)
    /\ UNCHANGED <<starter, tick, open, work, failures>>

(* Mutant of RunNowWaits: the holder is awaited without being asked to stop. *)
RunNowWaitsPolitely(s, w) ==
    /\ Quiet
    /\ ~starter[s].on
    /\ ~Active(w)
    /\ Room(w)
    /\ \E v \in GroupOthers(w) :
        starter' = [starter EXCEPT ![s] =
              [on |-> TRUE, wf |-> {w}, awaits |-> {ActiveRun(v)},
               rest |-> {ActiveRun(u) : u \in GroupOthers(w) \ {v}}, settled |-> {}, woken |-> FALSE]]
    /\ UNCHANGED <<rows, active, stop, asked, tick, open, work, failures>>

(* "Run now" with the group taken: the first holder is asked to stop and awaited. *)
RunNowWaits(s, w) ==
    /\ Quiet
    /\ ~starter[s].on
    /\ ~Active(w)
    /\ Room(w)
    /\ \E v \in GroupOthers(w) :
        /\ stop' = [stop EXCEPT ![ActiveRun(v)] = "manual"]
        /\ starter' = [starter EXCEPT ![s] =
              [on |-> TRUE, wf |-> {w}, awaits |-> {ActiveRun(v)},
               rest |-> {ActiveRun(u) : u \in GroupOthers(w) \ {v}}, settled |-> {}, woken |-> FALSE]]
    /\ UNCHANGED <<rows, active, asked, tick, open, work, failures>>

(* Mutant of KeepWaiting: the end of a run is an event that can be missed. *)
KeepWaitingMissesTheEnd(s) ==
    /\ starter[s].woken
    /\ \E r \in starter[s].rest :
        /\ stop' = IF Active(r[1]) THEN [stop EXCEPT ![ActiveRun(r[1])] = "manual"] ELSE stop
        /\ starter' = [starter EXCEPT ![s].awaits = {r}, ![s].rest = @ \ {r},
                                      ![s].settled = @ \ {r}, ![s].woken = FALSE]
    /\ UNCHANGED <<rows, active, asked, tick, open, work, failures>>

(* The awaited run has ended and the snapshot holds another one: stop the  *)
(* entry that now has its id, and wait for the promise in the snapshot.    *)
KeepWaiting(s) ==
    /\ starter[s].woken
    /\ \E r \in starter[s].rest :
        /\ stop' = IF Active(r[1]) THEN [stop EXCEPT ![ActiveRun(r[1])] = "manual"] ELSE stop
        /\ starter' = [starter EXCEPT ![s].awaits = {r}, ![s].rest = @ \ {r},
                                      ![s].settled = @ \ {r}, ![s].woken = r \in starter[s].settled]
    /\ UNCHANGED <<rows, active, asked, tick, open, work, failures>>

(* The snapshot is exhausted: start, without looking at the map again. *)
RunNowResumes(s) ==
    /\ starter[s].woken
    /\ starter[s].rest = {}
    /\ \E w \in starter[s].wf : Begin(w, TRUE)
    /\ starter' = [starter EXCEPT ![s] = NoStarter]
    /\ UNCHANGED <<tick, open, work, failures>>

(* POST /api/workflows/:id/stop. *)
Stop(w) ==
    /\ Quiet
    /\ Active(w)
    /\ stop' = [stop EXCEPT ![ActiveRun(w)] = "manual"]
    /\ UNCHANGED <<rows, active, asked, starter, tick, open, work, failures>>

(* Mutant of StopAll: a reason StopReason does not know. *)
StopAllAsRestart ==
    /\ Quiet
    /\ stop' = [r \in Runs |-> IF active[r[1]] = r[2] THEN "restart" ELSE stop[r]]
    /\ UNCHANGED <<rows, active, asked, starter, tick, open, work, failures>>

(* stopAll('shutdown'). *)
StopAll ==
    /\ Quiet
    /\ stop' = [r \in Runs |-> IF active[r[1]] = r[2] THEN "shutdown" ELSE stop[r]]
    /\ UNCHANGED <<rows, active, asked, starter, tick, open, work, failures>>

-----------------------------------------------------------------------------
(* execute() and finishRun(): the ways an execution ends.                  *)

(* finally(): the entry of the workflow is deleted, whichever run it names, *)
(* and everyone awaiting this run's promise continues.                      *)
Ends(r) ==
    /\ active' = [active EXCEPT ![r[1]] = 0]
    /\ starter' = [s \in Starters |->
                     [starter[s] EXCEPT !.woken = @ \/ r \in starter[s].awaits,
                                        !.settled = @ \cup ({r} \cap starter[s].rest)]]
    /\ stop' = [stop EXCEPT ![r] = "none"]
    /\ asked' = asked \ {r}
    /\ UNCHANGED <<tick, open>>

(* ctx.setCursor() between two units of work. *)
SaveCursor(r) ==
    /\ Quiet
    /\ Running(r)
    /\ ~rows[r].cursor
    /\ rows' = [rows EXCEPT ![r].cursor = TRUE]
    /\ UNCHANGED <<active, stop, asked, starter, tick, open, work, failures>>

(* run() returned 'completed': finishRun drops the cursor; hasWork is satisfied. *)
Complete(r) ==
    /\ Quiet
    /\ Running(r)
    /\ rows' = [rows EXCEPT ![r] = FreeRow]
    /\ work' = [work EXCEPT ![r[1]] = FALSE]
    /\ Ends(r)
    /\ UNCHANGED failures

(* run() returned 'paused', or threw once asked to stop: the cursor stays. *)
Pause(r) ==
    /\ Quiet
    /\ Running(r)
    /\ rows' = [rows EXCEPT ![r].state = "paused"]
    /\ Ends(r)
    /\ UNCHANGED <<work, failures>>

(* run() threw and nobody had asked it to stop.  The row stays resumable   *)
(* only when it has a cursor.  A benchmark that failed has no work for six *)
(* hours (perf-benchmark.ts); the other definitions still have theirs.     *)
Fail(r) ==
    /\ Quiet
    /\ Running(r)
    /\ stop[r] = "none"
    /\ failures < MaxFailures
    /\ failures' = failures + 1
    /\ rows' = [rows EXCEPT ![r] = IF @.cursor THEN [@ EXCEPT !.state = "failed"] ELSE FreeRow]
    /\ work' = IF r[1] \in Preempts THEN [work EXCEPT ![r[1]] = FALSE] ELSE work
    /\ Ends(r)

-----------------------------------------------------------------------------
(* tick(): one scheduler pass.  It yields at `await hasWork()` and at      *)
(* `await start()`; what it read before a yield it keeps.                  *)

PositionOf(w) == CHOOSE i \in DOMAIN Order : Order[i] = w

(* Mutants of RankOf: work already begun first, whatever is due; definition order. *)
RankByBegun(w, due, resumable) ==
    PositionOf(w) + (IF w \in resumable THEN 0 ELSE IF w \in due THEN Len(Order) ELSE 2 * Len(Order))
RankByOrder(w, due, resumable) == PositionOf(w)

(* `ordered`: due work, then work already begun, then fresh work. *)
RankOf(w, due, resumable) ==
    PositionOf(w) + (IF w \in due THEN 0 ELSE IF w \in resumable THEN Len(Order) ELSE 2 * Len(Order))

IsFirst(w, S, due, resumable) ==
    w \in S /\ \A v \in S : RankOf(w, due, resumable) <= RankOf(v, due, resumable)

DueCandidates(S, isOpen) == {w \in S : w \in Preempts /\ ~Active(w) /\ (w \in Scheduled => isOpen)}

(* Where the first loop goes next: the next hasWork() it awaits, or on to the second. *)
NextDue(t, todo, due) ==
    LET C == DueCandidates(todo, t.open) IN
    IF C = {}
    THEN tick' = [t EXCEPT !.pc = "next", !.todo = AutoStart, !.due = due, !.at = {}, !.has = FALSE]
    ELSE \E w \in C :
           /\ IsFirst(w, C, {}, {})
           /\ tick' = [t EXCEPT !.pc = "due", !.at = {w}, !.has = work[w], !.due = due,
                                !.todo = {v \in todo : PositionOf(v) > PositionOf(w)}]

(* Mutant of WindowClosedOn: runs started by hand are stopped too. *)
WindowClosedOnForced(w) ==
    /\ ~open /\ PauseOutsideWindow
    /\ Active(w) /\ w \in Scheduled
    /\ stop[ActiveRun(w)] = "none"

(* Scheduled runs nobody forced and nobody has stopped yet, when the window shut. *)
WindowClosedOn(w) ==
    /\ ~open /\ PauseOutsideWindow
    /\ Active(w) /\ w \in Scheduled
    /\ ~rows[ActiveRun(w)].force
    /\ stop[ActiveRun(w)] = "none"

TickBegins ==
    /\ Drained
    /\ tick.pc = "idle"
    /\ stop' = [r \in Runs |-> IF WindowClosedOn(r[1]) /\ active[r[1]] = r[2]
                               THEN "window-closed" ELSE stop[r]]
    /\ NextDue([IdleTick EXCEPT !.open = open, !.resumable = {w \in AutoStart : ResumableRows(w) # {}}],
               AutoStart, {})
    /\ UNCHANGED <<rows, active, asked, starter, open, work, failures>>

(* preemptGroup(): whose run in w's group is asked to make way. *)
MakesWay(w, v) ==
    /\ w \in Group /\ v \in Group
    /\ Active(v) /\ v \notin Preempts
    /\ stop[ActiveRun(v)] = "none"
    /\ ~rows[ActiveRun(v)].force

TickPreempts ==
    /\ Drained
    /\ tick.pc = "due"
    /\ \E w \in tick.at :
        /\ stop' = [r \in Runs |-> IF tick.has /\ MakesWay(w, r[1]) /\ active[r[1]] = r[2]
                                   THEN "preempted" ELSE stop[r]]
        /\ NextDue(tick, tick.todo, IF tick.has THEN tick.due \cup {w} ELSE tick.due)
    /\ UNCHANGED <<rows, active, asked, starter, open, work, failures>>

StartCandidates ==
    {w \in tick.todo : /\ w \in Scheduled => tick.open
                       /\ ~Active(w)
                       /\ ~GroupBusy(w)
                       /\ w \in tick.resumable => AutoResume}

AfterInTick(w) ==
    {v \in tick.todo : RankOf(v, tick.due, tick.resumable) > RankOf(w, tick.due, tick.resumable)}

(* `await start()` of a scheduled start: a start that throws is only logged. *)
TickStarts(w) ==
    IF CanStart(w) THEN Begin(w, FALSE) ELSE UNCHANGED <<rows, active, stop, asked>>

TickVisits ==
    /\ Drained
    /\ tick.pc = "next"
    /\ \E w \in StartCandidates :
        /\ IsFirst(w, StartCandidates, tick.due, tick.resumable)
        /\ IF w \in tick.resumable
           THEN /\ TickStarts(w)
                /\ tick' = [tick EXCEPT !.todo = AfterInTick(w)]
           ELSE /\ tick' = [tick EXCEPT !.pc = "fresh", !.at = {w}, !.has = work[w],
                                        !.todo = AfterInTick(w)]
                /\ UNCHANGED <<rows, active, stop, asked>>
    /\ UNCHANGED <<starter, open, work, failures>>

TickFresh ==
    /\ Drained
    /\ tick.pc = "fresh"
    /\ \E w \in tick.at :
        IF tick.has THEN TickStarts(w) ELSE UNCHANGED <<rows, active, stop, asked>>
    /\ tick' = [tick EXCEPT !.pc = "next", !.at = {}, !.has = FALSE]
    /\ UNCHANGED <<starter, open, work, failures>>

TickEnds ==
    /\ Drained
    /\ tick.pc = "next"
    /\ StartCandidates = {}
    /\ tick' = IdleTick
    /\ UNCHANGED <<rows, active, stop, asked, starter, open, work, failures>>

-----------------------------------------------------------------------------
(* The environment, and a restart of the service.                          *)

WindowTurns ==
    /\ Quiet
    /\ open' = ~open
    /\ UNCHANGED <<rows, active, stop, asked, starter, tick, work, failures>>

WorkArrives(w) ==
    /\ Quiet
    /\ ~work[w]
    /\ work' = [work EXCEPT ![w] = TRUE]
    /\ UNCHANGED <<rows, active, stop, asked, starter, tick, open, failures>>

(* The process dies at any point; recoverInterruptedRuns() runs at startup. *)
Restart ==
    /\ rows' = [r \in Runs |-> IF Running(r) THEN [rows[r] EXCEPT !.state = "paused"] ELSE rows[r]]
    /\ active' = [w \in Workflows |-> 0]
    /\ stop' = [r \in Runs |-> "none"]
    /\ starter' = [s \in Starters |-> NoStarter]
    /\ tick' = IdleTick
    /\ asked' = {}
    /\ UNCHANGED <<open, work, failures>>

Init ==
    /\ rows = [r \in Runs |-> FreeRow]
    /\ active = [w \in Workflows |-> 0]
    /\ stop = [r \in Runs |-> "none"]
    /\ asked = {}
    /\ starter = [s \in Starters |-> NoStarter]
    /\ tick = IdleTick
    /\ open \in BOOLEAN
    /\ work \in [Workflows -> BOOLEAN]
    /\ failures = 0

Tick == TickBegins \/ TickPreempts \/ TickVisits \/ TickFresh \/ TickEnds

Execution(r) == SaveCursor(r) \/ Complete(r) \/ Pause(r) \/ Fail(r)

Requests ==
    \/ \E w \in Workflows : Start(w) \/ RunNow(w) \/ Stop(w)
    \/ \E s \in Starters, w \in Workflows : RunNowWaits(s, w)
    \/ \E s \in Starters : KeepWaiting(s) \/ RunNowResumes(s)

Environment ==
    \/ WindowTurns
    \/ \E w \in Workflows : WorkArrives(w)
    \/ StopAll
    \/ Restart

Next ==
    \/ Requests
    \/ \E r \in Runs : Execution(r)
    \/ Tick
    \/ Environment

Spec == Init /\ [][Next]_vars

-----------------------------------------------------------------------------
(* Fairness.  The scheduler's timer keeps firing and a pass does not hang; *)
(* a run that was asked to stop polls shouldContinue() between units of    *)
(* work and winds down (strong fairness: the event loop serves it between  *)
(* two passes however often the timer fires).  Nothing says that operators *)
(* act, that windows turn, or that a run that nobody stops ever ends.      *)
WindsDown(r) == stop[r] # "none" /\ (Pause(r) \/ Complete(r))

Fairness ==
    /\ WF_vars(Tick)
    /\ \A r \in Runs : SF_vars(WindsDown(r))
    /\ \A s \in Starters : WF_vars(KeepWaiting(s) \/ RunNowResumes(s))

FairSpec == Spec /\ Fairness

(* The scheduler left to itself: no requests, no restarts. *)
SchedulerNext ==
    \/ \E r \in Runs : Execution(r)
    \/ Tick
    \/ WindowTurns
    \/ \E w \in Workflows : WorkArrives(w)

(* From some moment on the window is open, nobody interferes, and nothing  *)
(* started by hand is going on.                                            *)
LeftToTheScheduler == <>[][SchedulerNext]_vars /\ <>[](open /\ asked = {})

(* A run resumed from its cursor again and again reaches its end. *)
RunsEnd == \A r \in Runs : SF_vars(Complete(r))

(* "Run now" pressed again and again outside the window, with nothing due:  *)
(* what the scheduler does not touch.                                       *)
RunNowNext ==
    \/ \E w \in Workflows : RunNow(w)
    \/ \E s \in Starters, w \in Workflows : RunNowWaits(s, w)
    \/ \E s \in Starters : KeepWaiting(s) \/ RunNowResumes(s)
    \/ \E r \in Runs : Complete(r) \/ Pause(r)

RunNowInit == Init /\ ~open /\ \A w \in Workflows : ~work[w]

RunNowSpec == RunNowInit /\ [][RunNowNext]_vars /\ Fairness

-----------------------------------------------------------------------------
(* Properties.                                                             *)

(* "Only one workflow per group runs at a time" (engine.ts:51): executions, *)
(* whether or not the active map still knows them.                          *)
OneRunPerGroup ==
    \A r, q \in Runs :
        r[1] \in Group /\ q[1] \in Group /\ Running(r) /\ Running(q) => r = q

(* The promise of WorkflowPromise is kept: turns on the disks with an end  *)
(* between them, and nothing that has begun goes back to idle without      *)
(* having run, across stops, preemption, failures and restarts.            *)
Phase ==
    [w \in Workflows |-> IF \E i \in RowIds : Running(<<w, i>>) THEN "busy"
                         ELSE IF ResumableRows(w) # {} THEN "begun" ELSE "idle"]

Promise == INSTANCE WorkflowPromise WITH phase <- Phase

KeepsPromise == Promise!Spec

(* The active map and the run rows agree: an entry is an execution in      *)
(* progress, and an execution in progress is one stop() can reach.         *)
ActiveIsRunning == \A r \in Runs : Running(r) <=> active[r[1]] = r[2]

(* Half of it holds however many requests collide: an entry is never left  *)
(* behind by a run that has ended, so isRunning() refuses no start wrongly. *)
EntriesAreRuns == \A w \in Workflows : Active(w) => Running(ActiveRun(w))

(* Progress is never forked: a workflow has one row to continue at most,   *)
(* so no start leaves a half-done run behind for a fresh one.              *)
OneLiveRow == \A w \in Workflows : Cardinality(LiveRows(w)) <= 1

(* A start() in flight waits for a run that is still there: it is never    *)
(* parked on one that has ended.                                           *)
WaitsOnARun ==
    \A s \in Starters : starter[s].on /\ ~starter[s].woken =>
        \E r \in starter[s].awaits : Running(r)

(* ... and that has been asked to stop, so the request gets its turn. *)
WaitsOnAStoppedRun ==
    \A s \in Starters : starter[s].on /\ ~starter[s].woken =>
        \A r \in starter[s].awaits : stop[r] # "none"

(* Rows, active map and waiting requests agree, with one request inside    *)
(* start() at a time: an execution in progress is one that stop() can      *)
(* reach, progress is never forked, and who waits waits for a run that was *)
(* asked to end.                                                           *)
MapAgreesWithRows == ActiveIsRunning /\ OneLiveRow /\ WaitsOnAStoppedRun

(* What is left of it with several requests: an entry of the active map is *)
(* never orphaned, so isRunning() refuses no start wrongly, and no request *)
(* is parked on a run that has ended.                                      *)
NoRequestIsOrphaned == EntriesAreRuns /\ WaitsOnARun

(* "A run the operator starts by hand ignores window boundaries entirely"  *)
(* (engine.ts:130), and is not preempted either.                           *)
ForcedLeftAlone ==
    [][\A r \in asked : stop'[r] # stop[r] => stop'[r] \notin {"window-closed", "preempted"}]_vars

(* Heavy I/O that nobody asked for begins inside the window only, however  *)
(* old the scheduler pass's own reading of the clock is.                   *)
BeginsInsideTheWindow ==
    [][\A w \in Scheduled :
          ~Active(w) /\ active'[w] # 0 /\ <<w, active'[w]>> \notin asked' => open]_vars

(* A saved cursor is lost only by completing: no stop, failure, restart,   *)
(* resume or second start sends a run back to its beginning.               *)
CursorSurvives ==
    [][\A r \in Runs : rows[r].cursor /\ ~rows'[r].cursor => Running(r) /\ ~work'[r[1]]]_vars

(* "Run now" means now: a request that has to wait gets its run. *)
RunNowStarts == \A s \in Starters : starter[s].on ~> ~starter[s].on

(* Once the window has closed for good, only runs started by hand go on. *)
WindowCloseIsObeyed ==
    <>[]~open => <>[](\A r \in Runs : Running(r) /\ r[1] \in Scheduled => r \in asked)

(* "Due preempting work first": a due benchmark gets the disks while the   *)
(* window is open even if the run that holds them would never end.         *)
PreemptingGetsTheDisks ==
    LeftToTheScheduler => \A p \in Preempts : work[p] ~> (Active(p) \/ ~work[p])

(* "Work already begun, before work not yet begun": while the window is    *)
(* open and no benchmark is due, a half-done run is taken up again however  *)
(* often other workflows have fresh work.                                   *)
HalfDoneIsTakenUp ==
    LeftToTheScheduler /\ RunsEnd /\ <>[](\A p \in Preempts : ~work[p]) =>
        \A w \in AutoStart : (ResumableRows(w) # {}) ~> Active(w)
=============================================================================
