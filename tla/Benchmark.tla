----------------------------- MODULE Benchmark -----------------------------
(***************************************************************************)
(* The performance benchmark (perf-benchmark.ts, perf-service.ts, perf-    *)
(* analysis.ts and the agent's side of it): a run measures the container's *)
(* own storage, hands the disks to an agent as one job, and judges what    *)
(* came back.  A job that falls silent is given to another agent while the *)
(* first may still be at work; the I/O window closes and opens.            *)
(***************************************************************************)
EXTENDS Integers, Sequences, FiniteSets, Functions

CONSTANTS
    Benches,      \* the disks of one pool, in the order of their labels
    MayMeasure,      \* of each disk: what measuring it may give
    BenchAgents,  \* the agents
    MaxBenches,   \* bound: runs
    MaxUpsets     \* bound: closings of the window, silences, failures, restarts

Container == "container"
Disks == {Benches[i] : i \in DOMAIN Benches}

ASSUME BenchmarkAssumption ==
  /\ Benches \in Seq(Disks) /\ Container \notin Disks
  /\ MayMeasure \in [Disks -> SUBSET {"fast", "slow", "cached", "error", "skipped"}]
  /\ MaxBenches \in Nat \ {0} /\ MaxUpsets \in Nat

VARIABLES
    perfResults,  \* the rows of perf_results: run, target, what was measured
    bench,        \* the run: its number, its step, whether it will be resumed, what was done when it began
    benchDue,     \* intervalDays have passed
    benchJob,     \* the newest job: its state, its run, its targets, cancel_requested
    benchAgent,   \* of each agent: the targets it has left, whether it was told to stop
    benchAlerts,  \* the open alerts: <<"error", d>>, <<"slow", d>>, <<"unavailable">>
    benchWindow,  \* the I/O window is open
    evaluated,    \* ghost: rows that an evaluation has read
    orphaned,     \* ghost: a run was judged while its job was still outstanding
    upsets        \* ghost: counter for the bound

benchVars == <<perfResults, bench, benchDue, benchJob, benchAgent, benchAlerts, benchWindow, evaluated, orphaned, upsets>>

PerfRow(run, target, what) == [run |-> run, target |-> target, what |-> what]
Rows(run) == {i \in DOMAIN perfResults : perfResults[i].run = run}
DoneBy(run) == {perfResults[i].target : i \in Rows(run)}

Usable(i) == perfResults[i].what \notin {"error", "skipped"}

-----------------------------------------------------------------------------
(* Judging a disk, by the speed it was read at.                            *)
Speed(what) == IF what = "fast" THEN 4 ELSE 1

SpeedsOf(rows) == [i \in {j \in rows : perfResults[j].what \in {"fast", "slow"}} |-> Speed(perfResults[i].what)]

\* The k-th smallest of some speeds, and twice their median, 0 when there are none.
Nth(speeds, k) ==
  CHOOSE v \in Range(speeds) : /\ Cardinality({i \in DOMAIN speeds : speeds[i] < v}) < k
                               /\ k <= Cardinality({i \in DOMAIN speeds : speeds[i] <= v})
Median2(speeds) ==
  LET n == Cardinality(DOMAIN speeds)
  IN IF n = 0 THEN 0 ELSE Nth(speeds, (n + 1) \div 2) + Nth(speeds, n \div 2 + 1)

\* Below slowFraction, one half, of the median of at least two.
Falls(i, rows) ==
  /\ Cardinality(rows) >= 2 /\ perfResults[i].what \in {"fast", "slow"}
  /\ 4 * Speed(perfResults[i].what) < Median2(SpeedsOf(rows))

Peers(i) == {j \in Rows(perfResults[i].run) \ {i} : perfResults[j].target \in Disks /\ Usable(j)}

\* A target's last five usable results before this one.
Earlier(i) == {j \in 1..(i - 1) : perfResults[j].target = perfResults[i].target /\ Usable(j)}
History(i) == {j \in Earlier(i) : Cardinality({k \in Earlier(i) : k > j}) < 5}

\* slownessOf(): in what the disk falls short, of its peers or of its past.
IsSlow(i) == Usable(i) /\ (Falls(i, Peers(i)) \/ Falls(i, History(i)))

\* What the page shows of a disk, from its newest row.
Newest(d) == {i \in DOMAIN perfResults : perfResults[i].target = d
                 /\ \A j \in DOMAIN perfResults : perfResults[j].target = d => j <= i}
ShownSlow(d) == \E i \in Newest(d) : IsSlow(i)

\* Mutant of Judged: the error of an earlier run stays.
JudgedErrorStays(open, i) ==
  LET row == perfResults[i] d == row.target
  IN IF row.what = "error" THEN open \cup {<<"error", d>>}
     ELSE IF row.what = "skipped" THEN open
     ELSE (open \ {<<"slow", d>>}) \cup (IF IsSlow(i) THEN {<<"slow", d>>} ELSE {})

\* One turn of evaluateRun()'s loop.
Judged(open, i) ==
  LET row == perfResults[i] d == row.target
      open2 == open \ {<<"error", d>>}
  IN IF row.what = "error" THEN open \cup {<<"error", d>>}
     ELSE IF row.what = "skipped" THEN open2
     ELSE (open2 \ {<<"slow", d>>}) \cup (IF IsSlow(i) THEN {<<"slow", d>>} ELSE {})

\* evaluateRun(): only the disks the run has rows of are touched.
Evaluated(open) ==
  LET turn[n \in 0..Len(perfResults)] ==
        IF n = 0 THEN open
        ELSE IF n \in Rows(bench.run) /\ perfResults[n].target \in Disks THEN Judged(turn[n - 1], n)
        ELSE turn[n - 1]
  IN turn[Len(perfResults)]

\* The run is over, which counts as a benchmark whoever measured what.
Stopped == [bench EXCEPT !.pc = "off", !.done = {}]

BenchCompletes(open) ==
  /\ benchAlerts' = Evaluated(open)
  /\ evaluated' = evaluated \cup Rows(bench.run)
  /\ bench' = Stopped /\ benchDue' = FALSE

BenchPauses ==
  /\ bench' = [Stopped EXCEPT !.half = TRUE]
  /\ UNCHANGED <<benchAlerts, evaluated, benchDue>>

-----------------------------------------------------------------------------
BenchAt(pc) == bench.pc = pc

\* What the run has measured so far is looked up once, at its beginning.
BenchBegins ==
  /\ BenchAt("off") /\ benchWindow
  /\ bench.half \/ benchDue
  /\ LET run == IF bench.half THEN bench.run ELSE bench.run + 1
     IN bench' = [run |-> run, pc |-> "container", half |-> FALSE, done |-> DoneBy(run)]
  /\ UNCHANGED <<perfResults, benchDue, benchJob, benchAgent, benchAlerts, benchWindow, evaluated, orphaned, upsets>>

\* Awaits; a window that closed meanwhile is noticed at the next target, of
\* which there is no other here.
MeasuresContainer ==
  /\ BenchAt("container")
  /\ \/ ~benchWindow /\ BenchPauses /\ UNCHANGED perfResults
     \/ /\ benchWindow
        /\ bench' = [bench EXCEPT !.pc = "targets"]
        /\ perfResults' = IF Container \in bench.done THEN perfResults
                          ELSE Append(perfResults, PerfRow(bench.run, Container, "fast"))
        /\ UNCHANGED <<benchAlerts, evaluated, benchDue>>
  /\ UNCHANGED <<benchJob, benchAgent, benchWindow, orphaned, upsets>>

Outstanding == benchJob.state \in {"queued", "claimed"}

\* Some of the disks, in the order of their labels.
InOrder(ds) ==
  LET upTo[n \in 0..Len(Benches)] ==
        IF n = 0 THEN <<>>
        ELSE IF Benches[n] \in ds THEN Append(upTo[n - 1], Benches[n])
        ELSE upTo[n - 1]
  IN upTo[Len(Benches)]

\* buildTargets(): a disk short of space gets a row that says so, the others
\* not done go to an agent, in the job that is already outstanding if one is.
HandsOut ==
  /\ BenchAt("targets")
  /\ \E tight \in SUBSET {d \in Disks : "skipped" \in MayMeasure[d]} :
       LET short == InOrder(tight \ bench.done)
           rest == InOrder((Disks \ tight) \ bench.done)
       IN /\ perfResults' = perfResults \o [i \in DOMAIN short |-> PerfRow(bench.run, short[i], "skipped")]
          /\ IF rest = <<>>
             THEN bench' = [bench EXCEPT !.pc = "judge"] /\ UNCHANGED <<benchJob, benchAgent>>
             ELSE /\ bench' = [bench EXCEPT !.pc = "wait"]
                  /\ IF Outstanding THEN UNCHANGED <<benchJob, benchAgent>>
                     ELSE /\ benchJob' = [state |-> "queued", run |-> bench.run, targets |-> rest, cancel |-> FALSE]
                          /\ benchAgent' = [a \in BenchAgents |-> [benchAgent[a] EXCEPT !.old = TRUE]]
  /\ UNCHANGED <<benchDue, benchAlerts, benchWindow, evaluated, orphaned, upsets>>

\* Nothing was left to measure.  After a restart the job may be outstanding all
\* the same, in the hands of an agent that measures a second time.
JudgesAtOnce ==
  /\ BenchAt("judge") /\ BenchCompletes(benchAlerts)
  /\ orphaned' = (orphaned \/ Outstanding)
  /\ UNCHANGED <<perfResults, benchJob, benchAgent, benchWindow, upsets>>

\* One turn of the loop that waits for the job.
NobodyClaims ==
  /\ BenchAt("wait") /\ benchJob.state = "queued"
  /\ benchJob' = [benchJob EXCEPT !.state = "cancelled"]
  /\ BenchCompletes(benchAlerts \cup {<<"unavailable">>})
  /\ UNCHANGED <<perfResults, benchAgent, benchWindow, orphaned, upsets>>

NoticesWindow ==
  /\ BenchAt("wait") /\ ~benchWindow /\ Outstanding
  /\ \/ /\ benchJob.state = "queued"
        /\ benchJob' = [benchJob EXCEPT !.state = "cancelled", !.cancel = TRUE] /\ BenchPauses
     \/ /\ benchJob.state = "claimed" /\ ~benchJob.cancel
        /\ benchJob' = [benchJob EXCEPT !.cancel = TRUE]
        /\ UNCHANGED <<bench, benchAlerts, evaluated, benchDue>>
  /\ UNCHANGED <<perfResults, benchAgent, benchWindow, orphaned, upsets>>

SeesTheEnd ==
  /\ BenchAt("wait") /\ ~Outstanding
  /\ \/ benchJob.state = "completed" /\ BenchCompletes(benchAlerts \ {<<"unavailable">>})
     \/ benchJob.state = "paused" /\ BenchPauses
     \/ benchJob.state \in {"failed", "cancelled"} /\ BenchCompletes(benchAlerts)
  /\ UNCHANGED <<perfResults, benchJob, benchAgent, benchWindow, orphaned, upsets>>

-----------------------------------------------------------------------------
Upset == upsets < MaxUpsets /\ upsets' = upsets + 1
IdleBench == [on |-> FALSE, old |-> FALSE, stop |-> FALSE, left |-> <<>>]
StartsOn(a) ==
  /\ benchJob' = [benchJob EXCEPT !.state = "claimed"]
  /\ benchAgent' = [benchAgent EXCEPT ![a] = [IdleBench EXCEPT !.on = TRUE, !.left = benchJob.targets]]

\* A claim gives out the queued job; or one whose holder has been silent for
\* 300 s, which goes back to the queue and out again in the same call.
BenchClaims(a) ==
  /\ ~benchAgent[a].on
  /\ \/ benchJob.state = "queued" /\ UNCHANGED upsets
     \/ benchJob.state = "claimed" /\ Upset
  /\ StartsOn(a)
  /\ UNCHANGED <<perfResults, bench, benchDue, benchAlerts, benchWindow, evaluated, orphaned>>

\* The batch route takes rows only of a job that is claimed, by whomever.
Takes(a) == benchJob.state = "claimed" /\ ~benchAgent[a].old

\* Measures the next target and posts it; the reply says whether to go on.
Measures(a) ==
  LET me == benchAgent[a] d == Head(me.left)
      goOn == Takes(a) /\ ~benchJob.cancel
  IN /\ me.on /\ ~me.stop /\ me.left # <<>>
     /\ \E what \in MayMeasure[d] \ {"skipped"} :
          perfResults' = IF Takes(a) THEN Append(perfResults, PerfRow(benchJob.run, d, what)) ELSE perfResults
     /\ benchAgent' = [benchAgent EXCEPT ![a].left = Tail(@), ![a].stop = ~goOn /\ Len(me.left) > 1]
     /\ UNCHANGED <<bench, benchDue, benchJob, benchAlerts, benchWindow, evaluated, orphaned, upsets>>

\* The finish route asks neither who holds the job nor in which state it is.
BenchEnds(a, state) ==
  /\ benchJob' = IF benchAgent[a].old THEN benchJob ELSE [benchJob EXCEPT !.state = state]
  /\ benchAgent' = [benchAgent EXCEPT ![a] = IdleBench]
  /\ UNCHANGED <<perfResults, bench, benchDue, benchAlerts, benchWindow, evaluated, orphaned>>

BenchFinishes(a) ==
  /\ benchAgent[a].on /\ (benchAgent[a].stop \/ benchAgent[a].left = <<>>)
  /\ BenchEnds(a, IF benchAgent[a].stop THEN "paused" ELSE "completed")
  /\ UNCHANGED upsets

BenchFails(a) == benchAgent[a].on /\ Upset /\ BenchEnds(a, "failed")

BenchAgentDies(a) ==
  /\ benchAgent[a].on /\ Upset
  /\ benchAgent' = [benchAgent EXCEPT ![a] = IdleBench]
  /\ UNCHANGED <<perfResults, bench, benchDue, benchJob, benchAlerts, benchWindow, evaluated, orphaned>>

WindowMoves ==
  /\ benchWindow' = ~benchWindow
  /\ IF benchWindow THEN Upset ELSE UNCHANGED upsets
  /\ UNCHANGED <<perfResults, bench, benchDue, benchJob, benchAgent, benchAlerts, evaluated, orphaned>>

\* The service restarts and will resume the run under its number.
BenchServiceDies ==
  /\ ~BenchAt("off") /\ Upset
  /\ bench' = [Stopped EXCEPT !.half = TRUE]
  /\ UNCHANGED <<perfResults, benchDue, benchJob, benchAgent, benchAlerts, benchWindow, evaluated, orphaned>>

BenchComesDue ==
  /\ BenchAt("off") /\ ~bench.half /\ ~benchDue /\ bench.run < MaxBenches
  /\ benchDue' = TRUE
  /\ UNCHANGED <<perfResults, bench, benchJob, benchAgent, benchAlerts, benchWindow, evaluated, orphaned, upsets>>

InitBench ==
  /\ perfResults = <<>> /\ bench = [run |-> 0, pc |-> "off", half |-> FALSE, done |-> {}] /\ benchDue = TRUE
  /\ benchJob = [state |-> "none", run |-> 0, targets |-> <<>>, cancel |-> FALSE]
  /\ benchAgent = [a \in BenchAgents |-> IdleBench]
  /\ benchAlerts = {} /\ benchWindow = TRUE /\ evaluated = {} /\ orphaned = FALSE /\ upsets = 0

NextBench ==
  \/ BenchBegins \/ MeasuresContainer \/ HandsOut \/ JudgesAtOnce
  \/ NobodyClaims \/ NoticesWindow \/ SeesTheEnd
  \/ \E a \in BenchAgents : BenchClaims(a) \/ Measures(a) \/ BenchFinishes(a) \/ BenchFails(a) \/ BenchAgentDies(a)
  \/ WindowMoves \/ BenchServiceDies \/ BenchComesDue

BenchSpec == InitBench /\ [][NextBench]_benchVars

-----------------------------------------------------------------------------
BenchTypeOK ==
  /\ \A i \in DOMAIN perfResults :
       perfResults[i] \in [run : 1..MaxBenches, target : Disks \cup {Container},
                           what : {"fast", "slow", "cached", "error", "skipped"}]
  /\ bench \in [run : 0..MaxBenches, pc : {"off", "container", "targets", "judge", "wait"}, half : BOOLEAN,
                done : SUBSET (Disks \cup {Container})]
  /\ benchJob.state \in {"none", "queued", "claimed", "paused", "completed", "failed", "cancelled"}
  /\ evaluated \subseteq DOMAIN perfResults

(* Whatever was measured twice, late, in part or by two agents at once,    *)
(* when no run is under way or to be resumed every row has been judged,    *)
(* the error alert of a disk says what its newest row says, and the slow   *)
(* alert what the page shows of it, from its newest usable row.  Only a    *)
(* run judged while its job was outstanding can miss rows.                 *)
MeasurementsAreJudged ==
  BenchAt("off") /\ ~bench.half /\ ~orphaned =>
    /\ evaluated = DOMAIN perfResults
    /\ \A d \in Disks : \A i \in Newest(d) :
         /\ <<"error", d>> \in benchAlerts <=> perfResults[i].what = "error"
         /\ Usable(i) => (<<"slow", d>> \in benchAlerts <=> ShownSlow(d))
=============================================================================
