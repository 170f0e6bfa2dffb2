----------------------------- MODULE AgentScan -----------------------------
(***************************************************************************)
(* The scan of one catalog root across the process boundary: the workflow  *)
(* that owns the catalog run and polls (workflows/catalog-scan.ts), the    *)
(* job queue (services/agent-job-service.ts), the requests of the agents   *)
(* (routes/agent.ts), the walk on the host (agent/SakuraDriveAgent.ps1)    *)
(* and what is recorded and swept (services/catalog-service.ts).           *)
(*                                                                         *)
(* A worklist is a set of pairs <<d, n>>: directory d, of whose listing    *)
(* the first n entries are passed over ("dir|n" in the code, plain "dir"   *)
(* for n = 0).  n counts places, not names: it is applied to the listing   *)
(* of the moment the walk comes back.  The order in which a walk takes the *)
(* directories matters to nothing stated here.  Time is left out: how long *)
(* a job has waited, or an agent has been silent, is a choice.             *)
(***************************************************************************)
EXTENDS Naturals, FiniteSets

CONSTANTS
    Entries, Top,      \* directories, and the one the walk starts from
    Children,          \* the directories in each
    Files, In,         \* the files a catalog may know, and the directory each is in
    Rank,              \* the order in which a directory lists what is in it
    BatchSize,         \* files in one batch
    Agents,            \* hosts that ask for work
    MaxJobs,           \* bound: rows of agent_jobs something may still refer to
    MaxRuns,           \* bound: catalog runs
    MaxFaults,         \* bound: lost calls, dead agents and restarts
    Volatile,          \* bound: the files that may come and go
    Unreadable,        \* directories that may turn out to be unreadable
    InTime,            \* nothing is slower than the code expects: no agent is silent for
                       \* five minutes while it is alive, and a batch that is being
                       \* recorded is done before the next scan begins
    RootStays          \* the root is not taken out of the settings meanwhile

ASSUME TreeAssumption ==
    /\ IsFiniteSet(Entries) /\ IsFiniteSet(Files) /\ Files \cap Entries = {}
    /\ Top \in Entries
    /\ Children \in [Entries -> SUBSET Entries]
    /\ In \in [Files -> Entries]
    /\ \A S \in SUBSET Entries :  \* every file is somewhere under the top
          Top \in S /\ (\A d \in S : Children[d] \subseteq S) => \A f \in Files : In[f] \in S
    /\ Rank \in [Files \cup Entries -> Nat]
    /\ \A x, y \in Files \cup Entries : Rank[x] = Rank[y] => x = y
    /\ Volatile \subseteq Files /\ Unreadable \subseteq Entries

ASSUME BoundsAssumption ==
    /\ MaxJobs \in Nat \ {0} /\ MaxRuns \in Nat \ {0} /\ MaxFaults \in Nat
    /\ BatchSize \in Nat \ {0}
    /\ {InTime, RootStays} \subseteq BOOLEAN

VARIABLES
    disk,     \* the files that exist
    live,     \* files rows with deleted_at null
    seen,     \* their last_run_id; 0 is a run before these
    runs,     \* catalog_runs.state
    wf,       \* the execution of catalog.scan and its local state
    saved,    \* the cursor of the workflow run; run 0 is no cursor
    jobs,     \* agent_jobs
    agents,   \* the job loop of each agent
    calls,    \* the batch request of each agent, on its way or being served
    span,     \* ghost: how each file has been since the latest catalog run began
    faults    \* ghost: faults so far, for the bound

vars == <<disk, live, seen, runs, wf, saved, jobs, agents, calls, span, faults>>

Worklist == SUBSET (Entries \X Nat)
JobIds == 1..MaxJobs
RunIds == 1..MaxRuns

NoJob == [state |-> "none", cursor |-> {}, cancel |-> FALSE, aged |-> FALSE, run |-> 0]
NoWf == [pc |-> "off", run |-> 0, job |-> 0, asked |-> FALSE]
NoCursor == [run |-> 0, list |-> {}]
IdleAgent == [pc |-> "idle", job |-> 0, list |-> {}]
NoCall == [stage |-> "none", job |-> 0, todo |-> {}, list |-> {}]

EndStates == {"completed", "paused", "failed"}

TypeOK ==
    /\ disk \subseteq Files /\ live \subseteq Files
    /\ seen \in [Files -> 0..MaxRuns]
    /\ runs \in [RunIds -> {"none", "running", "completed", "failed"}]
    /\ wf \in [pc : {"off", "polling", "sweeping", "rollup"}, run : 0..MaxRuns,
               job : 0..MaxJobs, asked : BOOLEAN]
    /\ saved \in [run : 0..MaxRuns, list : Worklist]
    /\ jobs \in [JobIds -> [state : {"none", "queued", "claimed", "cancelled"} \cup EndStates,
                            cursor : Worklist, cancel : BOOLEAN, aged : BOOLEAN,
                            run : 0..MaxRuns]]
    /\ agents \in [Agents -> [pc : {"idle", "walk", "posted"} \cup EndStates,
                              job : 0..MaxJobs, list : Worklist]]
    /\ calls \in [Agents -> [stage : {"none", "sent", "open"}, job : 0..MaxJobs,
                             todo : SUBSET Files, list : Worklist]]
    /\ span \in [Files -> SUBSET {"here", "gone", "skipped"}]
    /\ faults \in 0..MaxFaults

-----------------------------------------------------------------------------
Outstanding(j) == jobs[j].state \in {"queued", "claimed"}

(* Something still refers to the row: the workflow, an agent, or a request. *)
InUse(j) ==
    \/ Outstanding(j)
    \/ wf.job = j
    \/ \E a \in Agents : (agents[a].pc # "idle" /\ agents[a].job = j)
                         \/ (calls[a].stage # "none" /\ calls[a].job = j)

Fault == faults < MaxFaults /\ faults' = faults + 1

Presence(f, D) == IF f \in D THEN "here" ELSE "gone"

(* What directory d lists when the files D exist, and how many entries     *)
(* come before x.                                                          *)
Listing(D, d) == {f \in D : In[f] = d} \cup Children[d]
Place(D, x, d) == Cardinality({y \in Listing(D, d) : Rank[y] < Rank[x]})

(* The directories at and below each. *)
Under ==
    [c \in Entries |-> {e \in Entries : \A S \in SUBSET Entries :
        c \in S /\ (\A d \in S : Children[d] \subseteq S) => e \in S}]

-----------------------------------------------------------------------------
(* The workflow: run(), runAgentScan() and finishRoot() for one root.      *)

ActiveRun == {r \in RunIds : runs[r] = "running"}

(* cursor.runId ?? activeRun ?? beginRun *)
IsRunToFeed(r) ==
    IF saved.run # 0 THEN r = saved.run
    ELSE IF ActiveRun # {} THEN r \in ActiveRun /\ \A q \in ActiveRun : q <= r
    ELSE runs[r] = "none" /\ \A q \in RunIds : q < r => runs[q] # "none"

(* Mutant of Enqueue: no look at what is outstanding. *)
EnqueueBlindly(r, j) ==
    /\ ~InUse(j)
    /\ \A k \in JobIds : k < j => InUse(k)
    /\ jobs' = [jobs EXCEPT ![j] = [NoJob EXCEPT !.state = "queued", !.cursor = saved.list, !.run = r]]

(* agentJobs.enqueue(): the outstanding job of the root, or a new row. *)
Enqueue(r, j) ==
    IF \E k \in JobIds : Outstanding(k)
    THEN Outstanding(j) /\ UNCHANGED jobs
    ELSE /\ ~InUse(j)
         /\ \A k \in JobIds : k < j => InUse(k)
         /\ jobs' = [jobs EXCEPT ![j] = [NoJob EXCEPT !.state = "queued", !.cursor = saved.list, !.run = r]]

Begin ==
    /\ wf.pc = "off"
    /\ InTime => \A a \in Agents : calls[a].stage # "open"
    /\ \E r \in RunIds, j \in JobIds :
        /\ IsRunToFeed(r)
        /\ Enqueue(r, j)
        /\ wf' = [pc |-> "polling", run |-> r, job |-> j, asked |-> FALSE]
        /\ runs' = IF runs[r] = "none" THEN [runs EXCEPT ![r] = "running"] ELSE runs
        /\ span' = IF runs[r] = "none" THEN [f \in Files |-> {Presence(f, disk)}] ELSE span
    /\ UNCHANGED <<disk, live, seen, saved, agents, calls, faults>>

(* The engine has asked the execution to stop: shouldContinue() turns false. *)
AskedToStop ==
    /\ wf.pc = "polling" /\ ~wf.asked
    /\ wf' = [wf EXCEPT !.asked = TRUE]
    /\ UNCHANGED <<disk, live, seen, runs, saved, jobs, agents, calls, span, faults>>

Polled == jobs[wf.job]

(* One turn of the poll loop on a job nobody has taken: the claim timeout, *)
(* then the closed window, which leaves with the worklist handed over.     *)
PollQueued ==
    /\ wf.pc = "polling" /\ Polled.state = "queued"
    /\ Polled.aged \/ wf.asked
    /\ jobs' = [jobs EXCEPT ![wf.job].state = "cancelled", ![wf.job].cancel = @ \/ wf.asked]
    /\ IF wf.asked
       THEN wf' = NoWf /\ saved' = [saved EXCEPT !.run = wf.run]
       ELSE UNCHANGED <<wf, saved>>
    /\ UNCHANGED <<disk, live, seen, runs, agents, calls, span, faults>>

(* ... on a job an agent has: the window has closed, ask the agent to stop. *)
PollClaimed ==
    /\ wf.pc = "polling" /\ Polled.state = "claimed"
    /\ wf.asked /\ ~Polled.cancel
    /\ jobs' = [jobs EXCEPT ![wf.job].cancel = TRUE]
    /\ UNCHANGED <<disk, live, seen, runs, wf, saved, agents, calls, span, faults>>

PollCompleted ==
    /\ wf.pc = "polling" /\ Polled.state = "completed"
    /\ wf' = [wf EXCEPT !.pc = "sweeping"]
    /\ UNCHANGED <<disk, live, seen, runs, saved, jobs, agents, calls, span, faults>>

PollPaused ==
    /\ wf.pc = "polling" /\ Polled.state = "paused"
    /\ wf' = NoWf
    /\ saved' = [run |-> wf.run, list |-> Polled.cursor]
    /\ UNCHANGED <<disk, live, seen, runs, jobs, agents, calls, span, faults>>

(* Mutant of PollFailed: a state catalog_runs does not know. *)
PollAbandons ==
    /\ wf.pc = "polling" /\ Polled.state \in {"failed", "cancelled"}
    /\ wf' = NoWf
    /\ saved' = NoCursor
    /\ runs' = [runs EXCEPT ![wf.run] = "abandoned"]
    /\ UNCHANGED <<disk, live, seen, jobs, agents, calls, span, faults>>

(* Failed or abandoned: the catalog run fails and nothing is swept. *)
PollFailed ==
    /\ wf.pc = "polling" /\ Polled.state \in {"failed", "cancelled"}
    /\ wf' = NoWf
    /\ saved' = NoCursor
    /\ runs' = [runs EXCEPT ![wf.run] = "failed"]
    /\ UNCHANGED <<disk, live, seen, jobs, agents, calls, span, faults>>

(* Mutant of Missing: only rows no run has ever seen. *)
NeverSeen == {f \in live : seen[f] = 0}

(* sweepMissing(), a batch at a time, until a pass finds nothing. *)
Missing == {f \in live : seen[f] # wf.run}

SweepBatch ==
    /\ wf.pc = "sweeping"
    /\ \E f \in Missing : live' = live \ {f}
    /\ UNCHANGED <<disk, seen, runs, wf, saved, jobs, agents, calls, span, faults>>

SweepEnds ==
    /\ wf.pc = "sweeping" /\ Missing = {}
    /\ wf' = [wf EXCEPT !.pc = "rollup"]
    /\ UNCHANGED <<disk, live, seen, runs, saved, jobs, agents, calls, span, faults>>

(* The rollup has yielded and is done: finishRun and the end of the run. *)
FinishRoot ==
    /\ wf.pc = "rollup"
    /\ runs' = [runs EXCEPT ![wf.run] = "completed"]
    /\ wf' = NoWf
    /\ saved' = NoCursor
    /\ UNCHANGED <<disk, live, seen, jobs, agents, calls, span, faults>>

-----------------------------------------------------------------------------
(* The queue, seen from the outside.                                       *)

Working(a, j) == (agents[a].pc # "idle" /\ agents[a].job = j)
                 \/ (calls[a].stage # "none" /\ calls[a].job = j)

(* Not heard from for five minutes. *)
Silent(j) == jobs[j].state = "claimed" /\ (InTime => \A a \in Agents : ~Working(a, j))

(* reclaimAbandoned(): back on the queue, cursor and cancel_requested kept. *)
Reclaimed(J) ==
    [j \in JobIds |-> IF j \in J THEN [jobs[j] EXCEPT !.state = "queued"] ELSE jobs[j]]

(* Mutant of Reclaim: nobody reclaims but an agent that asks for work. *)
ReclaimedByAgentsOnly == FALSE /\ UNCHANGED vars

(* maintenance.prune does so once a day. *)
Reclaim ==
    /\ \E j \in JobIds : Silent(j) /\ jobs' = Reclaimed({j})
    /\ UNCHANGED <<disk, live, seen, runs, wf, saved, agents, calls, span, faults>>

(* POST /api/agents/jobs/:id/cancel, of an outstanding job. *)
CancelByHand(j) ==
    /\ Outstanding(j)
    /\ jobs' = [jobs EXCEPT ![j] = IF @.state = "claimed" THEN [@ EXCEPT !.cancel = TRUE]
                                   ELSE [@ EXCEPT !.state = "cancelled"]]
    /\ UNCHANGED <<disk, live, seen, runs, wf, saved, agents, calls, span, faults>>

(* The claim timeout has passed since the row was created. *)
TimePasses(j) ==
    /\ Outstanding(j)
    /\ jobs' = [jobs EXCEPT ![j].aged = TRUE]
    /\ UNCHANGED <<disk, live, seen, runs, wf, saved, agents, calls, span, faults>>

-----------------------------------------------------------------------------
(* An agent: Invoke-AgentJobs and Invoke-CatalogScanJob.                   *)

(* Invoke-CatalogScanJob starts at the top when the job has no worklist. *)
StartList(j) == IF jobs[j].cursor = {} THEN {<<Top, 0>>} ELSE jobs[j].cursor

(* POST claim: reclaims first, then hands out the oldest queued job.  The  *)
(* reply may be lost, or the root gone from the settings.                  *)
Claim(a) ==
    /\ agents[a].pc = "idle"
    /\ \E S \in SUBSET {j \in JobIds : Silent(j)}, j \in JobIds :
        LET queued == {k \in JobIds : Reclaimed(S)[k].state = "queued"} IN
        /\ j \in queued
        /\ \A k \in queued : j <= k
        /\ \/ /\ jobs' = [Reclaimed(S) EXCEPT ![j].state = "claimed"]
              /\ \/ /\ agents' = [agents EXCEPT ![a] = [pc |-> "walk", job |-> j, list |-> StartList(j)]]
                    /\ UNCHANGED faults
                 \/ Fault /\ UNCHANGED agents
           \/ /\ jobs' = [Reclaimed(S) EXCEPT ![j].state = "cancelled"]
              /\ ~RootStays /\ Fault
              /\ UNCHANGED agents
    /\ UNCHANGED <<disk, live, seen, runs, wf, saved, calls, span>>

(* What Get-CatalogBatch goes through in directory d, n entries passed:    *)
(* the rest of its listing up to where the batch is full, with room left.  *)
Taken(d, n, room) ==
    LET ahead == {x \in Listing(disk, d) : Place(disk, x, d) >= n}
    IN {x \in ahead : Cardinality({f \in ahead \cap Files : Rank[f] < Rank[x]}) < room}

(* Mutant of Continuation: the entry that did not fit counts as passed.    *)
ContinuationPastIt(d, n, room) ==
    LET passed == {x \in Listing(disk, d) : Place(disk, x, d) < n} \cup Taken(d, n, room)
    IN IF Listing(disk, d) \subseteq passed THEN {} ELSE {<<d, Cardinality(passed) + 1>>}

(* ... and how it comes back to what is left: by the place it has come to. *)
Continuation(d, n, room) ==
    LET passed == {x \in Listing(disk, d) : Place(disk, x, d) < n} \cup Taken(d, n, room)
    IN IF Listing(disk, d) \subseteq passed THEN {} ELSE {<<d, Cardinality(passed)>>}

(* Get-CatalogBatch, and the post of what it found.  A batch that goes     *)
(* through several directories is a post for each here, with whatever room *)
(* the earlier ones left.  A directory that cannot be read is reported     *)
(* among the errors and contributes nothing else.                          *)
PostBatch(a) ==
    /\ agents[a].pc = "walk" /\ calls[a].stage = "none"
    /\ \E e \in agents[a].list, room \in 1..BatchSize, readable \in BOOLEAN :
        /\ ~readable => e[1] \in Unreadable
        /\ LET taken == IF readable THEN Taken(e[1], e[2], room) ELSE {}
               list == (agents[a].list \ {e}) \cup ((taken \cap Entries) \X {0})
                       \cup (IF readable THEN Continuation(e[1], e[2], room) ELSE {})
           IN /\ agents' = [agents EXCEPT ![a].pc = "posted", ![a].list = list]
              /\ calls' = [calls EXCEPT ![a] = [stage |-> "sent", job |-> agents[a].job,
                                               todo |-> taken \cap Files, list |-> list]]
    /\ UNCHANGED <<disk, live, seen, runs, wf, saved, jobs, span, faults>>

(* What the agent does with the reply, when it is still there to get one:  *)
(* a finished batch is the end whatever the reply says.                    *)
Replied(a, continue) ==
    /\ calls' = [calls EXCEPT ![a] = NoCall]
    /\ agents' = IF agents[a].pc # "posted" THEN agents
                 ELSE [agents EXCEPT ![a].pc = IF @ = "posted" /\ agents[a].list = {} THEN "completed"
                                               ELSE IF continue THEN "walk" ELSE "paused"]

(* recordFiles(): a page is inserted, refreshed or restored, and stamped with the run. *)
RecordFiles(page, run) ==
    /\ live' = live \cup page
    /\ seen' = [f \in Files |-> IF f \in page THEN run ELSE seen[f]]

(* Mutant of RecordPage: the cursor is stored before the pages are. *)
RecordPageAfterCursor(a) ==
    LET call == calls[a]
        j == call.job
    IN \E page \in (IF call.todo = {} THEN {{}} ELSE {{f} : f \in call.todo}) :
        /\ RecordFiles(page, jobs[j].run)
        /\ jobs' = [jobs EXCEPT ![j].cursor = IF jobs[j].state = "claimed" THEN call.list ELSE @]
        /\ IF call.todo # page
           THEN calls' = [calls EXCEPT ![a].stage = "open", ![a].todo = @ \ page] /\ UNCHANGED agents
           ELSE Replied(a, jobs[j].state = "claimed" /\ ~jobs[j].cancel)

(* recordAgentFilesYielding() writes a page per turn of the event loop;    *)
(* after the last one, heartbeat() reads the job again and answers.        *)
RecordPage(a) ==
    LET call == calls[a]
        j == call.job
    IN \E page \in (IF call.todo = {} THEN {{}} ELSE {{f} : f \in call.todo}) :
        /\ RecordFiles(page, jobs[j].run)
        /\ IF call.todo # page
           THEN /\ calls' = [calls EXCEPT ![a].stage = "open", ![a].todo = @ \ page]
                /\ UNCHANGED <<jobs, agents>>
           ELSE IF jobs[j].state # "claimed"
           THEN Replied(a, FALSE) /\ UNCHANGED jobs
           ELSE /\ Replied(a, ~jobs[j].cancel)
                /\ jobs' = [jobs EXCEPT ![j].cursor = call.list]

(* POST batch arrives.  A job that is no longer claimed accepts nothing,   *)
(* nor does one whose root has gone.                                       *)
BatchRejected(a) ==
    /\ calls[a].stage = "sent"
    /\ jobs[calls[a].job].state # "claimed"
    /\ Replied(a, FALSE)
    /\ UNCHANGED <<disk, live, seen, runs, wf, saved, jobs, span, faults>>

BatchWithoutRoot(a) ==
    /\ calls[a].stage = "sent"
    /\ jobs[calls[a].job].state = "claimed"
    /\ ~RootStays /\ Fault
    /\ jobs' = [jobs EXCEPT ![calls[a].job].state = "cancelled"]
    /\ Replied(a, FALSE)
    /\ UNCHANGED <<disk, live, seen, runs, wf, saved, span>>

BatchAccepted(a) ==
    /\ calls[a].stage = "sent"
    /\ jobs[calls[a].job].state = "claimed"
    /\ RecordPage(a)
    /\ UNCHANGED <<disk, runs, wf, saved, span, faults>>

BatchGoesOn(a) ==
    /\ calls[a].stage = "open"
    /\ RecordPage(a)
    /\ UNCHANGED <<disk, runs, wf, saved, span, faults>>

(* POST finish: the row takes whatever state it is told. *)
Finish(a) ==
    /\ agents[a].pc \in EndStates
    /\ jobs' = [jobs EXCEPT ![agents[a].job].state = agents[a].pc,
                            ![agents[a].job].cursor = IF agents[a].pc = "failed" THEN {} ELSE agents[a].list]
    /\ \/ agents' = [agents EXCEPT ![a] = IdleAgent] /\ UNCHANGED faults
       \/ /\ agents[a].pc # "failed" /\ Fault
          /\ agents' = [agents EXCEPT ![a].pc = "failed"]
    /\ UNCHANGED <<disk, live, seen, runs, wf, saved, calls, span>>

(* A call throws on the agent's side, because the service restarted or the *)
(* reply is late or lost: the agent reports a failure, once.               *)
LosesCall(a) ==
    /\ agents[a].pc \in {"posted"} \cup EndStates
    /\ IF agents[a].pc = "posted" /\ calls[a].stage = "none" THEN UNCHANGED faults ELSE Fault
    /\ agents' = [agents EXCEPT ![a] = IF @.pc = "failed" THEN IdleAgent ELSE [@ EXCEPT !.pc = "failed"]]
    /\ UNCHANGED <<disk, live, seen, runs, wf, saved, jobs, calls, span>>

(* A request that never arrives. *)
DropsCall(a) ==
    /\ calls[a].stage = "sent"
    /\ agents[a].pc # "posted"
    /\ calls' = [calls EXCEPT ![a] = NoCall]
    /\ UNCHANGED <<disk, live, seen, runs, wf, saved, jobs, agents, span, faults>>

(* The host reboots or the task is ended; the task runs again later. *)
Dies(a) ==
    /\ agents[a].pc # "idle"
    /\ Fault
    /\ agents' = [agents EXCEPT ![a] = IdleAgent]
    /\ UNCHANGED <<disk, live, seen, runs, wf, saved, jobs, calls, span>>

-----------------------------------------------------------------------------
(* The service restarts: the run is recovered as paused with its cursor,   *)
(* and the requests being served are gone.                                 *)
Restart ==
    /\ Fault
    /\ wf' = NoWf
    /\ calls' = [a \in Agents |-> NoCall]
    /\ UNCHANGED <<disk, live, seen, runs, saved, jobs, agents, span>>

(* The entry is on a worklist a walk may be resumed from. *)
IsKept(e) ==
    \/ e \in saved.list
    \/ \E j \in JobIds : InUse(j) /\ e \in jobs[j].cursor
    \/ \E a \in Agents : e \in agents[a].list \cup calls[a].list

(* What file f takes with it when it leaves its directory: the entry after *)
(* it that a worklist would have come to next is passed over unseen.       *)
Shifted(f) ==
    LET next == {x \in Listing(disk, In[f]) : Rank[f] < Rank[x] /\ IsKept(<<In[f], Place(disk, x, In[f])>>)}
    IN {g \in Files : g \in next \/ \E c \in next \cap Entries : In[g] \in Under[c]}

(* Files come and go. *)
Changes(f) ==
    /\ f \in Volatile
    /\ disk' = IF f \in disk THEN disk \ {f} ELSE disk \cup {f}
    /\ span' = [g \in Files |->
                   span[g] \cup (IF g = f THEN {Presence(f, disk')} ELSE {})
                           \cup (IF f \in disk /\ g \in Shifted(f) THEN {"skipped"} ELSE {})]
    /\ UNCHANGED <<live, seen, runs, wf, saved, jobs, agents, calls, faults>>

Init ==
    /\ disk = Files
    /\ live = Files
    /\ seen = [f \in Files |-> 0]
    /\ runs = [r \in RunIds |-> "none"]
    /\ wf = NoWf /\ saved = NoCursor
    /\ jobs = [j \in JobIds |-> NoJob]
    /\ agents = [a \in Agents |-> IdleAgent]
    /\ calls = [a \in Agents |-> NoCall]
    /\ span = [f \in Files |-> {"here"}]
    /\ faults = 0

Poll == PollQueued \/ PollClaimed \/ PollCompleted \/ PollPaused \/ PollFailed
Sweep == SweepBatch \/ SweepEnds \/ FinishRoot
Serve(a) == BatchRejected(a) \/ BatchWithoutRoot(a) \/ BatchAccepted(a) \/ BatchGoesOn(a)
Agent(a) == Claim(a) \/ PostBatch(a) \/ Finish(a) \/ LosesCall(a) \/ DropsCall(a) \/ Dies(a)

Next ==
    \/ Begin \/ AskedToStop \/ Poll \/ Sweep
    \/ Reclaim
    \/ \E j \in JobIds : CancelByHand(j) \/ TimePasses(j)
    \/ \E a \in Agents : Serve(a) \/ Agent(a)
    \/ Restart
    \/ \E f \in Files : Changes(f)

Spec == Init /\ [][Next]_vars

-----------------------------------------------------------------------------
(* Fairness.  The poll loop and the sweep run on; an agent that is alive   *)
(* gets on with its walk and is served; somebody reclaims what an agent    *)
(* has abandoned (maintenance.prune) and time passes for a queued job.     *)
(* No agent is obliged to ask for work, nor anybody to stop the scan.      *)
Fairness ==
    /\ WF_vars(Poll) /\ WF_vars(Sweep) /\ WF_vars(Reclaim)
    /\ \A j \in JobIds : WF_vars(TimePasses(j))
    /\ \A a \in Agents : WF_vars(Serve(a)) /\ WF_vars(PostBatch(a) \/ Finish(a) \/ LosesCall(a) \/ DropsCall(a))

FairSpec == Spec /\ Fairness

-----------------------------------------------------------------------------
(* Properties.                                                             *)

(* A walk resumed from the worklist will come to file f. *)
LeadsTo(D, list, f) ==
    \E e \in list : \/ In[f] = e[1] /\ Place(D, f, e[1]) >= e[2]
                    \/ \E c \in Children[e[1]] : Place(D, c, e[1]) >= e[2] /\ In[f] \in Under[c]

(* It was away, or was passed over when an entry before it left. *)
MayBeMissed(f) == "gone" \in span[f] \/ "skipped" \in span[f]

(* "A half-walked tree is never read as deletions" (docs/ARCHITECTURE.md): *)
(* a file the sweep marks was missing at some moment of that catalog run.  *)
(* The exception is what the code does not keep to: a directory continued  *)
(* by its place, out of which an earlier entry has gone meanwhile.         *)
NoFalseDeletion == [][\A f \in live \ live' : MayBeMissed(f)]_vars

(* The reason it is safe: every worklist a walk may be resumed from, on    *)
(* whatever side of the boundary it is kept, still leads to all the files  *)
(* the catalog run has not recorded, and a completed job leaves none; with *)
(* the same exception.                                                     *)
CursorCovers ==
    LET Covers(list, r) == \A f \in Files : LeadsTo(disk, list, f) \/ seen[f] = r \/ MayBeMissed(f)
    IN /\ saved.list # {} => Covers(saved.list, saved.run)
       /\ \A j \in JobIds :
             /\ Outstanding(j) \/ (wf.job = j /\ jobs[j].state = "paused")
                => jobs[j].cursor = {} \/ Covers(jobs[j].cursor, jobs[j].run)
             /\ wf.job = j /\ jobs[j].state = "completed" => Covers({}, jobs[j].run)

(* "Anything not seen really is gone": when a root is finished, whatever   *)
(* the catalog still holds was there at some moment of that catalog run,   *)
(* late and repeated batches notwithstanding.                              *)
DeletionsAreFound ==
    [][\A r \in RunIds : runs[r] = "running" /\ runs'[r] = "completed" =>
          \A f \in live : "here" \in span[f]]_vars

(* One job per root, and it is the one the workflow is polling: a root is  *)
(* never swept while an agent's batches for it are still accepted.         *)
OneOutstandingJob ==
    /\ \A j, k \in JobIds : Outstanding(j) /\ Outstanding(k) => j = k
    /\ wf.pc # "off" => \A j \in JobIds : Outstanding(j) => wf.pc = "polling" /\ wf.job = j

(* The disks are given back: whatever becomes of the agent, the workflow   *)
(* does not wait for it for ever.                                          *)
ScanEnds == wf.pc # "off" ~> wf.pc = "off"
=============================================================================
