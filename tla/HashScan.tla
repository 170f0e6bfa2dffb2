------------------------------ MODULE HashScan ------------------------------
(***************************************************************************)
(* The bit-rot scan of one root: the workflow that asks for hashes and     *)
(* polls (workflows/catalog-hash.ts), the agent that reads the files       *)
(* (agent/), the batch that decides what is rot (services/hash-ingest.ts), *)
(* the findings and their one alert (services/bitrot-service.ts).          *)
(*                                                                         *)
(* A file is a stamp, for its size and mtime, and bytes, for its content   *)
(* and for the hash of it.  The service runs one handler at a time, but it *)
(* may die between any two of a batch's statements, which no transaction   *)
(* holds together: each is a step, and everybody else waits (ServerFree);  *)
(* what happens on the hosts meanwhile might as well happen before.        *)
(* Time is left out: what a clock decides is a choice.                     *)
(***************************************************************************)
EXTENDS Naturals, FiniteSets

CONSTANTS
    Files, Bytes, Agents,
    Volatile,   \* bound: the files that are written to, or rot
    MaxStamp,   \* bound: writes
    BatchSize,  \* hashBatchSize
    PostSize,   \* files an agent hashes before it posts, 25 in the code
    MaxJobs,    \* bound: rows of agent_jobs something may still refer to
    MaxFaults,  \* bound: lost calls, failed reads, timeouts, dead agents and restarts
    FreshList   \* no file is written between its last scan and the end of its hashing

NotHashed == "notHashed"

ASSUME HashAssumption ==
    /\ Volatile \subseteq Files /\ Bytes # {} /\ NotHashed \notin Bytes
    /\ {MaxStamp, BatchSize, PostSize, MaxJobs} \subseteq Nat \ {0} /\ MaxFaults \in Nat
    /\ FreshList \in BOOLEAN

VARIABLES
    disk,         \* the files as they are
    rows,         \* the files rows
    findings,     \* bitrot_findings, by what makes a row unique
    outstanding,  \* those whose status is open or confirmed
    alerts,       \* the alerts that are open
    wf,           \* the execution of catalog.hash and its local state
    open,         \* its row in workflow_runs is running or paused
    jobs,         \* agent_jobs
    agents,       \* the job loop of each agent
    calls,        \* the batch of each agent, on its way or being served
    was,          \* ghost: every stamp and content each file has had
    cutOff,       \* ghost: a restart cut off a batch that had outlived its run
    faults        \* ghost: faults so far, for the bound

notices == <<alerts, cutOff>>
catalog == <<rows, findings, outstanding, notices>>
hosts == <<disk, was, agents>>
vars == <<disk, rows, findings, outstanding, alerts, wf, open, jobs, agents, calls, was, cutOff, faults>>

JobIds == 1..MaxJobs
Stamps == 1..MaxStamp
Result == [file : Files, ok : BOOLEAN, stamp : Stamps, bytes : Bytes]

NoJob == [state |-> "none", files |-> {}, cancel |-> FALSE]
NoWf == [pc |-> "off", job |-> 0, asked |-> FALSE]
IdleAgent == [pc |-> "idle", job |-> 0, todo |-> {}, file |-> {}, stamp |-> 1, results |-> {}]
NoCall == [stage |-> "none", job |-> 0, results |-> {}, now |-> {}, isNew |-> FALSE]

EndStates == {"completed", "paused", "failed"}

TypeOK ==
    /\ disk \in [Files -> [stamp : Stamps, bytes : Bytes]]
    /\ rows \in [Files -> [stamp : Stamps, hash : Bytes \cup {NotHashed}, at : Stamps,
                           aged : BOOLEAN, error : BOOLEAN]]
    /\ findings \subseteq [file : Files, expected : Bytes, actual : Bytes]
    /\ outstanding \subseteq findings
    /\ alerts \subseteq {"bitrot", "errors"}
    /\ wf \in [pc : {"off", "asking", "polling"}, job : 0..MaxJobs, asked : BOOLEAN]
    /\ open \in BOOLEAN
    /\ jobs \in [JobIds -> [state : {"none", "queued", "claimed", "cancelled"} \cup EndStates,
                            files : SUBSET Files, cancel : BOOLEAN]]
    /\ \A a \in Agents :
        /\ agents[a].pc \in {"idle", "stat", "read", "posted"} \cup EndStates
        /\ agents[a].job \in 0..MaxJobs
        /\ agents[a].todo \subseteq Files /\ agents[a].file \subseteq Files
        /\ agents[a].stamp \in Stamps /\ agents[a].results \subseteq Result
        /\ calls[a].stage \in {"none", "sent", "applying", "found"}
        /\ calls[a].job \in 0..MaxJobs /\ calls[a].isNew \in BOOLEAN
        /\ calls[a].results \subseteq Result /\ calls[a].now \subseteq calls[a].results
    /\ cutOff \in BOOLEAN
    /\ was \subseteq Files \X Stamps \X Bytes
    /\ faults \in 0..MaxFaults

-----------------------------------------------------------------------------
Outstanding(j) == jobs[j].state \in {"queued", "claimed"}

Working(a, j) == (agents[a].pc # "idle" /\ agents[a].job = j)
                 \/ (calls[a].stage # "none" /\ calls[a].job = j)

InUse(j) == Outstanding(j) \/ wf.job = j \/ \E a \in Agents : Working(a, j)

Fault == faults < MaxFaults /\ faults' = faults + 1

(* No handler is in the middle of something. *)
ServerFree == \A a \in Agents : calls[a].stage \in {"none", "sent"}

-----------------------------------------------------------------------------
(* Findings and their alert.                                               *)

(* syncAlert(): one alert for all that is outstanding. *)
Synced(O) == IF O = {} THEN alerts \ {"bitrot"} ELSE alerts \cup {"bitrot"}

(* An operator dismisses or resolves a finding, or takes that back. *)
SetStatus(k) ==
    /\ ServerFree
    /\ outstanding' = IF k \in outstanding THEN outstanding \ {k} ELSE outstanding \cup {k}
    /\ alerts' = Synced(outstanding') /\ cutOff' = FALSE
    /\ UNCHANGED <<hosts, rows, findings, wf, open, jobs, calls, faults>>

-----------------------------------------------------------------------------
(* The workflow: run() and hashViaAgent().                                 *)

(* Mutant of Due: files that changed since they were hashed are not asked for. *)
DueByAge(f) == ~rows[f].error /\ (rows[f].hash = NotHashed \/ rows[f].aged)

(* The condition of hashQueue(). *)
Due(f) ==
    /\ ~rows[f].error
    /\ rows[f].hash = NotHashed \/ rows[f].at # rows[f].stamp \/ rows[f].aged

Queue == {f \in Files : Due(f)}

(* The head of the queue: files that were never hashed come first. *)
Batches ==
    {B \in SUBSET Queue :
        /\ Cardinality(B) = IF Cardinality(Queue) < BatchSize THEN Cardinality(Queue) ELSE BatchSize
        /\ \A f \in B, g \in Queue \ B : rows[g].hash = NotHashed => rows[f].hash = NotHashed}

(* By the scheduler when there is work or a run to resume, or by hand. *)
Begin ==
    /\ ServerFree
    /\ wf.pc = "off"
    /\ FreshList => \A f \in Files : rows[f].stamp = disk[f].stamp
    /\ wf' = [NoWf EXCEPT !.pc = "asking"]
    /\ open' = TRUE
    /\ UNCHANGED <<hosts, catalog, jobs, calls, faults>>

(* The engine has asked the execution to stop: shouldContinue() turns false. *)
AskedToStop ==
    /\ ServerFree
    /\ wf.pc # "off" /\ ~wf.asked
    /\ Fault
    /\ wf' = [wf EXCEPT !.asked = TRUE]
    /\ UNCHANGED <<hosts, catalog, open, jobs, calls>>

Pauses == wf' = NoWf /\ UNCHANGED <<open, notices>>

(* Mutant of Ends: the alert is left to the batches. *)
EndsUnsynced ==
    /\ wf' = NoWf
    /\ open' = FALSE
    /\ alerts' = IF \E f \in Files : rows[f].error THEN alerts \cup {"errors"} ELSE alerts \ {"errors"}
    /\ UNCHANGED cutOff

(* The end of run(), by which both alerts say what the tables say. *)
Ends ==
    /\ wf' = NoWf
    /\ open' = FALSE
    /\ alerts' = IF \E f \in Files : rows[f].error
                 THEN Synced(outstanding) \cup {"errors"} ELSE Synced(outstanding) \ {"errors"}
    /\ cutOff' = FALSE

(* The top of the loop: stop, ask for the next batch, or be done.  The job *)
(* that is outstanding, if there is one, is taken as it is.                *)
Ask ==
    /\ ServerFree
    /\ wf.pc = "asking"
    /\ \/ /\ wf.asked
          /\ Pauses
          /\ UNCHANGED jobs
       \/ /\ ~wf.asked /\ Queue = {}
          /\ Ends
          /\ UNCHANGED jobs
       \/ /\ ~wf.asked /\ Queue # {}
          /\ \E j \in JobIds :
                /\ IF \E k \in JobIds : Outstanding(k)
                   THEN Outstanding(j) /\ UNCHANGED jobs
                   ELSE /\ ~InUse(j) /\ \A k \in JobIds : k < j => InUse(k)
                        /\ \E B \in Batches :
                             jobs' = [jobs EXCEPT ![j] = [NoJob EXCEPT !.state = "queued", !.files = B]]
                /\ wf' = [wf EXCEPT !.pc = "polling", !.job = j]
          /\ UNCHANGED <<open, notices>>
    /\ UNCHANGED <<hosts, rows, findings, outstanding, calls, faults>>

Polls(state) == ServerFree /\ wf.pc = "polling" /\ jobs[wf.job].state = state

(* Nobody has taken the job: the claim timeout, and the closed window. *)
PollQueued ==
    /\ Polls("queued")
    /\ jobs' = [jobs EXCEPT ![wf.job].state = "cancelled", ![wf.job].cancel = @ \/ wf.asked]
    /\ \/ wf.asked /\ wf' = NoWf /\ UNCHANGED faults
       \/ ~wf.asked /\ Fault /\ UNCHANGED wf
    /\ UNCHANGED <<hosts, catalog, open, calls>>

PollClaimed ==
    /\ Polls("claimed")
    /\ wf.asked /\ ~jobs[wf.job].cancel
    /\ jobs' = [jobs EXCEPT ![wf.job].cancel = TRUE]
    /\ UNCHANGED <<hosts, catalog, wf, open, calls, faults>>

(* A finished job is followed by the next; a paused one pauses the run; a  *)
(* failed or abandoned one is the end of the root, whatever is still due.  *)
PollDone ==
    /\ \/ Polls("completed") /\ wf' = [wf EXCEPT !.pc = "asking", !.job = 0] /\ UNCHANGED <<open, notices>>
       \/ Polls("paused") /\ Pauses
       \/ (Polls("failed") \/ Polls("cancelled")) /\ Ends
    /\ UNCHANGED <<hosts, rows, findings, outstanding, jobs, calls, faults>>

-----------------------------------------------------------------------------
(* The agent: Invoke-AgentJobs, Invoke-CatalogHashJob, Get-CatalogFileHash. *)

(* Mutant of Reclaim: an unknown state. *)
ReclaimAsAbandoned(j) ==
    /\ ServerFree
    /\ jobs[j].state = "claimed"
    /\ IF \E a \in Agents : Working(a, j) THEN Fault ELSE UNCHANGED faults
    /\ jobs' = [jobs EXCEPT ![j].state = "abandoned"]
    /\ UNCHANGED <<hosts, catalog, wf, open, calls>>

(* reclaimAbandoned(), by whoever asks for work or prunes: the agent is    *)
(* gone, or has been reading for more than five minutes.                   *)
Reclaim(j) ==
    /\ ServerFree
    /\ jobs[j].state = "claimed"
    /\ IF \E a \in Agents : Working(a, j) THEN Fault ELSE UNCHANGED faults
    /\ jobs' = [jobs EXCEPT ![j].state = "queued"]
    /\ UNCHANGED <<hosts, catalog, wf, open, calls>>

Claim(a) ==
    /\ ServerFree
    /\ agents[a].pc = "idle"
    /\ \E j \in JobIds :
        /\ jobs[j].state = "queued"
        /\ \A k \in JobIds : jobs[k].state = "queued" => j <= k
        /\ jobs' = [jobs EXCEPT ![j].state = "claimed"]
        /\ agents' = [agents EXCEPT ![a] = [IdleAgent EXCEPT !.pc = "stat", !.job = j, !.todo = jobs[j].files]]
    /\ UNCHANGED <<disk, was, catalog, wf, open, calls, faults>>

(* FileInfo: size and mtime, before the file is opened. *)
Stat(a) ==
    /\ ServerFree
    /\ agents[a].pc = "stat"
    /\ \E f \in agents[a].todo :
        agents' = [agents EXCEPT ![a].pc = "read", ![a].file = {f}, ![a].stamp = disk[f].stamp]
    /\ UNCHANGED <<disk, was, catalog, wf, open, jobs, calls, faults>>

(* Opened for sharing with writers and read.  Enough results, or the last  *)
(* of them, are posted at once.                                            *)
Read(a) ==
    /\ ServerFree
    /\ agents[a].pc = "read" /\ calls[a].stage = "none"
    /\ \E f \in agents[a].file, ok \in BOOLEAN :
        LET r == [file |-> f, ok |-> ok, stamp |-> agents[a].stamp, bytes |-> disk[f].bytes]
            results == agents[a].results \cup {r}
            todo == agents[a].todo \ {f}
            full == Cardinality(results) = PostSize \/ todo = {}
        IN /\ IF ok THEN UNCHANGED faults ELSE Fault
           /\ agents' = [agents EXCEPT ![a] = [@ EXCEPT !.pc = IF full THEN "posted" ELSE "stat",
                                                        !.todo = todo, !.file = {},
                                                        !.results = IF full THEN {} ELSE results]]
           /\ calls' = IF full
                       THEN [calls EXCEPT ![a] = [NoCall EXCEPT !.stage = "sent", !.job = agents[a].job,
                                                               !.results = results]]
                       ELSE calls
    /\ UNCHANGED <<disk, was, catalog, wf, open, jobs>>

(* Hashing the last of the files completes the job whatever the reply says. *)
Replied(a, continue) ==
    /\ calls' = [calls EXCEPT ![a] = NoCall]
    /\ agents' = IF agents[a].pc # "posted" THEN agents
                 ELSE [agents EXCEPT ![a].pc = IF agents[a].todo = {} THEN "completed"
                                               ELSE IF continue THEN "stat" ELSE "paused"]

(* POST finish: the row takes whatever state it is told, from whoever. *)
Finish(a) ==
    /\ ServerFree
    /\ agents[a].pc \in EndStates
    /\ jobs' = [jobs EXCEPT ![agents[a].job].state = agents[a].pc]
    /\ agents' = [agents EXCEPT ![a] = IdleAgent]
    /\ UNCHANGED <<disk, was, catalog, wf, open, calls, faults>>

(* A call throws on the agent's side: it reports a failure, once. *)
LosesCall(a) ==
    /\ ServerFree
    /\ agents[a].pc \in {"posted"} \cup EndStates
    /\ IF agents[a].pc = "posted" /\ calls[a].stage = "none" THEN UNCHANGED faults ELSE Fault
    /\ agents' = [agents EXCEPT ![a] = IF @.pc = "failed" THEN IdleAgent ELSE [@ EXCEPT !.pc = "failed"]]
    /\ UNCHANGED <<disk, was, catalog, wf, open, jobs, calls>>

Dies(a) ==
    /\ ServerFree
    /\ agents[a].pc # "idle"
    /\ Fault
    /\ agents' = [agents EXCEPT ![a] = IdleAgent]
    /\ UNCHANGED <<disk, was, catalog, wf, open, jobs, calls>>

-----------------------------------------------------------------------------
(* POST batch and applyAgentHashes().                                      *)

(* A job that is no longer claimed accepts nothing. *)
BatchArrives(a) ==
    /\ ServerFree /\ calls[a].stage = "sent"
    /\ IF jobs[calls[a].job].state = "claimed"
       THEN calls' = [calls EXCEPT ![a].stage = "applying"] /\ UNCHANGED agents
       ELSE Replied(a, FALSE)
    /\ UNCHANGED <<disk, was, catalog, wf, open, jobs, faults>>

(* Mutant of Suspect: the catalog's stamp instead of the one of the hash. *)
SuspectByRow(r) ==
    LET row == rows[r.file] IN
    r.ok /\ row.hash # NotHashed /\ row.stamp = r.stamp /\ row.hash # r.bytes

(* The content changed although size and mtime are those of the last hash. *)
Suspect(r) ==
    LET row == rows[r.file] IN
    r.ok /\ row.hash # NotHashed /\ row.at = r.stamp /\ row.hash # r.bytes

(* bitrot.record(): a mismatch seen before keeps its row, and its status. *)
RecordFinding(a) ==
    /\ calls[a].stage = "applying"
    /\ \E r \in calls[a].results :
        LET k == [file |-> r.file, expected |-> rows[r.file].hash, actual |-> r.bytes] IN
        /\ Suspect(r)
        /\ findings' = findings \cup {k}
        /\ outstanding' = IF k \in findings THEN outstanding ELSE outstanding \cup {k}
        /\ calls' = [calls EXCEPT ![a].stage = "found", ![a].now = {r}, ![a].isNew = @ \/ k \notin findings]
    /\ UNCHANGED <<hosts, rows, notices, wf, open, jobs, faults>>

(* Mutants of RecordHash: hashed_at is not moved; the hash is stored before *)
(* it is compared.                                                         *)
RecordHashUndated(a) ==
    /\ calls[a].stage \in {"applying", "found"}
    /\ \E r \in calls[a].results :
        /\ IF calls[a].stage = "found" THEN r \in calls[a].now ELSE ~Suspect(r)
        /\ rows' = [rows EXCEPT ![r.file] =
                      IF r.ok THEN [@ EXCEPT !.hash = r.bytes, !.at = r.stamp, !.error = FALSE]
                      ELSE [@ EXCEPT !.error = TRUE]]
        /\ calls' = [calls EXCEPT ![a].stage = "applying", ![a].now = {}, ![a].results = @ \ {r}]
    /\ UNCHANGED <<hosts, findings, outstanding, notices, wf, open, jobs, faults>>
RecordHashFirst(a) ==
    /\ calls[a].stage = "applying"
    /\ \E r \in calls[a].results :
        /\ rows' = [rows EXCEPT ![r.file] =
                      IF r.ok THEN [@ EXCEPT !.hash = r.bytes, !.at = r.stamp, !.aged = FALSE, !.error = FALSE]
                      ELSE [@ EXCEPT !.error = TRUE]]
        /\ calls' = [calls EXCEPT ![a].results = @ \ {r}]
    /\ UNCHANGED <<hosts, findings, outstanding, notices, wf, open, jobs, faults>>

(* recordHash() or recordHashError(), and on to the next result. *)
RecordHash(a) ==
    /\ calls[a].stage \in {"applying", "found"}
    /\ \E r \in calls[a].results :
        /\ IF calls[a].stage = "found" THEN r \in calls[a].now ELSE ~Suspect(r)
        /\ rows' = [rows EXCEPT ![r.file] =
                      IF r.ok THEN [@ EXCEPT !.hash = r.bytes, !.at = r.stamp, !.aged = FALSE, !.error = FALSE]
                      ELSE [@ EXCEPT !.error = TRUE]]
        /\ calls' = [calls EXCEPT ![a].stage = "applying", ![a].now = {}, ![a].results = @ \ {r}]
    /\ UNCHANGED <<hosts, findings, outstanding, notices, wf, open, jobs, faults>>

(* The alert if there was anything new, the heartbeat, and the reply. *)
BatchDone(a) ==
    /\ calls[a].stage = "applying" /\ calls[a].results = {}
    /\ IF calls[a].isNew THEN alerts' = Synced(outstanding) /\ cutOff' = FALSE ELSE UNCHANGED notices
    /\ Replied(a, jobs[calls[a].job].state = "claimed" /\ ~jobs[calls[a].job].cancel)
    /\ UNCHANGED <<disk, was, rows, findings, outstanding, wf, open, jobs, faults>>

(* The service restarts: the run is recovered as paused, requests are gone. *)
Restart ==
    /\ Fault
    /\ wf' = NoWf
    /\ calls' = [a \in Agents |-> NoCall]
    /\ cutOff' = (cutOff \/ (~open /\ ~ServerFree))
    /\ UNCHANGED <<hosts, rows, findings, outstanding, alerts, open, jobs>>

-----------------------------------------------------------------------------
(* The disks, the catalog scan and the calendar.                           *)

Becomes(f, stamp, bytes) ==
    /\ ServerFree
    /\ disk' = [disk EXCEPT ![f] = [stamp |-> stamp, bytes |-> bytes]]
    /\ was' = was \cup {<<f, stamp, bytes>>}
    /\ UNCHANGED <<catalog, wf, open, jobs, agents, calls, faults>>

(* Somebody writes to the file: new content, new mtime. *)
Write(f) ==
    /\ FreshList => wf.pc = "off" /\ \A a \in Agents : f \notin agents[a].file
    /\ disk[f].stamp < MaxStamp
    /\ \E b \in Bytes \ {disk[f].bytes} : Becomes(f, disk[f].stamp + 1, b)

(* The content changes and nothing else.  Bound: to none it has had before. *)
Rot(f) == \E b \in Bytes : <<f, disk[f].stamp, b>> \notin was /\ Becomes(f, disk[f].stamp, b)

(* catalog.scan records the file; it shares its group with catalog.hash. *)
Scan(f) ==
    /\ ServerFree
    /\ wf.pc = "off"
    /\ rows[f].stamp # disk[f].stamp
    /\ rows' = [rows EXCEPT ![f].stamp = disk[f].stamp]
    /\ UNCHANGED <<hosts, findings, outstanding, notices, wf, open, jobs, calls, faults>>

(* rehashIntervalDays have passed since the hash; a run takes less than that. *)
Ages(f) ==
    /\ ServerFree
    /\ wf.pc = "off"
    /\ rows[f].hash # NotHashed /\ ~rows[f].aged
    /\ rows' = [rows EXCEPT ![f].aged = TRUE]
    /\ UNCHANGED <<hosts, findings, outstanding, notices, wf, open, jobs, calls, faults>>

Init ==
    /\ disk = [f \in Files |-> [stamp |-> 1, bytes |-> CHOOSE b \in Bytes : TRUE]]
    /\ was = {<<f, 1, disk[f].bytes>> : f \in Files}
    /\ rows = [f \in Files |-> [stamp |-> 1, hash |-> NotHashed, at |-> 1, aged |-> FALSE, error |-> FALSE]]
    /\ findings = {} /\ outstanding = {} /\ alerts = {} /\ cutOff = FALSE
    /\ wf = NoWf /\ open = FALSE
    /\ jobs = [j \in JobIds |-> NoJob]
    /\ agents = [a \in Agents |-> IdleAgent]
    /\ calls = [a \in Agents |-> NoCall]
    /\ faults = 0

Poll == PollQueued \/ PollClaimed \/ PollDone
Serve(a) == BatchArrives(a) \/ RecordFinding(a) \/ RecordHash(a) \/ BatchDone(a)
Agent(a) == Claim(a) \/ Stat(a) \/ Read(a) \/ Finish(a) \/ LosesCall(a)
Outside(f) == Write(f) \/ Rot(f) \/ Ages(f)

Next ==
    \/ Begin \/ AskedToStop \/ Ask \/ Poll
    \/ \E k \in findings : SetStatus(k)
    \/ \E j \in JobIds : Reclaim(j)
    \/ \E a \in Agents : Agent(a) \/ Dies(a)
    \/ \E f \in Files : Scan(f)
    \/ \E f \in Volatile : Outside(f)
    \/ \E a \in Agents : Serve(a)
    \/ Restart

Spec == Init /\ [][Next]_vars

(* The scheduler starts a hash run when there is work for one, the loops   *)
(* run on, agents keep asking for work and get served, what nobody works   *)
(* on is reclaimed, and the catalog is scanned from time to time.          *)
Fairness ==
    /\ WF_vars(Begin /\ (open \/ Queue # {}))
    /\ WF_vars(Ask \/ PollClaimed \/ PollDone \/ (PollQueued /\ wf.asked))
    /\ WF_vars(\E j \in JobIds : Reclaim(j) /\ \A a \in Agents : ~Working(a, j))
    /\ WF_vars(\E f \in Files : Scan(f))
    /\ \A a \in Agents : WF_vars(Serve(a)) /\ WF_vars(Agent(a))

FairSpec == Spec /\ Fairness

-----------------------------------------------------------------------------
(* Properties.                                                             *)

(* "A file whose content changed while its size and timestamp did not is   *)
(* reported" (workflows/catalog-hash.ts), and no other: the file really    *)
(* had both contents under one stamp.                                      *)
NoFalseAlarm ==
    \A k \in findings : \E s \in Stamps :
        {<<k.file, s, k.expected>>, <<k.file, s, k.actual>>} \subseteq was

(* ... and none of them is missed: a hash of the file as it was when the   *)
(* previous one was taken never replaces a different one unless there is a *)
(* finding, whatever dies in the middle of a batch or is posted twice.     *)
RotIsNeverAbsorbed ==
    [][\A f \in Files :
        /\ rows[f].hash \in Bytes
        /\ rows'[f].at = rows[f].at
        /\ rows'[f].hash # rows[f].hash
        => [file |-> f, expected |-> rows[f].hash, actual |-> rows'[f].hash] \in findings]_vars

(* Outstanding findings are alerted, or will be by a run that is not over  *)
(* (the batch that found them may have died before it came to the alert),  *)
(* and there is no alert without any.  One exception: a run can end with a *)
(* job of its own still claimed, and a restart in the middle of such a     *)
(* job's batch leaves its findings to whatever run comes next.             *)
FindingsAreAlerted ==
    ServerFree => /\ outstanding # {} => "bitrot" \in alerts \/ open \/ cutOff
                  /\ "bitrot" \in alerts => outstanding # {}

(* Whatever windows close and calls are lost, the hashes catch up with the *)
(* files again and again: each has the hash it should have, or its error.  *)
HashesCatchUp == []<>(\A f \in Files : rows[f].error \/ (rows[f].at = disk[f].stamp /\ ~Due(f)))

(* The disks are given back: the queue of a run is emptied. *)
HashRunEnds == wf.pc # "off" ~> wf.pc = "off"
=============================================================================
