--------------------------- MODULE HashScanProofs ---------------------------
(***************************************************************************)
(* What TLAPS proves of HashScan for every set of files, contents and      *)
(* agents and every bound: of the decision what is rot, of the alert, and, *)
(* where no file is written between its scan and its hash, that nothing    *)
(* but rot is reported.                                                    *)
(***************************************************************************)
EXTENDS HashScan, TLAPS

-----------------------------------------------------------------------------
(* Types.                                                                  *)

DiskType == [stamp : Stamps, bytes : Bytes]
RowType == [stamp : Stamps, hash : Bytes \cup {NotHashed}, at : Stamps, aged : BOOLEAN, error : BOOLEAN]
FindingType == [file : Files, expected : Bytes, actual : Bytes]
WfType == [pc : {"off", "asking", "polling"}, job : 0..MaxJobs, asked : BOOLEAN]
JobType == [state : {"none", "queued", "claimed", "cancelled"} \cup EndStates,
            files : SUBSET Files, cancel : BOOLEAN]
AgentType == [pc : {"idle", "stat", "read", "posted"} \cup EndStates, job : 0..MaxJobs,
              todo : SUBSET Files, file : SUBSET Files, stamp : Stamps, results : SUBSET Result]
CallType == [stage : {"none", "sent", "applying", "found"}, job : 0..MaxJobs,
             results : SUBSET Result, now : SUBSET Result, isNew : BOOLEAN]

(* TypeOK, and that the agents and their calls are functions to records. *)
Typed ==
    /\ disk \in [Files -> DiskType]
    /\ rows \in [Files -> RowType]
    /\ findings \in SUBSET FindingType
    /\ outstanding \in SUBSET findings
    /\ alerts \in SUBSET {"bitrot", "errors"}
    /\ cutOff \in BOOLEAN
    /\ wf \in WfType
    /\ open \in BOOLEAN
    /\ jobs \in [JobIds -> JobType]
    /\ agents \in [Agents -> AgentType]
    /\ calls \in [Agents -> CallType]
    /\ \A a \in Agents : calls[a].now \subseteq calls[a].results
    /\ was \in SUBSET (Files \X Stamps \X Bytes)
    /\ faults \in 0..MaxFaults

LEMMA TypedImpliesTypeOK == Typed => TypeOK
  BY DEF Typed, TypeOK, DiskType, RowType, FindingType, WfType, JobType, AgentType, CallType

LEMMA Idle ==
    /\ NoJob \in JobType /\ NoWf \in WfType /\ IdleAgent \in AgentType /\ NoCall \in CallType
    /\ NoCall.now \subseteq NoCall.results
  BY HashAssumption DEF NoJob, JobType, NoWf, WfType, IdleAgent, AgentType, NoCall, CallType, Stamps

LEMMA TypedInit == Init => Typed
  <1> SUFFICES ASSUME Init PROVE Typed
    OBVIOUS
  <1>1. 1 \in Stamps /\ (CHOOSE b \in Bytes : TRUE) \in Bytes /\ 0 \in 0..MaxFaults
    BY HashAssumption DEF Stamps
  <1>2. disk \in [Files -> DiskType]
    BY <1>1 DEF Init, DiskType
  <1>3. rows \in [Files -> RowType]
    BY <1>1 DEF Init, RowType
  <1>4. was \in SUBSET (Files \X Stamps \X Bytes)
    BY <1>1, <1>2 DEF Init, DiskType
  <1> QED BY <1>1, <1>2, <1>3, <1>4, Idle DEF Init, Typed

-----------------------------------------------------------------------------
(* What a reply does to the agent that waits for it, and its call.         *)
LEMMA RepliedType ==
    ASSUME Typed, NEW a \in Agents, NEW continue \in BOOLEAN, Replied(a, continue)
    PROVE  /\ agents' \in [Agents -> AgentType]
           /\ calls' \in [Agents -> CallType]
           /\ \A b \in Agents : calls'[b].now \subseteq calls'[b].results
  <1>1. agents[a] \in AgentType
    BY DEF Typed
  <1>2. [agents[a] EXCEPT !.pc = IF agents[a].todo = {} THEN "completed"
                                 ELSE IF continue THEN "stat" ELSE "paused"] \in AgentType
    BY <1>1 DEF AgentType, EndStates
  <1>3. agents' \in [Agents -> AgentType]
    BY <1>2 DEF Typed, Replied
  <1>4. calls' = [calls EXCEPT ![a] = NoCall]
    BY DEF Replied
  <1>5. calls' \in [Agents -> CallType]
    BY <1>4, Idle DEF Typed
  <1>6. \A b \in Agents : calls'[b].now \subseteq calls'[b].results
    BY <1>4, Idle DEF Typed
  <1> QED BY <1>3, <1>5, <1>6

LEMMA TypedStep == Typed /\ [Next]_vars => Typed'
  <1> SUFFICES ASSUME Typed, [Next]_vars PROVE Typed'
    OBVIOUS
  <1> USE DEF hosts, catalog, notices
  <1>a. ASSUME Fault PROVE faults' \in 0..MaxFaults
    BY <1>a, HashAssumption DEF Fault, Typed
  <1>b. \A O : Synced(O) \in SUBSET {"bitrot", "errors"}
    BY DEF Synced, Typed
  <1>c. wf \in WfType /\ \A j \in 0..MaxJobs, pc \in {"off", "asking", "polling"} :
          [wf EXCEPT !.pc = pc, !.job = j] \in WfType
    BY DEF Typed, WfType
  <1>d. ASSUME Ends PROVE /\ wf' \in WfType /\ open' \in BOOLEAN
                          /\ alerts' \in SUBSET {"bitrot", "errors"} /\ cutOff' \in BOOLEAN
    BY <1>d, <1>b, Idle DEF Ends
  <1>e. ASSUME NEW j, NEW s \in {"none", "queued", "claimed", "cancelled"} \cup EndStates, NEW c \in BOOLEAN
        PROVE  /\ [jobs EXCEPT ![j].state = s] \in [JobIds -> JobType]
               /\ [jobs EXCEPT ![j].state = s, ![j].cancel = @ \/ c] \in [JobIds -> JobType]
               /\ [jobs EXCEPT ![j].cancel = c] \in [JobIds -> JobType]
    <2>1. CASE j \in JobIds
      <3>1. jobs[j] \in JobType
        BY <2>1 DEF Typed
      <3>2. /\ [jobs[j] EXCEPT !.state = s] \in JobType
            /\ [jobs[j] EXCEPT !.state = s, !.cancel = @ \/ c] \in JobType
            /\ [jobs[j] EXCEPT !.cancel = c] \in JobType
        BY <3>1 DEF JobType
      <3> QED BY <2>1, <3>2 DEF Typed
    <2>2. CASE j \notin JobIds
      BY <2>2 DEF Typed
    <2> QED BY <2>1, <2>2
  <1>1. CASE Begin
    BY <1>1, Idle DEF Begin, Typed, NoWf, WfType
  <1>2. CASE AskedToStop
    BY <1>2, <1>a DEF AskedToStop, Typed, WfType
  <1>3. CASE Ask
    <2>1. CASE wf.asked
      BY <1>3, <2>1, Idle DEF Ask, Pauses, Typed
    <2>2. CASE ~wf.asked /\ Queue = {}
      BY <1>3, <2>2, <1>d DEF Ask, Typed
    <2>3. CASE ~wf.asked /\ Queue # {}
      <3>1. PICK j \in JobIds :
               /\ \/ UNCHANGED jobs
                  \/ \E B \in Batches :
                       jobs' = [jobs EXCEPT ![j] = [NoJob EXCEPT !.state = "queued", !.files = B]]
               /\ wf' = [wf EXCEPT !.pc = "polling", !.job = j]
        BY <1>3, <2>3 DEF Ask
      <3>2. wf' \in WfType
        <4>1. j \in 0..MaxJobs
          BY DEF JobIds
        <4> QED BY <3>1, <4>1, <1>c
      <3>3. \A B \in Batches : [NoJob EXCEPT !.state = "queued", !.files = B] \in JobType
        BY DEF Batches, Queue, NoJob, JobType
      <3>4. jobs' \in [JobIds -> JobType]
        BY <3>1, <3>3 DEF Typed
      <3> QED BY <1>3, <2>3, <3>2, <3>4 DEF Ask, Typed
    <2> QED BY <2>1, <2>2, <2>3, <1>3 DEF Ask
  <1>4. CASE PollQueued
    <2>1. wf.asked \in BOOLEAN
      BY <1>c DEF WfType
    <2>2. jobs' \in [JobIds -> JobType]
      BY <1>4, <1>e, <2>1 DEF PollQueued
    <2>3. wf' \in WfType /\ faults' \in 0..MaxFaults
      BY <1>4, <1>a, Idle DEF PollQueued, Typed
    <2> QED BY <1>4, <2>2, <2>3 DEF PollQueued, Typed
  <1>5. CASE PollClaimed
    <2>1. jobs' \in [JobIds -> JobType]
      BY <1>5, <1>e DEF PollClaimed
    <2> QED BY <1>5, <2>1 DEF PollClaimed, Typed
  <1>6. CASE PollDone
    <2>1. 0 \in 0..MaxJobs
      BY HashAssumption
    <2>2. CASE Polls("completed") /\ wf' = [wf EXCEPT !.pc = "asking", !.job = 0] /\ UNCHANGED <<open, notices>>
      BY <1>6, <2>1, <2>2, <1>c DEF PollDone, Typed
    <2>3. CASE Polls("paused") /\ Pauses
      BY <1>6, <2>3, Idle DEF PollDone, Pauses, Typed
    <2>4. CASE Ends
      BY <1>6, <2>4, <1>d DEF PollDone, Typed
    <2> QED BY <1>6, <2>2, <2>3, <2>4 DEF PollDone
  <1>7. ASSUME NEW k \in findings, SetStatus(k) PROVE Typed'
    BY <1>7, <1>b DEF SetStatus, Typed
  <1>8. ASSUME NEW j \in JobIds, Reclaim(j) PROVE Typed'
    <2>1. jobs' \in [JobIds -> JobType] /\ faults' \in 0..MaxFaults
      BY <1>8, <1>a, <1>e DEF Reclaim, Typed
    <2> QED BY <1>8, <2>1 DEF Reclaim, Typed
  <1>9. ASSUME NEW a \in Agents, Claim(a) PROVE Typed'
    <2>1. PICK j \in JobIds :
             /\ jobs' = [jobs EXCEPT ![j].state = "claimed"]
             /\ agents' = [agents EXCEPT ![a] = [IdleAgent EXCEPT !.pc = "stat", !.job = j, !.todo = jobs[j].files]]
      BY <1>9 DEF Claim
    <2>2. jobs' \in [JobIds -> JobType]
      BY <2>1, <1>e
    <2>3. j \in 0..MaxJobs /\ jobs[j].files \in SUBSET Files
      BY DEF JobIds, Typed, JobType
    <2>4. [IdleAgent EXCEPT !.pc = "stat", !.job = j, !.todo = jobs[j].files] \in AgentType
      BY <2>3, Idle DEF IdleAgent, AgentType
    <2> QED BY <1>9, <2>1, <2>2, <2>4 DEF Claim, Typed
  <1>10. ASSUME NEW a \in Agents, Stat(a) PROVE Typed'
    <2>1. agents[a] \in AgentType
      BY DEF Typed
    <2>2. PICK f \in agents[a].todo :
             agents' = [agents EXCEPT ![a].pc = "read", ![a].file = {f}, ![a].stamp = disk[f].stamp]
      BY <1>10 DEF Stat
    <2>3. f \in Files /\ disk[f].stamp \in Stamps
      BY <2>1 DEF AgentType, Typed, DiskType
    <2>4. [agents[a] EXCEPT !.pc = "read", !.file = {f}, !.stamp = disk[f].stamp] \in AgentType
      BY <2>1, <2>3 DEF AgentType
    <2> QED BY <1>10, <2>2, <2>4 DEF Stat, Typed
  <1>11. ASSUME NEW a \in Agents, Read(a) PROVE Typed'
    <2>1. agents[a] \in AgentType
      BY DEF Typed
    <2>2. PICK f \in agents[a].file, ok \in BOOLEAN, full \in BOOLEAN :
            LET r == [file |-> f, ok |-> ok, stamp |-> agents[a].stamp, bytes |-> disk[f].bytes]
                results == agents[a].results \cup {r}
                todo == agents[a].todo \ {f}
            IN /\ IF ok THEN UNCHANGED faults ELSE Fault
               /\ agents' = [agents EXCEPT ![a] = [@ EXCEPT !.pc = IF full THEN "posted" ELSE "stat",
                                                            !.todo = todo, !.file = {},
                                                            !.results = IF full THEN {} ELSE results]]
               /\ calls' = IF full
                           THEN [calls EXCEPT ![a] = [NoCall EXCEPT !.stage = "sent", !.job = agents[a].job,
                                                                   !.results = results]]
                           ELSE calls
      BY <1>11, Zenon DEF Read
    <2> DEFINE r == [file |-> f, ok |-> ok, stamp |-> agents[a].stamp, bytes |-> disk[f].bytes]
               results == agents[a].results \cup {r}
    <2>3. f \in Files /\ r \in Result
      BY <2>1 DEF AgentType, Typed, DiskType, Result
    <2>4. results \in SUBSET Result
      BY <2>1, <2>3 DEF AgentType
    <2>5. [agents[a] EXCEPT !.pc = IF full THEN "posted" ELSE "stat", !.todo = agents[a].todo \ {f}, !.file = {},
                            !.results = IF full THEN {} ELSE results] \in AgentType
      BY <2>1, <2>4 DEF AgentType
    <2>6. agents' \in [Agents -> AgentType]
      BY <2>2, <2>5 DEF Typed
    <2> DEFINE c == [NoCall EXCEPT !.stage = "sent", !.job = agents[a].job, !.results = results]
    <2>7. c \in CallType /\ c.now \subseteq c.results
      BY <2>1, <2>4, Idle DEF AgentType, CallType, NoCall
    <2>8. calls' = [calls EXCEPT ![a] = c] \/ calls' = calls
      BY <2>2
    <2>9. calls' \in [Agents -> CallType] /\ \A b \in Agents : calls'[b].now \subseteq calls'[b].results
      <3> HIDE DEF c
      <3> QED BY <2>7, <2>8 DEF Typed
    <2>10. faults' \in 0..MaxFaults
      BY <2>2, <1>a DEF Typed
    <2> QED BY <1>11, <2>6, <2>9, <2>10 DEF Read, Typed
  <1>12. ASSUME NEW a \in Agents, Finish(a) PROVE Typed'
    <2>1. jobs' \in [JobIds -> JobType]
      BY <1>12, <1>e DEF Finish
    <2>2. agents' \in [Agents -> AgentType]
      BY <1>12, Idle DEF Finish, Typed
    <2> QED BY <1>12, <2>1, <2>2 DEF Finish, Typed
  <1>13. ASSUME NEW a \in Agents, LosesCall(a) PROVE Typed'
    <2>1. agents[a] \in AgentType
      BY DEF Typed
    <2>2. [agents[a] EXCEPT !.pc = "failed"] \in AgentType
      BY <2>1 DEF AgentType, EndStates
    <2>3. agents' \in [Agents -> AgentType]
      BY <1>13, <2>2, Idle DEF LosesCall, Typed
    <2>4. faults' \in 0..MaxFaults
      BY <1>13, <1>a DEF LosesCall, Typed
    <2> QED BY <1>13, <2>3, <2>4 DEF LosesCall, Typed
  <1>14. ASSUME NEW a \in Agents, Dies(a) PROVE Typed'
    <2>1. agents' \in [Agents -> AgentType] /\ faults' \in 0..MaxFaults
      BY <1>14, <1>a, Idle DEF Dies, Typed
    <2> QED BY <1>14, <2>1 DEF Dies, Typed
  <1>15. ASSUME NEW f \in Files, Scan(f) PROVE Typed'
    <2>1. rows[f] \in RowType /\ disk[f].stamp \in Stamps
      BY DEF Typed, DiskType
    <2>2. [rows[f] EXCEPT !.stamp = disk[f].stamp] \in RowType
      BY <2>1 DEF RowType
    <2> QED BY <1>15, <2>2 DEF Scan, Typed
  <1>16. ASSUME NEW f \in Files, Ages(f) PROVE Typed'
    <2>1. rows[f] \in RowType
      BY DEF Typed
    <2>2. [rows[f] EXCEPT !.aged = TRUE] \in RowType
      BY <2>1 DEF RowType
    <2> QED BY <1>16, <2>2 DEF Ages, Typed
  <1>17. ASSUME NEW f \in Files, NEW s \in Stamps, NEW b \in Bytes, Becomes(f, s, b) PROVE Typed'
    <2>1. [stamp |-> s, bytes |-> b] \in DiskType /\ <<f, s, b>> \in Files \X Stamps \X Bytes
      BY DEF DiskType
    <2>2. was' \in SUBSET (Files \X Stamps \X Bytes)
      BY <1>17, <2>1 DEF Becomes, Typed
    <2> QED BY <1>17, <2>1, <2>2 DEF Becomes, Typed
  <1>18. ASSUME NEW f \in Files, Write(f) \/ Rot(f) PROVE Typed'
    <2>1. disk[f].stamp \in Stamps
      BY DEF Typed, DiskType
    <2>2. CASE Write(f)
      <3>1. disk[f].stamp + 1 \in Stamps
        BY <2>1, <2>2, HashAssumption DEF Write, Stamps
      <3> QED BY <1>17, <2>2, <3>1 DEF Write
    <2>3. CASE Rot(f)
      BY <1>17, <2>1, <2>3 DEF Rot
    <2> QED BY <1>18, <2>2, <2>3
  <1>19. ASSUME NEW a \in Agents, BatchArrives(a) PROVE Typed'
    <2>1. calls[a] \in CallType /\ calls[a].now \subseteq calls[a].results
      BY DEF Typed
    <2>2. CASE calls' = [calls EXCEPT ![a].stage = "applying"] /\ UNCHANGED agents
      <3>1. [calls[a] EXCEPT !.stage = "applying"] \in CallType
        BY <2>1 DEF CallType
      <3>2. calls' \in [Agents -> CallType]
        BY <2>2, <3>1 DEF Typed
      <3>3. \A b \in Agents : calls'[b].now \subseteq calls'[b].results
        BY <2>2 DEF Typed, CallType
      <3> QED BY <1>19, <2>2, <3>2, <3>3 DEF BatchArrives, Typed
    <2>3. CASE Replied(a, FALSE)
      BY <1>19, <2>3, RepliedType DEF BatchArrives, Typed
    <2> QED BY <1>19, <2>2, <2>3 DEF BatchArrives
  <1>20. ASSUME NEW a \in Agents, RecordFinding(a) PROVE Typed'
    <2>1. calls[a] \in CallType /\ calls[a].results \subseteq Result
      BY DEF Typed, CallType
    <2>2. PICK r \in calls[a].results :
            LET k == [file |-> r.file, expected |-> rows[r.file].hash, actual |-> r.bytes] IN
            /\ Suspect(r)
            /\ findings' = findings \cup {k}
            /\ outstanding' = IF k \in findings THEN outstanding ELSE outstanding \cup {k}
            /\ calls' = [calls EXCEPT ![a].stage = "found", ![a].now = {r}, ![a].isNew = @ \/ k \notin findings]
      BY <1>20 DEF RecordFinding
    <2> DEFINE k == [file |-> r.file, expected |-> rows[r.file].hash, actual |-> r.bytes]
    <2>3. r \in Result /\ rows[r.file] \in RowType /\ rows[r.file].hash # NotHashed
      BY <2>1, <2>2 DEF Result, Typed, Suspect
    <2>4. k \in FindingType
      BY <2>3 DEF Result, RowType, FindingType
    <2>5. findings' \in SUBSET FindingType /\ outstanding' \in SUBSET findings'
      BY <2>2, <2>4 DEF Typed
    <2>6. [calls[a] EXCEPT !.stage = "found", !.now = {r}, !.isNew = @ \/ k \notin findings] \in CallType
      BY <2>1, <2>3 DEF CallType
    <2>7. calls' \in [Agents -> CallType]
      BY <2>2, <2>6 DEF Typed
    <2>8. \A b \in Agents : calls'[b].now \subseteq calls'[b].results
      BY <2>1, <2>2 DEF Typed, CallType
    <2> QED BY <1>20, <2>5, <2>7, <2>8 DEF RecordFinding, Typed
  <1>21. ASSUME NEW a \in Agents, RecordHash(a) PROVE Typed'
    <2>1. calls[a] \in CallType /\ calls[a].results \subseteq Result
      BY DEF Typed, CallType
    <2>2. PICK r \in calls[a].results :
        /\ rows' = [rows EXCEPT ![r.file] =
                      IF r.ok THEN [@ EXCEPT !.hash = r.bytes, !.at = r.stamp, !.aged = FALSE, !.error = FALSE]
                      ELSE [@ EXCEPT !.error = TRUE]]
        /\ calls' = [calls EXCEPT ![a].stage = "applying", ![a].now = {}, ![a].results = @ \ {r}]
      BY <1>21 DEF RecordHash
    <2>3. r \in Result /\ rows[r.file] \in RowType
      BY <2>1 DEF Result, Typed
    <2>4. /\ [rows[r.file] EXCEPT !.hash = r.bytes, !.at = r.stamp, !.aged = FALSE, !.error = FALSE] \in RowType
          /\ [rows[r.file] EXCEPT !.error = TRUE] \in RowType
      BY <2>3 DEF RowType, Result
    <2>5. rows' \in [Files -> RowType]
      BY <2>2, <2>3, <2>4 DEF Typed
    <2>6. [calls[a] EXCEPT !.stage = "applying", !.now = {}, !.results = @ \ {r}] \in CallType
      BY <2>1 DEF CallType
    <2>7. calls' \in [Agents -> CallType]
      BY <2>2, <2>6 DEF Typed
    <2>8. \A b \in Agents : calls'[b].now \subseteq calls'[b].results
      BY <2>1, <2>2 DEF Typed, CallType
    <2> QED BY <1>21, <2>5, <2>7, <2>8 DEF RecordHash, Typed
  <1>22. ASSUME NEW a \in Agents, BatchDone(a) PROVE Typed'
    <2>1. (jobs[calls[a].job].state = "claimed" /\ ~jobs[calls[a].job].cancel) \in BOOLEAN
      OBVIOUS
    <2>2. /\ agents' \in [Agents -> AgentType]
          /\ calls' \in [Agents -> CallType]
          /\ \A b \in Agents : calls'[b].now \subseteq calls'[b].results
      BY <1>22, <2>1, RepliedType DEF BatchDone
    <2>3. alerts' \in SUBSET {"bitrot", "errors"} /\ cutOff' \in BOOLEAN
      BY <1>22, <1>b DEF BatchDone, Typed
    <2> QED BY <1>22, <2>2, <2>3 DEF BatchDone, Typed
  <1>23. CASE Restart
    <2>1. calls' \in [Agents -> CallType] /\ \A b \in Agents : calls'[b].now \subseteq calls'[b].results
      BY <1>23, Idle DEF Restart
    <2>2. cutOff' \in BOOLEAN /\ faults' \in 0..MaxFaults
      BY <1>23, <1>a DEF Restart, Typed, ServerFree
    <2> QED BY <1>23, <2>1, <2>2, Idle DEF Restart, Typed
  <1>24. CASE UNCHANGED vars
    BY <1>24 DEF vars, Typed
  <1> QED BY <1>1, <1>2, <1>3, <1>4, <1>5, <1>6, <1>7, <1>8, <1>9, <1>10, <1>11, <1>12, <1>13, <1>14,
             <1>15, <1>16, <1>18, <1>19, <1>20, <1>21, <1>22, <1>23, <1>24, HashAssumption
          DEF Next, Poll, Serve, Agent, Outside

(* Every variable holds values of its type: what an agent posts are        *)
(* results of files, a finding names two contents, a job is in a state     *)
(* the queue knows.                                                        *)
THEOREM TypeCorrect == Spec => []TypeOK
  <1>1. Spec => []Typed
    BY TypedInit, TypedStep, PTL DEF Spec
  <1> QED BY <1>1, TypedImpliesTypeOK, PTL
-----------------------------------------------------------------------------
(* The decision what is rot.                                               *)

Serving(a) == calls[a].stage \in {"applying", "found"}

(* One batch is applied at a time, and between the two statements that     *)
(* deal with a mismatch the finding is on record.                          *)
OneHandler == \A a, b \in Agents : Serving(a) /\ Serving(b) => a = b

FindingOf(r) == [file |-> r.file, expected |-> rows[r.file].hash, actual |-> r.bytes]

FoundIsOnRecord ==
    \A a \in Agents : calls[a].stage = "found" => \A r \in calls[a].now : FindingOf(r) \in findings

(* Between two states with the same catalog only calls can break it.       *)
LEMMA HandlersInit == Init => OneHandler /\ FoundIsOnRecord
  BY DEF Init, OneHandler, FoundIsOnRecord, Serving, NoCall

(* A step that starts no handler and, if any runs, writes no row.          *)
LEMMA HandlersKept ==
    ASSUME Typed, OneHandler, FoundIsOnRecord, findings' = findings,
           \A a \in Agents : calls'[a] = calls[a] \/ calls'[a].stage \in {"none", "sent"},
           rows' = rows \/ ServerFree
    PROVE  OneHandler' /\ FoundIsOnRecord'
  <1>1. OneHandler'
    BY DEF OneHandler, Serving
  <1>2. ASSUME NEW a \in Agents, calls'[a].stage = "found", NEW r \in calls'[a].now
        PROVE  (FindingOf(r) \in findings)'
    <2>1. calls'[a] = calls[a]
      BY <1>2
    <2>2. rows' = rows
      BY <1>2, <2>1 DEF ServerFree
    <2>3. FindingOf(r) \in findings
      BY <1>2, <2>1 DEF FoundIsOnRecord
    <2> QED BY <2>2, <2>3 DEF FindingOf
  <1> QED BY <1>1, <1>2 DEF FoundIsOnRecord

LEMMA HandlersStep == Typed /\ OneHandler /\ FoundIsOnRecord /\ [Next]_vars => (OneHandler /\ FoundIsOnRecord)'
  <1> SUFFICES ASSUME Typed, OneHandler, FoundIsOnRecord, [Next]_vars
               PROVE  OneHandler' /\ FoundIsOnRecord'
    OBVIOUS
  <1> USE DEF hosts, catalog, notices
  <1>1. CASE Begin \/ AskedToStop \/ Ask \/ PollQueued \/ PollClaimed \/ PollDone
    BY <1>1, HandlersKept DEF Begin, AskedToStop, Ask, PollQueued, PollClaimed, PollDone
  <1>2. ASSUME NEW k \in findings, SetStatus(k) PROVE OneHandler' /\ FoundIsOnRecord'
    BY <1>2, HandlersKept DEF SetStatus
  <1>3. ASSUME NEW j \in JobIds, Reclaim(j) PROVE OneHandler' /\ FoundIsOnRecord'
    BY <1>3, HandlersKept DEF Reclaim
  <1>4. ASSUME NEW a \in Agents, Claim(a) \/ Stat(a) \/ Finish(a) \/ LosesCall(a) \/ Dies(a)
        PROVE  OneHandler' /\ FoundIsOnRecord'
    BY <1>4, HandlersKept DEF Claim, Stat, Finish, LosesCall, Dies
  <1>5. ASSUME NEW a \in Agents, Read(a) PROVE OneHandler' /\ FoundIsOnRecord'
    <2>1. \A b \in Agents : calls'[b] = calls[b] \/ calls'[b].stage \in {"none", "sent"}
      BY <1>5 DEF Read, NoCall, Typed
    <2> QED BY <1>5, <2>1, HandlersKept DEF Read
  <1>6. ASSUME NEW f \in Files, Scan(f) \/ Ages(f) \/ Write(f) \/ Rot(f) PROVE OneHandler' /\ FoundIsOnRecord'
    BY <1>6, HandlersKept DEF Scan, Ages, Write, Rot, Becomes
  <1>7. ASSUME NEW a \in Agents, BatchArrives(a) PROVE OneHandler' /\ FoundIsOnRecord'
    <2>1. CASE calls' = [calls EXCEPT ![a].stage = "applying"]
      <3>1. ServerFree /\ rows' = rows /\ findings' = findings
        BY <1>7 DEF BatchArrives
      <3>2. \A b \in Agents : Serving(b)' => b = a
        BY <2>1, <3>1 DEF ServerFree, Serving, Typed
      <3>3. \A b \in Agents : calls'[b].stage # "found"
        BY <2>1, <3>1 DEF ServerFree, Typed, CallType
      <3> QED BY <3>2, <3>3 DEF OneHandler, FoundIsOnRecord
    <2>2. CASE Replied(a, FALSE)
      <3>1. \A b \in Agents : calls'[b] = calls[b] \/ calls'[b].stage \in {"none", "sent"}
        BY <2>2 DEF Replied, NoCall, Typed
      <3> QED BY <1>7, <3>1, HandlersKept DEF BatchArrives
    <2> QED BY <1>7, <2>1, <2>2 DEF BatchArrives
  <1>8. ASSUME NEW a \in Agents, RecordFinding(a) PROVE OneHandler' /\ FoundIsOnRecord'
    <2>1. PICK r \in calls[a].results :
             /\ findings' = findings \cup {FindingOf(r)}
             /\ calls' = [calls EXCEPT ![a].stage = "found", ![a].now = {r},
                                       ![a].isNew = @ \/ FindingOf(r) \notin findings]
      BY <1>8 DEF RecordFinding, FindingOf
    <2>2. /\ calls[a] \in CallType /\ rows' = rows /\ Serving(a)
          /\ \A b \in Agents \ {a} : calls'[b] = calls[b]
      BY <1>8, <2>1 DEF RecordFinding, Serving, Typed
    <2>3. OneHandler'
      BY <2>2 DEF OneHandler, Serving
    <2>4. calls'[a].now = {r}
      BY <2>1, <2>2 DEF Typed, CallType
    <2>5. \A b \in Agents \ {a} : calls'[b].stage # "found"
      BY <2>2 DEF OneHandler, Serving
    <2>6. (FindingOf(r) \in findings)'
      BY <2>1, <2>2 DEF FindingOf
    <2> QED BY <2>3, <2>4, <2>5, <2>6 DEF FoundIsOnRecord
  <1>9. ASSUME NEW a \in Agents, RecordHash(a) PROVE OneHandler' /\ FoundIsOnRecord'
    <2>1. /\ Serving(a) /\ calls'[a].stage = "applying"
          /\ \A b \in Agents \ {a} : calls'[b] = calls[b]
      BY <1>9 DEF RecordHash, Serving, Typed, CallType
    <2>2. OneHandler'
      BY <2>1 DEF OneHandler, Serving
    <2>3. \A b \in Agents : calls'[b].stage # "found"
      BY <2>1 DEF OneHandler, Serving
    <2> QED BY <2>2, <2>3 DEF FoundIsOnRecord
  <1>10. ASSUME NEW a \in Agents, BatchDone(a) PROVE OneHandler' /\ FoundIsOnRecord'
    <2>1. \A b \in Agents : calls'[b] = calls[b] \/ calls'[b].stage \in {"none", "sent"}
      BY <1>10 DEF BatchDone, Replied, NoCall, Typed
    <2> QED BY <1>10, <2>1, HandlersKept DEF BatchDone
  <1>11. CASE Restart
    BY <1>11, HandlersKept DEF Restart, NoCall
  <1>12. CASE UNCHANGED vars
    BY <1>12, HandlersKept DEF vars
  <1> QED BY <1>1, <1>2, <1>3, <1>4, <1>5, <1>6, <1>7, <1>8, <1>9, <1>10, <1>11, <1>12, HashAssumption
          DEF Next, Poll, Serve, Agent, Outside

(* A hash that replaces a different one of the file as it was has its      *)
(* finding: no step of anybody else changes a hash, and the step that does *)
(* takes a result that agrees, or one whose finding is on record.          *)
LEMMA RotStep ==
    ASSUME Typed, FoundIsOnRecord, [Next]_vars,
           NEW f \in Files, rows[f].hash \in Bytes, rows'[f].at = rows[f].at, rows'[f].hash # rows[f].hash
    PROVE  [file |-> f, expected |-> rows[f].hash, actual |-> rows'[f].hash] \in findings
  <1> USE DEF hosts, catalog, notices
  <1>1. ASSUME NEW g \in Files, Scan(g) \/ Ages(g) PROVE FALSE
    <2>1. /\ rows \in [Files -> RowType]
          /\ \/ rows' = [rows EXCEPT ![g].stamp = disk[g].stamp]
             \/ rows' = [rows EXCEPT ![g].aged = TRUE]
      BY <1>1 DEF Scan, Ages, Typed
    <2>2. rows'[f].hash = rows[f].hash
      BY <2>1 DEF RowType
    <2> QED BY <2>2
  <1>2. ASSUME NEW a \in Agents, RecordHash(a)
        PROVE  [file |-> f, expected |-> rows[f].hash, actual |-> rows'[f].hash] \in findings
    <2>1. PICK r \in calls[a].results :
        /\ IF calls[a].stage = "found" THEN r \in calls[a].now ELSE ~Suspect(r)
        /\ rows' = [rows EXCEPT ![r.file] =
                      IF r.ok THEN [@ EXCEPT !.hash = r.bytes, !.at = r.stamp, !.aged = FALSE, !.error = FALSE]
                      ELSE [@ EXCEPT !.error = TRUE]]
      BY <1>2 DEF RecordHash
    <2>2. rows[f] \in RowType
      BY DEF Typed
    <2>3. r.file = f
      BY <2>1 DEF Typed
    <2>4. r.ok /\ r.stamp = rows[f].at /\ rows'[f].hash = r.bytes /\ r.bytes # rows[f].hash
      BY <2>1, <2>2, <2>3 DEF Typed, RowType
    <2>5. Suspect(r)
      BY <2>3, <2>4, HashAssumption DEF Suspect
    <2>6. FindingOf(r) \in findings
      BY <2>1, <2>5 DEF FoundIsOnRecord
    <2> QED BY <2>3, <2>4, <2>6 DEF FindingOf
  <1>3. CASE rows' = rows
    BY <1>3
  <1>4. rows' = rows \/ (\E g \in Files : Scan(g) \/ Ages(g)) \/ (\E a \in Agents : RecordHash(a))
    BY HashAssumption
       DEF Next, Poll, Serve, Agent, Outside, vars, Begin, AskedToStop, Ask, PollQueued, PollClaimed, PollDone,
           SetStatus, Reclaim, Claim, Stat, Read, Finish, LosesCall, Dies, Write, Rot, Becomes,
           BatchArrives, RecordFinding, BatchDone, Restart
  <1> QED BY <1>1, <1>2, <1>3, <1>4

(* The baseline never moves on over a mismatch that is not on record,      *)
(* wherever the service dies in the middle of a batch and however often    *)
(* a batch is posted.                                                      *)
THEOREM BaselineIsKept == Spec => RotIsNeverAbsorbed
  <1>1. Spec => [](Typed /\ OneHandler /\ FoundIsOnRecord)
    BY TypedInit, TypedStep, HandlersInit, HandlersStep, PTL DEF Spec
  <1>2. Typed /\ FoundIsOnRecord /\ [Next]_vars
          => [\A f \in Files :
                /\ rows[f].hash \in Bytes
                /\ rows'[f].at = rows[f].at
                /\ rows'[f].hash # rows[f].hash
                => [file |-> f, expected |-> rows[f].hash, actual |-> rows'[f].hash] \in findings]_vars
    BY RotStep
  <1> QED BY <1>1, <1>2, PTL DEF Spec, RotIsNeverAbsorbed

-----------------------------------------------------------------------------
(* The alert.                                                              *)

(* What nobody has been told of will be alerted by the batch that found it, *)
(* by the end of the run it belongs to, or it was cut off.                 *)
AlertOwed ==
    /\ outstanding # {} /\ "bitrot" \notin alerts
         => open \/ cutOff \/ \E a \in Agents : Serving(a) /\ calls[a].isNew
    /\ "bitrot" \in alerts => outstanding # {}

LEMMA AlertInit == Init => AlertOwed
  BY DEF Init, AlertOwed

LEMMA AlertKept ==
    ASSUME AlertOwed, outstanding' = outstanding, alerts' = alerts, cutOff' = cutOff, open' = open \/ open' = TRUE,
           \A a \in Agents : Serving(a) /\ calls[a].isNew => Serving(a)' /\ calls'[a].isNew
    PROVE  AlertOwed'
  BY DEF AlertOwed

LEMMA AlertSynced ==
    ASSUME Typed, ("bitrot" \in alerts') <=> ("bitrot" \in Synced(outstanding'))
    PROVE  AlertOwed'
  BY DEF AlertOwed, Synced

LEMMA AlertStep == Typed /\ AlertOwed /\ [Next]_vars => AlertOwed'
  <1> SUFFICES ASSUME Typed, AlertOwed, [Next]_vars PROVE AlertOwed'
    OBVIOUS
  <1> USE DEF hosts, catalog, notices
  <1>1. CASE Begin \/ AskedToStop \/ PollQueued \/ PollClaimed
    BY <1>1, AlertKept DEF Begin, AskedToStop, PollQueued, PollClaimed, Serving
  <1>2. ASSUME Ends, outstanding' = outstanding PROVE AlertOwed'
    BY <1>2, AlertSynced DEF Ends, Synced
  <1>3. CASE Ask \/ PollDone
    <2>1. CASE Ends
      BY <1>3, <2>1, <1>2 DEF Ask, PollDone
    <2>2. CASE ~Ends
      BY <1>3, <2>2, AlertKept DEF Ask, PollDone, Pauses, Serving
    <2> QED BY <2>1, <2>2
  <1>4. ASSUME NEW k \in findings, SetStatus(k) PROVE AlertOwed'
    BY <1>4, AlertSynced DEF SetStatus, Synced
  <1>5. ASSUME NEW j \in JobIds, Reclaim(j) PROVE AlertOwed'
    BY <1>5, AlertKept DEF Reclaim, Serving
  <1>6. ASSUME NEW a \in Agents, Claim(a) \/ Stat(a) \/ Finish(a) \/ LosesCall(a) \/ Dies(a) PROVE AlertOwed'
    BY <1>6, AlertKept DEF Claim, Stat, Finish, LosesCall, Dies, Serving
  <1>7. ASSUME NEW a \in Agents, Read(a) PROVE AlertOwed'
    <2>1. \A b \in Agents : Serving(b) => calls'[b] = calls[b]
      BY <1>7 DEF Read, Serving, Typed
    <2> QED BY <1>7, <2>1, AlertKept DEF Read, Serving
  <1>8. ASSUME NEW f \in Files, Scan(f) \/ Ages(f) \/ Write(f) \/ Rot(f) PROVE AlertOwed'
    BY <1>8, AlertKept DEF Scan, Ages, Write, Rot, Becomes, Serving
  <1>9. ASSUME NEW a \in Agents, BatchArrives(a) PROVE AlertOwed'
    <2>1. ~Serving(a) /\ \A b \in Agents \ {a} : calls'[b] = calls[b]
      BY <1>9 DEF BatchArrives, Serving, Replied, Typed
    <2>2. outstanding' = outstanding /\ alerts' = alerts /\ cutOff' = cutOff /\ open' = open
      BY <1>9 DEF BatchArrives
    <2> QED BY <2>1, <2>2, AlertKept DEF Serving
  <1>10. ASSUME NEW a \in Agents, RecordFinding(a) PROVE AlertOwed'
    <2>1. PICK k \in {FindingOf(r) : r \in calls[a].results} :
             /\ outstanding' = IF k \in findings THEN outstanding ELSE outstanding \cup {k}
             /\ calls' = [calls EXCEPT ![a].stage = "found", ![a].now = calls'[a].now,
                                       ![a].isNew = @ \/ k \notin findings]
      <3>1. PICK r \in calls[a].results :
             /\ outstanding' = IF FindingOf(r) \in findings THEN outstanding ELSE outstanding \cup {FindingOf(r)}
             /\ calls' = [calls EXCEPT ![a].stage = "found", ![a].now = {r},
                                       ![a].isNew = @ \/ FindingOf(r) \notin findings]
        BY <1>10 DEF RecordFinding, FindingOf
      <3>2. calls'[a].now = {r}
        BY <3>1 DEF Typed, CallType
      <3> QED BY <3>1, <3>2
    <2>2. /\ calls[a] \in CallType /\ alerts' = alerts /\ cutOff' = cutOff /\ open' = open
          /\ \A b \in Agents \ {a} : calls'[b] = calls[b]
      BY <1>10, <2>1 DEF RecordFinding, Typed
    <2>3. calls'[a].stage = "found" /\ calls'[a].isNew = (calls[a].isNew \/ k \notin findings)
      BY <2>1, <2>2 DEF Typed, CallType
    <2>4. CASE k \in findings
      BY <2>1, <2>2, <2>3, <2>4, AlertKept DEF Serving
    <2>5. CASE k \notin findings
      <3>1. Serving(a)' /\ calls'[a].isNew /\ outstanding' # {}
        BY <2>1, <2>3, <2>5 DEF Serving
      <3> QED BY <3>1 DEF AlertOwed
    <2> QED BY <2>4, <2>5
  <1>11. ASSUME NEW a \in Agents, RecordHash(a) PROVE AlertOwed'
    <2>1. calls'[a].stage = "applying" /\ calls'[a].isNew = calls[a].isNew
      BY <1>11 DEF RecordHash, Typed, CallType
    <2>2. \A b \in Agents \ {a} : calls'[b] = calls[b]
      BY <1>11 DEF RecordHash, Typed
    <2>3. outstanding' = outstanding /\ alerts' = alerts /\ cutOff' = cutOff /\ open' = open
      BY <1>11 DEF RecordHash
    <2> QED BY <2>1, <2>2, <2>3, AlertKept DEF Serving
  <1>12. ASSUME NEW a \in Agents, BatchDone(a) PROVE AlertOwed'
    <2>1. CASE calls[a].isNew
      BY <1>12, <2>1, AlertSynced DEF BatchDone, Synced
    <2>2. CASE ~calls[a].isNew
      <3>1. \A b \in Agents \ {a} : calls'[b] = calls[b]
        BY <1>12 DEF BatchDone, Replied, Typed
      <3> QED BY <1>12, <2>2, <3>1, AlertKept DEF BatchDone, Serving
    <2> QED BY <2>1, <2>2
  <1>13. CASE Restart
    BY <1>13 DEF Restart, AlertOwed, Serving, ServerFree, Typed, CallType
  <1>14. CASE UNCHANGED vars
    BY <1>14, AlertKept DEF vars, Serving
  <1> QED BY <1>1, <1>3, <1>4, <1>5, <1>6, <1>7, <1>8, <1>9, <1>10, <1>11, <1>12, <1>13, <1>14, HashAssumption
          DEF Next, Poll, Serve, Agent, Outside

(* Nobody is left untold: a finding that is outstanding is alerted, or a   *)
(* run that is not over will see to it, unless a restart cut off a batch   *)
(* that had outlived its run.                                              *)
THEOREM NobodyIsLeftUntold == Spec => []FindingsAreAlerted
  <1>1. AlertOwed => FindingsAreAlerted
    BY DEF AlertOwed, FindingsAreAlerted, ServerFree, Serving
  <1> QED BY <1>1, TypedInit, TypedStep, AlertInit, AlertStep, PTL DEF Spec

-----------------------------------------------------------------------------
(* Nothing but rot is reported, where no file is written between its last  *)
(* scan and the end of its hashing (FreshList).                            *)

Truthful(r) == <<r.file, r.stamp, r.bytes>> \in was

(* Whatever pairs a stamp with a content, on the disk, in a result under   *)
(* way or in the catalog, is a pair the file really had.                   *)
PairsAreTrue ==
    /\ \A f \in Files : <<f, disk[f].stamp, disk[f].bytes>> \in was
    /\ \A a \in Agents : \A f \in agents[a].file : agents[a].stamp = disk[f].stamp
    /\ \A a \in Agents : \A r \in agents[a].results \cup calls[a].results : Truthful(r)
    /\ \A f \in Files : rows[f].hash # NotHashed => <<f, rows[f].at, rows[f].hash>> \in was
    /\ NoFalseAlarm

LEMMA PairsInit == Init => PairsAreTrue
  BY HashAssumption DEF Init, PairsAreTrue, NoFalseAlarm, IdleAgent, NoCall

LEMMA PairsStep == FreshList /\ Typed /\ PairsAreTrue /\ [Next]_vars => PairsAreTrue'
  <1> SUFFICES ASSUME FreshList, Typed, PairsAreTrue, [Next]_vars PROVE PairsAreTrue'
    OBVIOUS
  <1> USE DEF hosts, catalog, notices
  <1>a. ASSUME UNCHANGED <<disk, was, rows, findings>>,
               \A a \in Agents : /\ agents'[a].results \subseteq agents[a].results
                                 /\ \/ agents'[a].file = {}
                                    \/ agents'[a].file = agents[a].file /\ agents'[a].stamp = agents[a].stamp,
               \A a \in Agents : calls'[a].results \subseteq calls[a].results
        PROVE  PairsAreTrue'
    BY <1>a DEF PairsAreTrue, NoFalseAlarm, Truthful
  <1>b. ASSUME NEW a \in Agents, NEW continue \in BOOLEAN, Replied(a, continue)
        PROVE  /\ \A b \in Agents : /\ agents'[b].results = agents[b].results
                                    /\ agents'[b].file = agents[b].file /\ agents'[b].stamp = agents[b].stamp
               /\ \A b \in Agents : calls'[b].results \subseteq calls[b].results
    <2>1. agents[a] \in AgentType
      BY DEF Typed
    <2>2. \A s : LET x == [agents[a] EXCEPT !.pc = s]
                 IN  x.results = agents[a].results /\ x.file = agents[a].file /\ x.stamp = agents[a].stamp
      BY <2>1 DEF AgentType
    <2>3. \A b \in Agents : /\ agents'[b].results = agents[b].results
                            /\ agents'[b].file = agents[b].file /\ agents'[b].stamp = agents[b].stamp
      BY <1>b, <2>2 DEF Replied, Typed
    <2> QED BY <1>b, <2>3 DEF Replied, NoCall, Typed
  <1>1. CASE Begin \/ AskedToStop \/ Ask \/ PollQueued \/ PollClaimed \/ PollDone
    BY <1>1, <1>a DEF Begin, AskedToStop, Ask, PollQueued, PollClaimed, PollDone
  <1>2. ASSUME NEW k \in findings, SetStatus(k) PROVE PairsAreTrue'
    BY <1>2, <1>a DEF SetStatus
  <1>3. ASSUME NEW j \in JobIds, Reclaim(j) PROVE PairsAreTrue'
    BY <1>3, <1>a DEF Reclaim
  <1>4. ASSUME NEW a \in Agents, Claim(a) \/ Finish(a) \/ Dies(a) PROVE PairsAreTrue'
    <2>1. CASE Claim(a)
      <3>1. PICK j \in JobIds :
               agents' = [agents EXCEPT ![a] = [IdleAgent EXCEPT !.pc = "stat", !.job = j, !.todo = jobs[j].files]]
        BY <2>1 DEF Claim
      <3>2. agents'[a].file = {} /\ agents'[a].results = {} /\ \A b \in Agents \ {a} : agents'[b] = agents[b]
        BY <3>1 DEF IdleAgent, Typed
      <3> QED BY <2>1, <3>2, <1>a DEF Claim
    <2>2. CASE Finish(a) \/ Dies(a)
      <3>1. agents'[a].file = {} /\ agents'[a].results = {} /\ \A b \in Agents \ {a} : agents'[b] = agents[b]
        BY <2>2 DEF Finish, Dies, IdleAgent, Typed
      <3> QED BY <2>2, <3>1, <1>a DEF Finish, Dies
    <2> QED BY <1>4, <2>1, <2>2
  <1>5. ASSUME NEW a \in Agents, LosesCall(a) PROVE PairsAreTrue'
    <2>1. agents[a] \in AgentType /\ \A b \in Agents \ {a} : agents'[b] = agents[b]
      BY <1>5 DEF LosesCall, Typed
    <2>2. agents'[a] = IdleAgent \/ agents'[a] = [agents[a] EXCEPT !.pc = "failed"]
      BY <1>5 DEF LosesCall, Typed
    <2>3. /\ agents'[a].results \subseteq agents[a].results
          /\ \/ agents'[a].file = {}
             \/ agents'[a].file = agents[a].file /\ agents'[a].stamp = agents[a].stamp
      BY <2>1, <2>2 DEF AgentType, IdleAgent
    <2> QED BY <1>5, <2>1, <2>3, <1>a DEF LosesCall
  <1>6. ASSUME NEW a \in Agents, Stat(a) PROVE PairsAreTrue'
    <2>1. PICK f \in agents[a].todo :
             agents' = [agents EXCEPT ![a].pc = "read", ![a].file = {f}, ![a].stamp = disk[f].stamp]
      BY <1>6 DEF Stat
    <2>2. /\ agents[a] \in AgentType /\ \A b \in Agents \ {a} : agents'[b] = agents[b]
          /\ UNCHANGED <<disk, was, rows, findings, calls>>
      BY <1>6, <2>1 DEF Stat, Typed
    <2>3. agents'[a].file = {f} /\ agents'[a].stamp = disk[f].stamp /\ agents'[a].results = agents[a].results
      BY <2>1, <2>2 DEF Typed, AgentType
    <2>4. \A b \in Agents : \A g \in agents'[b].file : agents'[b].stamp = disk'[g].stamp
      BY <2>2, <2>3 DEF PairsAreTrue
    <2>5. \A b \in Agents : \A r \in agents'[b].results \cup calls'[b].results : Truthful(r)'
      BY <2>2, <2>3 DEF PairsAreTrue, Truthful
    <2> QED BY <2>2, <2>4, <2>5 DEF PairsAreTrue, NoFalseAlarm
  <1>7. ASSUME NEW a \in Agents, Read(a) PROVE PairsAreTrue'
    <2>1. PICK f \in agents[a].file, ok \in BOOLEAN, full \in BOOLEAN :
            LET r == [file |-> f, ok |-> ok, stamp |-> agents[a].stamp, bytes |-> disk[f].bytes]
                results == agents[a].results \cup {r}
                todo == agents[a].todo \ {f}
            IN /\ agents' = [agents EXCEPT ![a] = [@ EXCEPT !.pc = IF full THEN "posted" ELSE "stat",
                                                            !.todo = todo, !.file = {},
                                                            !.results = IF full THEN {} ELSE results]]
               /\ calls' = IF full
                           THEN [calls EXCEPT ![a] = [NoCall EXCEPT !.stage = "sent", !.job = agents[a].job,
                                                                   !.results = results]]
                           ELSE calls
      BY <1>7, Zenon DEF Read
    <2> DEFINE r == [file |-> f, ok |-> ok, stamp |-> agents[a].stamp, bytes |-> disk[f].bytes]
               results == agents[a].results \cup {r}
    <2>2. /\ agents[a] \in AgentType /\ \A b \in Agents \ {a} : agents'[b] = agents[b] /\ calls'[b] = calls[b]
          /\ UNCHANGED <<disk, was, rows, findings>>
      BY <1>7, <2>1 DEF Read, Typed
    <2>3. agents'[a].file = {} /\ agents'[a].results \subseteq results
      BY <2>1, <2>2 DEF Typed, AgentType
    <2>4. calls'[a].results \subseteq calls[a].results \cup results
      BY <2>1, <2>2 DEF Typed, NoCall
    <2>5. f \in Files /\ <<f, disk[f].stamp, disk[f].bytes>> \in was /\ agents[a].stamp = disk[f].stamp
      BY <2>2 DEF AgentType, PairsAreTrue
    <2>6. Truthful(r)
      BY <2>5 DEF Truthful
    <2>7. \A b \in Agents : \A q \in agents'[b].results \cup calls'[b].results : Truthful(q)'
      <3>1. \A q \in results \cup calls[a].results : Truthful(q)
        BY <2>6 DEF PairsAreTrue
      <3>2. \A q \in agents'[a].results \cup calls'[a].results : Truthful(q)'
        BY <3>1, <2>2, <2>3, <2>4 DEF Truthful
      <3> QED BY <3>2, <2>2 DEF PairsAreTrue, Truthful
    <2>8. \A b \in Agents : \A g \in agents'[b].file : agents'[b].stamp = disk'[g].stamp
      BY <2>2, <2>3 DEF PairsAreTrue
    <2> QED BY <2>2, <2>7, <2>8 DEF PairsAreTrue, NoFalseAlarm
  <1>8. ASSUME NEW f \in Files, Scan(f) \/ Ages(f) PROVE PairsAreTrue'
    <2>1. UNCHANGED <<disk, was, agents, calls, findings>>
      BY <1>8 DEF Scan, Ages
    <2>2. \A g \in Files : rows'[g].hash = rows[g].hash /\ rows'[g].at = rows[g].at
      BY <1>8 DEF Scan, Ages, Typed, RowType
    <2> QED BY <2>1, <2>2 DEF PairsAreTrue, NoFalseAlarm, Truthful
  <1>9. ASSUME NEW f \in Files, NEW s \in Stamps, NEW b \in Bytes, Becomes(f, s, b),
               s = disk[f].stamp \/ \A a \in Agents : f \notin agents[a].file
        PROVE  PairsAreTrue'
    <2>1. /\ disk' = [disk EXCEPT ![f] = [stamp |-> s, bytes |-> b]] /\ was' = was \cup {<<f, s, b>>}
          /\ UNCHANGED <<rows, findings, agents, calls>>
      BY <1>9 DEF Becomes
    <2>2. \A g \in Files : <<g, disk'[g].stamp, disk'[g].bytes>> \in was'
      BY <2>1 DEF PairsAreTrue, Typed
    <2>3. \A a \in Agents : \A g \in agents'[a].file : agents'[a].stamp = disk'[g].stamp
      <3> SUFFICES ASSUME NEW a \in Agents, NEW g \in agents[a].file PROVE agents[a].stamp = disk'[g].stamp
        BY <2>1
      <3>1. g \in Files /\ agents[a].stamp = disk[g].stamp
        BY DEF Typed, AgentType, PairsAreTrue
      <3> QED BY <2>1, <3>1, <1>9 DEF Typed
    <2> QED BY <2>1, <2>2, <2>3 DEF PairsAreTrue, NoFalseAlarm, Truthful
  <1>10. ASSUME NEW f \in Files, Write(f) \/ Rot(f) PROVE PairsAreTrue'
    <2>1. disk[f].stamp \in Stamps
      BY DEF Typed, DiskType
    <2>2. CASE Write(f)
      <3>1. disk[f].stamp + 1 \in Stamps
        BY <2>1, <2>2, HashAssumption DEF Write, Stamps
      <3> QED BY <1>9, <2>2, <3>1 DEF Write
    <2>3. CASE Rot(f)
      BY <1>9, <2>1, <2>3 DEF Rot
    <2> QED BY <1>10, <2>2, <2>3
  <1>11. ASSUME NEW a \in Agents, BatchArrives(a) PROVE PairsAreTrue'
    <2>1. UNCHANGED <<disk, was, rows, findings>>
      BY <1>11 DEF BatchArrives
    <2>2. CASE calls' = [calls EXCEPT ![a].stage = "applying"] /\ UNCHANGED agents
      BY <2>1, <2>2, <1>a DEF Typed, CallType
    <2>3. CASE Replied(a, FALSE)
      BY <2>1, <2>3, <1>a, <1>b
    <2> QED BY <1>11, <2>2, <2>3 DEF BatchArrives
  <1>12. ASSUME NEW a \in Agents, RecordFinding(a) PROVE PairsAreTrue'
    <2>1. PICK r \in calls[a].results :
             /\ Suspect(r)
             /\ findings' = findings \cup {FindingOf(r)}
             /\ calls' = [calls EXCEPT ![a].stage = "found", ![a].now = {r},
                                       ![a].isNew = @ \/ FindingOf(r) \notin findings]
      BY <1>12 DEF RecordFinding, FindingOf
    <2>2. \A b \in Agents : calls'[b].results = calls[b].results
      BY <2>1 DEF Typed, CallType
    <2>3. r \in Result /\ Truthful(r)
      BY DEF Typed, CallType, PairsAreTrue
    <2>4. <<r.file, r.stamp, rows[r.file].hash>> \in was /\ r.stamp \in Stamps
      BY <2>1, <2>3 DEF Suspect, PairsAreTrue, Result
    <2>5. UNCHANGED <<disk, was, rows, agents>>
      BY <1>12 DEF RecordFinding
    <2>6. \E s \in Stamps :
             {<<FindingOf(r).file, s, FindingOf(r).expected>>, <<FindingOf(r).file, s, FindingOf(r).actual>>} \subseteq was
      BY <2>3, <2>4 DEF FindingOf, Truthful
    <2>7. NoFalseAlarm'
      BY <2>1, <2>5, <2>6 DEF NoFalseAlarm, PairsAreTrue
    <2> QED BY <2>2, <2>5, <2>7 DEF PairsAreTrue, Truthful
  <1>13. ASSUME NEW a \in Agents, RecordHash(a) PROVE PairsAreTrue'
    <2>1. PICK r \in calls[a].results :
        /\ rows' = [rows EXCEPT ![r.file] =
                      IF r.ok THEN [@ EXCEPT !.hash = r.bytes, !.at = r.stamp, !.aged = FALSE, !.error = FALSE]
                      ELSE [@ EXCEPT !.error = TRUE]]
        /\ calls' = [calls EXCEPT ![a].stage = "applying", ![a].now = {}, ![a].results = @ \ {r}]
      BY <1>13 DEF RecordHash
    <2>2. UNCHANGED <<disk, was, findings, agents>>
      BY <1>13 DEF RecordHash
    <2>3. r \in Result /\ Truthful(r) /\ rows[r.file] \in RowType
      BY DEF Typed, CallType, PairsAreTrue, Result
    <2>4. \A f \in Files : rows'[f].hash # NotHashed => <<f, rows'[f].at, rows'[f].hash>> \in was'
      <3>1. CASE r.ok
        BY <2>1, <2>2, <2>3, <3>1 DEF Typed, RowType, PairsAreTrue, Truthful
      <3>2. CASE ~r.ok
        BY <2>1, <2>2, <2>3, <3>2 DEF Typed, RowType, PairsAreTrue
      <3> QED BY <3>1, <3>2
    <2>5. \A b \in Agents : calls'[b].results \subseteq calls[b].results
      BY <2>1 DEF Typed, CallType
    <2> QED BY <2>2, <2>4, <2>5 DEF PairsAreTrue, NoFalseAlarm, Truthful
  <1>14. ASSUME NEW a \in Agents, BatchDone(a) PROVE PairsAreTrue'
    BY <1>14, <1>a, <1>b DEF BatchDone
  <1>15. CASE Restart
    BY <1>15, <1>a DEF Restart, NoCall
  <1>16. CASE UNCHANGED vars
    BY <1>16, <1>a DEF vars
  <1> QED BY <1>1, <1>2, <1>3, <1>4, <1>5, <1>6, <1>7, <1>8, <1>10, <1>11, <1>12, <1>13, <1>14, <1>15, <1>16,
             HashAssumption
          DEF Next, Poll, Serve, Agent, Outside

(* Every finding is of a file that really had both contents under one      *)
(* stamp.  Without FreshList TLC finds a false alarm (run HashStraddle).   *)
THEOREM OnlyRotIsReported == FreshList => (Spec => []NoFalseAlarm)
  <1> SUFFICES ASSUME FreshList PROVE Spec => []NoFalseAlarm
    OBVIOUS
  <1>1. PairsAreTrue => NoFalseAlarm
    BY DEF PairsAreTrue
  <1>2. Typed /\ PairsAreTrue /\ [Next]_vars => PairsAreTrue'
    BY PairsStep
  <1> QED BY <1>1, <1>2, TypedInit, TypedStep, PairsInit, PTL DEF Spec
=============================================================================
