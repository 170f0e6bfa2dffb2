-------------------------- MODULE AgentScanProofs --------------------------
(***************************************************************************)
(* What TLAPS proves of AgentScan, for every tree, every set of files and  *)
(* agents and every bound: who owns the root's job, what a sweep may take  *)
(* for deleted, and that every worklist still leads to what was not seen.  *)
(***************************************************************************)
EXTENDS AgentScan, FiniteSetTheorems, TLAPS

IsRunning(r) == runs[r] = "running"
CallIsOn(a) == calls[a].stage # "none"
AgentIsOn(a) == agents[a].pc # "idle"

-----------------------------------------------------------------------------
(* The invariant.                                                          *)

(* What refers to a row refers to one that exists.                         *)
Referred ==
    /\ \A a \in Agents : AgentIsOn(a) => agents[a].job \in JobIds /\ jobs[agents[a].job].run \in RunIds
    /\ \A a \in Agents : CallIsOn(a) => calls[a].job \in JobIds /\ jobs[calls[a].job].run \in RunIds
    /\ \A j \in JobIds : jobs[j].run # 0 => runs[jobs[j].run] # "none"
    /\ \A f \in Files : seen[f] # 0 => runs[seen[f]] # "none"

(* One catalog run is running at most, and it is what the cursor, the      *)
(* workflow and the outstanding job belong to.                             *)
OneRun ==
    /\ \A r, q \in RunIds : IsRunning(r) /\ IsRunning(q) => r = q
    /\ saved.run # 0 => IsRunning(saved.run)
    /\ saved.run = 0 => saved.list = {}
    /\ wf.pc = "off" => wf = NoWf
    /\ wf.pc # "off" => /\ wf.job \in JobIds /\ wf.run \in RunIds
                        /\ IsRunning(wf.run) /\ jobs[wf.job].run = wf.run
    /\ \A j \in JobIds : Outstanding(j) => jobs[j].run \in RunIds /\ IsRunning(jobs[j].run)

Owned == Referred /\ OneRun /\ OneOutstandingJob

(* With InTime.  A batch that is being recorded, or may still be, belongs  *)
(* to the catalog run that is running, and holds what was seen in it.      *)
Timely ==
    /\ \A f \in Files : Presence(f, disk) \in span[f]
    /\ \A a \in Agents : calls[a].stage = "open" =>
          \A r \in RunIds : IsRunning(r) => jobs[calls[a].job].run = r
    /\ \A a \in Agents :
          calls[a].stage = "open" \/ (calls[a].stage = "sent" /\ Outstanding(calls[a].job))
             => \A f \in calls[a].todo : "here" \in span[f]
    /\ \A r \in RunIds : IsRunning(r) => \A f \in Files : seen[f] = r => "here" \in span[f]
    /\ wf.pc = "rollup" => \A f \in live : seen[f] = wf.run

(* With InTime and RootStays.  A job that is outstanding has one agent, an *)
(* agent that means to go on has its job, and what it waits for is its own.*)
OneWorker ==
    /\ \A j \in JobIds : jobs[j].state = "queued" => \A a \in Agents : ~Working(a, j)
    /\ \A j \in JobIds : Outstanding(j) =>
          \A a, b \in Agents : Working(a, j) /\ Working(b, j) => a = b
    /\ \A a \in Agents : agents[a].pc \in {"walk", "posted", "completed", "paused"}
          => jobs[agents[a].job].state = "claimed"
    /\ \A a \in Agents : agents[a].pc = "posted" /\ CallIsOn(a)
          => calls[a].job = agents[a].job /\ calls[a].list = agents[a].list
    /\ \A a \in Agents : agents[a].pc = "completed" => agents[a].list = {}

(* What remains to be visited or has been recorded, apart from todo.       *)
Reaches(list, todo, r) ==
    \A f \in Files : f \in todo \/ LeadsTo(disk, list, f) \/ seen[f] = r \/ MayBeMissed(f)

(* With Unreadable = {} as well.  Every worklist leads to all the rest.    *)
Covered ==
    /\ saved.list # {} => Reaches(saved.list, {}, saved.run)
    /\ \A j \in JobIds :
          /\ Outstanding(j) => Reaches(StartList(j), {}, jobs[j].run)
          /\ wf.pc # "off" /\ wf.job = j /\ jobs[j].state = "paused" => Reaches(StartList(j), {}, wf.run)
          /\ wf.pc # "off" /\ wf.job = j /\ jobs[j].state = "completed" => Reaches({}, {}, wf.run)
    /\ \A a \in Agents : agents[a].pc \in {"walk", "completed", "paused"}
          => Reaches(agents[a].list, {}, jobs[agents[a].job].run)
    /\ \A a \in Agents : CallIsOn(a) /\ Outstanding(calls[a].job)
          => Reaches(calls[a].list, calls[a].todo, jobs[calls[a].job].run)
    /\ wf.pc \in {"sweeping", "rollup"} => Reaches({}, {}, wf.run)

-----------------------------------------------------------------------------
(* Places in a listing.                                                    *)

LEMMA ListingIsFinite ==
    ASSUME NEW D \in SUBSET Files, NEW d \in Entries
    PROVE  IsFiniteSet(Listing(D, d)) /\ Listing(D, d) \subseteq Files \cup Entries
  <1>1. IsFiniteSet(Files \cup Entries)
    BY TreeAssumption, FS_Union
  <1>2. Listing(D, d) \subseteq Files \cup Entries
    BY TreeAssumption DEF Listing
  <1> QED BY <1>1, <1>2, FS_Subset

LEMMA PlaceIsNat ==
    ASSUME NEW D \in SUBSET Files, NEW d \in Entries, NEW x
    PROVE  Place(D, x, d) \in Nat
  <1> DEFINE before == {y \in Listing(D, d) : Rank[y] < Rank[x]}
  <1>1. before \subseteq Listing(D, d)
    OBVIOUS
  <1>2. IsFiniteSet(before)
    BY <1>1, ListingIsFinite, FS_Subset
  <1> QED BY <1>2, FS_CardinalityType DEF Place

(* More in the listing, or further down it: no earlier place. *)
LEMMA PlaceGrows ==
    ASSUME NEW D \in SUBSET Files, NEW E \in SUBSET Files, D \subseteq E, NEW d \in Entries, NEW x
    PROVE  Place(D, x, d) <= Place(E, x, d)
  <1> DEFINE before(S) == {y \in Listing(S, d) : Rank[y] < Rank[x]}
  <1>1. before(D) \subseteq before(E) /\ before(E) \subseteq Listing(E, d)
    BY DEF Listing
  <1>2. IsFiniteSet(before(E))
    BY <1>1, ListingIsFinite, FS_Subset
  <1>3. Cardinality(before(D)) <= Cardinality(before(E))
    BY <1>1, <1>2, FS_Subset
  <1> QED BY <1>3 DEF Place

LEMMA PlaceFollowsRank ==
    ASSUME NEW D \in SUBSET Files, NEW d \in Entries,
           NEW x \in Files \cup Entries, NEW y \in Files \cup Entries, ~(Rank[y] < Rank[x])
    PROVE  Place(D, x, d) <= Place(D, y, d)
  <1> DEFINE before(z) == {w \in Listing(D, d) : Rank[w] < Rank[z]}
  <1>1. \A w \in Files \cup Entries : Rank[w] \in Nat
    BY TreeAssumption
  <1>2. before(x) \subseteq before(y)
    BY <1>1, ListingIsFinite
  <1>3. IsFiniteSet(before(y))
    <2>1. before(y) \subseteq Listing(D, d)
      OBVIOUS
    <2> QED BY <2>1, ListingIsFinite, FS_Subset
  <1>4. Cardinality(before(x)) <= Cardinality(before(y))
    BY <1>2, <1>3, FS_Subset
  <1> QED BY <1>4 DEF Place

(* When a file leaves, what it does not come before keeps its place and    *)
(* the rest moves up by one.                                               *)
LEMMA PlaceAfterLeaving ==
    ASSUME NEW D \in SUBSET Files, NEW d \in Entries, NEW x, NEW g \in D
    PROVE  /\ ~(In[g] = d /\ Rank[g] < Rank[x]) => Place(D \ {g}, x, d) = Place(D, x, d)
           /\ Place(D, x, d) <= Place(D \ {g}, x, d) + 1
  <1> DEFINE before(S) == {w \in Listing(S, d) : Rank[w] < Rank[x]}
  <1>1. before(D \ {g}) = before(D) \ {g} \/ before(D \ {g}) = before(D)
    <2>1. g \notin Children[d]
      BY TreeAssumption
    <2>2. Listing(D \ {g}, d) = Listing(D, d) \ {g}
      BY <2>1 DEF Listing
    <2> QED BY <2>2
  <1>2. ~(In[g] = d /\ Rank[g] < Rank[x]) => before(D \ {g}) = before(D)
    BY DEF Listing
  <1>3. IsFiniteSet(before(D))
    <2>1. before(D) \subseteq Listing(D, d)
      OBVIOUS
    <2> QED BY <2>1, ListingIsFinite, FS_Subset
  <1>4. Cardinality(before(D) \ {g}) \in {Cardinality(before(D)), Cardinality(before(D)) - 1}
    BY <1>3, FS_RemoveElement
  <1>5. Cardinality(before(D)) \in Nat
    BY <1>3, FS_CardinalityType
  <1>6. Cardinality(before(D)) <= Cardinality(before(D \ {g})) + 1
    <2>1. \/ Cardinality(before(D \ {g})) = Cardinality(before(D))
          \/ Cardinality(before(D \ {g})) = Cardinality(before(D)) - 1
      BY <1>1, <1>4
    <2> HIDE DEF before
    <2> QED BY <1>5, <2>1
  <1> QED BY <1>2, <1>6 DEF Place

LEMMA TakenIsListed ==
    ASSUME disk \in SUBSET Files, NEW d \in Entries, NEW n, NEW room
    PROVE  Taken(d, n, room) \subseteq Listing(disk, d)
  BY DEF Taken

(* What a batch leaves in a directory is where the worklist goes on.       *)
LEMMA ContinuesThere ==
    ASSUME disk \in SUBSET Files, NEW d \in Entries, NEW n \in Nat, NEW room \in Nat,
           NEW x \in Listing(disk, d), Place(disk, x, d) >= n, x \notin Taken(d, n, room)
    PROVE  \E k \in Nat : Continuation(d, n, room) = {<<d, k>>} /\ Place(disk, x, d) >= k
  <1> DEFINE ahead == {y \in Listing(disk, d) : Place(disk, y, d) >= n}
             files(y) == {f \in ahead \cap Files : Rank[f] < Rank[y]}
             behind == {y \in Listing(disk, d) : Place(disk, y, d) < n}
             passed == behind \cup Taken(d, n, room)
             before == {y \in Listing(disk, d) : Rank[y] < Rank[x]}
  <1>1. \A y \in Listing(disk, d) : y \in Files \cup Entries /\ Rank[y] \in Nat /\ Place(disk, y, d) \in Nat
    BY ListingIsFinite, PlaceIsNat, TreeAssumption
  <1>2. \A y \in behind : Rank[y] < Rank[x]
    <2>1. ASSUME NEW y \in behind, ~(Rank[y] < Rank[x]) PROVE FALSE
      <3>1. Place(disk, x, d) <= Place(disk, y, d)
        BY <1>1, <2>1, PlaceFollowsRank
      <3> QED BY <1>1, <3>1
    <2> QED BY <2>1
  <1>3. \A y \in Taken(d, n, room) : Rank[y] < Rank[x]
    <2>1. ASSUME NEW y \in Taken(d, n, room), ~(Rank[y] < Rank[x]) PROVE FALSE
      <3>1. y \in Listing(disk, d) /\ Cardinality(files(y)) < room /\ ~(Cardinality(files(x)) < room)
        BY DEF Taken
      <3>2. files(x) \subseteq files(y) /\ files(y) \subseteq Listing(disk, d) /\ files(x) \subseteq Listing(disk, d)
        BY <1>1, <2>1, <3>1
      <3>3. IsFiniteSet(files(y)) /\ IsFiniteSet(files(x))
        BY <3>2, ListingIsFinite, FS_Subset
      <3>4. Cardinality(files(x)) <= Cardinality(files(y))
        BY <3>2, <3>3, FS_Subset
      <3>5. Cardinality(files(x)) \in Nat /\ Cardinality(files(y)) \in Nat
        BY <3>3, FS_CardinalityType
      <3> HIDE DEF files
      <3> QED BY <3>1, <3>4, <3>5
    <2> QED BY <2>1
  <1>4. passed \subseteq before /\ before \subseteq Listing(disk, d)
    BY <1>2, <1>3, TakenIsListed
  <1>5. IsFiniteSet(before) /\ IsFiniteSet(passed)
    BY <1>4, ListingIsFinite, FS_Subset
  <1>6. Cardinality(passed) <= Cardinality(before)
    BY <1>4, <1>5, FS_Subset
  <1>7. Cardinality(passed) \in Nat /\ Cardinality(before) \in Nat
    BY <1>5, FS_CardinalityType
  <1>8. ~(Listing(disk, d) \subseteq passed)
    BY <1>1, <1>2, <1>3
  <1>9. Continuation(d, n, room) = {<<d, Cardinality(passed)>>}
    BY <1>8 DEF Continuation
  <1>10. Place(disk, x, d) = Cardinality(before)
    BY DEF Place
  <1> HIDE DEF passed, before
  <1> QED BY <1>6, <1>7, <1>9, <1>10

LEMMA ContinuationType ==
    ASSUME disk \in SUBSET Files, NEW d \in Entries, NEW n, NEW room
    PROVE  Continuation(d, n, room) \in Worklist
  <1> DEFINE passed == {y \in Listing(disk, d) : Place(disk, y, d) < n} \cup Taken(d, n, room)
  <1>1. passed \subseteq Listing(disk, d)
    BY TakenIsListed
  <1>2. Cardinality(passed) \in Nat
    BY <1>1, ListingIsFinite, FS_Subset, FS_CardinalityType
  <1>3. Continuation(d, n, room) \subseteq {<<d, Cardinality(passed)>>}
    BY DEF Continuation
  <1> HIDE DEF passed
  <1> QED BY <1>2, <1>3 DEF Worklist

-----------------------------------------------------------------------------
(* Types.                                                                  *)

WfType == [pc : {"off", "polling", "sweeping", "rollup"}, run : 0..MaxRuns, job : 0..MaxJobs, asked : BOOLEAN]
CursorType == [run : 0..MaxRuns, list : Worklist]
JobType == [state : {"none", "queued", "claimed", "cancelled"} \cup EndStates,
            cursor : Worklist, cancel : BOOLEAN, aged : BOOLEAN, run : 0..MaxRuns]
AgentType == [pc : {"idle", "walk", "posted"} \cup EndStates, job : 0..MaxJobs, list : Worklist]
CallType == [stage : {"none", "sent", "open"}, job : 0..MaxJobs, todo : SUBSET Files, list : Worklist]

LEMMA TypeParts ==
    TypeOK <=> /\ disk \subseteq Files /\ live \subseteq Files
               /\ seen \in [Files -> 0..MaxRuns]
               /\ runs \in [RunIds -> {"none", "running", "completed", "failed"}]
               /\ wf \in WfType /\ saved \in CursorType
               /\ jobs \in [JobIds -> JobType]
               /\ agents \in [Agents -> AgentType]
               /\ calls \in [Agents -> CallType]
               /\ span \in [Files -> SUBSET {"here", "gone", "skipped"}]
               /\ faults \in 0..MaxFaults
  BY DEF TypeOK, WfType, CursorType, JobType, AgentType, CallType

LEMMA EmptyList == {} \in Worklist
  BY DEF Worklist

LEMMA Nothing ==
    /\ NoJob \in JobType /\ NoWf \in WfType /\ NoCursor \in CursorType
    /\ IdleAgent \in AgentType /\ NoCall \in CallType
    /\ JobIds \subseteq 0..MaxJobs /\ RunIds \subseteq 0..MaxRuns /\ 0 \in 0..MaxJobs /\ 0 \in 0..MaxRuns
  BY BoundsAssumption, EmptyList DEF NoJob, JobType, NoWf, WfType, NoCursor, CursorType, IdleAgent, AgentType,
                          NoCall, CallType, JobIds, RunIds

(* A row of the queue edited in place stays a row. *)
LEMMA RowEdits ==
    ASSUME NEW J \in [JobIds -> JobType], NEW j,
           NEW s \in {"none", "queued", "claimed", "cancelled"} \cup EndStates,
           NEW c \in BOOLEAN, NEW L \in Worklist
    PROVE  /\ [J EXCEPT ![j].state = s] \in [JobIds -> JobType]
           /\ [J EXCEPT ![j].state = s, ![j].cancel = @ \/ c] \in [JobIds -> JobType]
           /\ [J EXCEPT ![j].cancel = c] \in [JobIds -> JobType]
           /\ [J EXCEPT ![j].aged = c] \in [JobIds -> JobType]
           /\ [J EXCEPT ![j].cursor = L] \in [JobIds -> JobType]
           /\ [J EXCEPT ![j].state = s, ![j].cursor = L] \in [JobIds -> JobType]
  <1>1. CASE j \in JobIds
    <2>1. J[j] \in JobType
      BY <1>1
    <2>2. /\ [J[j] EXCEPT !.state = s] \in JobType
          /\ [J[j] EXCEPT !.state = s, !.cancel = @ \/ c] \in JobType
          /\ [J[j] EXCEPT !.cancel = c] \in JobType
          /\ [J[j] EXCEPT !.aged = c] \in JobType
          /\ [J[j] EXCEPT !.cursor = L] \in JobType
          /\ [J[j] EXCEPT !.state = s, !.cursor = L] \in JobType
      BY <2>1 DEF JobType
    <2> QED BY <1>1, <2>2
  <1>2. CASE j \notin JobIds
    BY <1>2
  <1> QED BY <1>1, <1>2

LEMMA StateEdit ==
    ASSUME NEW J \in [JobIds -> JobType], NEW j \in JobIds,
           NEW s \in {"none", "queued", "claimed", "cancelled"} \cup EndStates
    PROVE  [J EXCEPT ![j].state = s] \in [JobIds -> JobType]
  BY RowEdits, EmptyList

LEMMA CursorEdit ==
    ASSUME NEW J \in [JobIds -> JobType], NEW j, NEW L \in Worklist
    PROVE  [J EXCEPT ![j].cursor = L] \in [JobIds -> JobType]
  BY RowEdits

LEMMA ReclaimedType ==
    ASSUME TypeOK, NEW S PROVE Reclaimed(S) \in [JobIds -> JobType]
  <1>1. \A j \in JobIds : [jobs[j] EXCEPT !.state = "queued"] \in JobType
    BY TypeParts DEF JobType
  <1> QED BY <1>1, TypeParts DEF Reclaimed

LEMMA RepliedType ==
    ASSUME TypeOK, NEW a \in Agents, NEW continue \in BOOLEAN, Replied(a, continue)
    PROVE  agents' \in [Agents -> AgentType] /\ calls' \in [Agents -> CallType]
  <1>1. agents[a] \in AgentType
    BY TypeParts
  <1>2. \A s \in {"completed", "walk", "paused"} : [agents[a] EXCEPT !.pc = s] \in AgentType
    BY <1>1 DEF AgentType, EndStates
  <1>3. agents' \in [Agents -> AgentType]
    BY <1>2, TypeParts DEF Replied
  <1> QED BY <1>3, Nothing, TypeParts DEF Replied

(* A batch takes files that are there and leaves a worklist. *)
LEMMA PostBatchParts ==
    ASSUME TypeOK, NEW a \in Agents, PostBatch(a)
    PROVE  \E found \in SUBSET disk, list \in Worklist :
             /\ agents' = [agents EXCEPT ![a].pc = "posted", ![a].list = list]
             /\ calls' = [calls EXCEPT ![a] = [stage |-> "sent", job |-> agents[a].job, todo |-> found, list |-> list]]
  <1>1. PICK e \in agents[a].list, room \in 1..BatchSize, readable \in BOOLEAN :
     LET taken == IF readable THEN Taken(e[1], e[2], room) ELSE {}
         list == (agents[a].list \ {e}) \cup ((taken \cap Entries) \X {0})
                 \cup (IF readable THEN Continuation(e[1], e[2], room) ELSE {})
     IN /\ agents' = [agents EXCEPT ![a].pc = "posted", ![a].list = list]
        /\ calls' = [calls EXCEPT ![a] = [stage |-> "sent", job |-> agents[a].job,
                                         todo |-> taken \cap Files, list |-> list]]
    BY ZenonT(40) DEF PostBatch
  <1> DEFINE taken == IF readable THEN Taken(e[1], e[2], room) ELSE {}
             rest == IF readable THEN Continuation(e[1], e[2], room) ELSE {}
             list == (agents[a].list \ {e}) \cup ((taken \cap Entries) \X {0}) \cup rest
  <1>2. agents[a].list \in Worklist /\ disk \in SUBSET Files
    BY TypeParts DEF AgentType
  <1>3. e[1] \in Entries
    BY <1>2 DEF Worklist
  <1>4. rest \in Worklist
    BY <1>2, <1>3, ContinuationType DEF Worklist
  <1>5. (taken \cap Entries) \X {0} \in Worklist
    BY DEF Worklist
  <1>6. list \in Worklist
    BY <1>2, <1>4, <1>5 DEF Worklist
  <1>7. taken \cap Files \in SUBSET disk
    BY <1>2, <1>3, TakenIsListed, TreeAssumption DEF Listing
  <1> QED BY <1>1, <1>6, <1>7

(* The page is recorded and the batch goes on. *)
GoesOn(a, page) ==
    /\ calls' \in [Agents -> CallType]
    /\ \A b \in Agents \ {a} : calls'[b] = calls[b]
    /\ calls'[a].stage = "open" /\ calls'[a].todo = calls[a].todo \ page
    /\ calls'[a].job = calls[a].job /\ calls'[a].list = calls[a].list

(* The two ways a turn of recording ends: with pages left, or with a reply. *)
LEMMA RecordPageCases ==
    ASSUME TypeOK, NEW a \in Agents, calls[a].job \in JobIds, RecordPage(a)
    PROVE  \E page \in SUBSET calls[a].todo, continue \in BOOLEAN :
              /\ live' = live \cup page
              /\ seen' = [f \in Files |-> IF f \in page THEN jobs[calls[a].job].run ELSE seen[f]]
              /\ \/ page # calls[a].todo /\ GoesOn(a, page) /\ UNCHANGED <<jobs, agents>>
                 \/ /\ page = calls[a].todo /\ Replied(a, continue)
                    /\ \/ jobs[calls[a].job].state # "claimed" /\ ~continue /\ UNCHANGED jobs
                       \/ /\ jobs[calls[a].job].state = "claimed"
                          /\ jobs' = [jobs EXCEPT ![calls[a].job].cursor = calls[a].list]
  <1>1. PICK page \in (IF calls[a].todo = {} THEN {{}} ELSE {{f} : f \in calls[a].todo}) :
        /\ RecordFiles(page, jobs[calls[a].job].run)
        /\ IF calls[a].todo # page
           THEN /\ calls' = [calls EXCEPT ![a].stage = "open", ![a].todo = @ \ page]
                /\ UNCHANGED <<jobs, agents>>
           ELSE IF jobs[calls[a].job].state # "claimed"
           THEN Replied(a, FALSE) /\ UNCHANGED jobs
           ELSE /\ Replied(a, ~jobs[calls[a].job].cancel)
                /\ jobs' = [jobs EXCEPT ![calls[a].job].cursor = calls[a].list]
    BY DEF RecordPage
  <1>2. page \in SUBSET calls[a].todo
    BY <1>1
  <1>3. (~jobs[calls[a].job].cancel) \in BOOLEAN
    BY TypeParts DEF JobType
  <1>4. CASE calls[a].todo # page
    <2>1. calls[a] \in CallType
      BY TypeParts
    <2>2. [calls[a] EXCEPT !.stage = "open", !.todo = @ \ page] \in CallType
      BY <2>1 DEF CallType
    <2>3. calls' \in [Agents -> CallType]
      BY <1>1, <1>4, <2>2, TypeParts
    <2>4. GoesOn(a, page)
      BY <1>1, <1>4, <2>1, <2>3, TypeParts DEF CallType, GoesOn
    <2> QED BY <1>1, <1>2, <1>4, <2>4 DEF RecordFiles
  <1>5. CASE calls[a].todo = page /\ jobs[calls[a].job].state # "claimed"
    BY <1>1, <1>2, <1>5 DEF RecordFiles
  <1>6. CASE calls[a].todo = page /\ jobs[calls[a].job].state = "claimed"
    BY <1>1, <1>2, <1>3, <1>6 DEF RecordFiles
  <1> QED BY <1>4, <1>5, <1>6

LEMMA RecordPageType ==
    ASSUME TypeOK, NEW a \in Agents, calls[a].job \in JobIds, RecordPage(a)
    PROVE  /\ live' \subseteq Files /\ seen' \in [Files -> 0..MaxRuns]
           /\ jobs' \in [JobIds -> JobType]
           /\ agents' \in [Agents -> AgentType] /\ calls' \in [Agents -> CallType]
  <1>1. calls[a] \in CallType /\ jobs[calls[a].job] \in JobType
    BY TypeParts
  <1>2. PICK page \in SUBSET calls[a].todo, continue \in BOOLEAN :
              /\ live' = live \cup page
              /\ seen' = [f \in Files |-> IF f \in page THEN jobs[calls[a].job].run ELSE seen[f]]
              /\ \/ GoesOn(a, page) /\ UNCHANGED <<jobs, agents>>
                 \/ /\ Replied(a, continue)
                    /\ UNCHANGED jobs \/ jobs' = [jobs EXCEPT ![calls[a].job].cursor = calls[a].list]
    BY RecordPageCases
  <1>3. live' \subseteq Files /\ seen' \in [Files -> 0..MaxRuns]
    BY <1>1, <1>2, TypeParts DEF CallType, JobType
  <1>4. CASE GoesOn(a, page) /\ UNCHANGED <<jobs, agents>>
    BY <1>3, <1>4, TypeParts DEF GoesOn
  <1>5. CASE Replied(a, continue) /\ (UNCHANGED jobs \/ jobs' = [jobs EXCEPT ![calls[a].job].cursor = calls[a].list])
    <2>1. jobs' \in [JobIds -> JobType]
      <3>1. calls[a].list \in Worklist
        BY <1>1 DEF CallType
      <3>2. [jobs EXCEPT ![calls[a].job].cursor = calls[a].list] \in [JobIds -> JobType]
        BY <3>1, CursorEdit, TypeParts
      <3> QED BY <1>5, <3>2, TypeParts
    <2> QED BY <1>3, <1>5, <2>1, RepliedType
  <1> QED BY <1>2, <1>4, <1>5

LEMMA TypeInit == Init => TypeOK
  BY Nothing, BoundsAssumption, TypeParts DEF Init

LEMMA TypeStep == TypeOK /\ Referred /\ OneRun /\ [Next]_vars => TypeOK'
  <1> SUFFICES ASSUME TypeOK, Referred, OneRun, [Next]_vars PROVE TypeOK'
    OBVIOUS
  <1>t. /\ disk' \subseteq Files /\ live' \subseteq Files
        /\ seen' \in [Files -> 0..MaxRuns]
        /\ runs' \in [RunIds -> {"none", "running", "completed", "failed"}]
        /\ wf' \in WfType /\ saved' \in CursorType
        /\ jobs' \in [JobIds -> JobType]
        /\ agents' \in [Agents -> AgentType]
        /\ calls' \in [Agents -> CallType]
        /\ span' \in [Files -> SUBSET {"here", "gone", "skipped"}]
        /\ faults' \in 0..MaxFaults
        => TypeOK'
    BY DEF TypeOK, WfType, CursorType, JobType, AgentType, CallType
  <1>f. ASSUME Fault PROVE faults' \in 0..MaxFaults
    BY <1>f, BoundsAssumption, TypeParts DEF Fault
  <1> USE TypeParts, Nothing
  <1>1. CASE Begin
    <2>1. PICK r \in RunIds, j \in JobIds :
        /\ Enqueue(r, j)
        /\ wf' = [pc |-> "polling", run |-> r, job |-> j, asked |-> FALSE]
        /\ runs' = IF runs[r] = "none" THEN [runs EXCEPT ![r] = "running"] ELSE runs
        /\ span' = IF runs[r] = "none" THEN [f \in Files |-> {Presence(f, disk)}] ELSE span
      BY <1>1 DEF Begin
    <2>2. wf' \in WfType
      BY <2>1 DEF WfType
    <2>3. [NoJob EXCEPT !.state = "queued", !.cursor = saved.list, !.run = r] \in JobType
      BY DEF JobType, CursorType
    <2>4. jobs' \in [JobIds -> JobType]
      BY <2>1, <2>3 DEF Enqueue
    <2>5. span' \in [Files -> SUBSET {"here", "gone", "skipped"}]
      BY <2>1 DEF Presence
    <2> QED BY <1>1, <2>1, <2>2, <2>4, <2>5, <1>t DEF Begin
  <1>2. CASE AskedToStop
    <2>1. wf' \in WfType
      BY <1>2 DEF AskedToStop, WfType
    <2> QED BY <1>2, <2>1, <1>t DEF AskedToStop
  <1>3. CASE PollQueued
    <2>1. wf.asked \in BOOLEAN
      BY DEF WfType
    <2>2. jobs' \in [JobIds -> JobType]
      BY <1>3, <2>1, RowEdits, EmptyList DEF PollQueued
    <2>3. wf' \in WfType /\ saved' \in CursorType
      BY <1>3 DEF PollQueued, WfType, CursorType
    <2> QED BY <1>3, <2>2, <2>3, <1>t DEF PollQueued
  <1>4. CASE PollClaimed
    <2>1. jobs' \in [JobIds -> JobType]
      BY <1>4, RowEdits, EmptyList DEF PollClaimed
    <2> QED BY <1>4, <2>1, <1>t DEF PollClaimed
  <1>5. CASE PollCompleted
    <2>1. wf' \in WfType
      BY <1>5 DEF PollCompleted, WfType
    <2> QED BY <1>5, <2>1, <1>t DEF PollCompleted
  <1>6. CASE PollPaused
    <2>1. wf.job \in JobIds
      BY <1>6 DEF PollPaused, OneRun
    <2>2. saved' \in CursorType
      BY <1>6, <2>1 DEF PollPaused, Polled, CursorType, JobType, WfType
    <2> QED BY <1>6, <2>2, <1>t DEF PollPaused
  <1>7. CASE PollFailed
    BY <1>7, <1>t DEF PollFailed
  <1>8. CASE SweepBatch
    BY <1>8, <1>t DEF SweepBatch, Missing
  <1>9. CASE SweepEnds
    <2>1. wf' \in WfType
      BY <1>9 DEF SweepEnds, WfType
    <2> QED BY <1>9, <2>1, <1>t DEF SweepEnds
  <1>10. CASE FinishRoot
    BY <1>10, <1>t DEF FinishRoot
  <1>11. CASE Reclaim
    BY <1>11, ReclaimedType, <1>t DEF Reclaim
  <1>12. ASSUME NEW j \in JobIds, CancelByHand(j) PROVE TypeOK'
    <2>1. jobs[j] \in JobType
      OBVIOUS
    <2>2. [jobs[j] EXCEPT !.cancel = TRUE] \in JobType /\ [jobs[j] EXCEPT !.state = "cancelled"] \in JobType
      BY <2>1 DEF JobType
    <2> QED BY <1>12, <2>2, <1>t DEF CancelByHand
  <1>13. ASSUME NEW j \in JobIds, TimePasses(j) PROVE TypeOK'
    <2>1. jobs' \in [JobIds -> JobType]
      BY <1>13, RowEdits, EmptyList DEF TimePasses
    <2> QED BY <1>13, <2>1, <1>t DEF TimePasses
  <1>14. ASSUME NEW a \in Agents, Claim(a) PROVE TypeOK'
    <2>1. PICK S \in SUBSET {j \in JobIds : Silent(j)}, j \in JobIds :
          \/ /\ jobs' = [Reclaimed(S) EXCEPT ![j].state = "claimed"]
             /\ \/ /\ agents' = [agents EXCEPT ![a] = [pc |-> "walk", job |-> j, list |-> StartList(j)]]
                   /\ UNCHANGED faults
                \/ Fault /\ UNCHANGED agents
          \/ /\ jobs' = [Reclaimed(S) EXCEPT ![j].state = "cancelled"]
             /\ Fault
             /\ UNCHANGED agents
      BY <1>14 DEF Claim
    <2>2. jobs' \in [JobIds -> JobType]
      <3>1. Reclaimed(S) \in [JobIds -> JobType]
        BY ReclaimedType
      <3>2. "claimed" \in {"none", "queued", "claimed", "cancelled"} \cup EndStates
            /\ "cancelled" \in {"none", "queued", "claimed", "cancelled"} \cup EndStates
        OBVIOUS
      <3>3. /\ [Reclaimed(S) EXCEPT ![j].state = "claimed"] \in [JobIds -> JobType]
            /\ [Reclaimed(S) EXCEPT ![j].state = "cancelled"] \in [JobIds -> JobType]
        BY <3>1, <3>2, StateEdit
      <3> QED BY <2>1, <3>3
    <2>3. StartList(j) \in Worklist
      <3>1. {<<Top, 0>>} \in Worklist
        BY TreeAssumption DEF Worklist
      <3>2. jobs[j].cursor \in Worklist
        BY DEF JobType
      <3> QED BY <3>1, <3>2 DEF StartList
    <2>4. [pc |-> "walk", job |-> j, list |-> StartList(j)] \in AgentType
      BY <2>3 DEF AgentType
    <2> QED BY <1>14, <2>1, <2>2, <2>4, <1>f, <1>t DEF Claim
  <1>15. ASSUME NEW a \in Agents, PostBatch(a) PROVE TypeOK'
    <2>1. PICK found \in SUBSET disk, list \in Worklist :
             /\ agents' = [agents EXCEPT ![a].pc = "posted", ![a].list = list]
             /\ calls' = [calls EXCEPT ![a] = [stage |-> "sent", job |-> agents[a].job, todo |-> found, list |-> list]]
      BY <1>15, PostBatchParts
    <2>2. [agents[a] EXCEPT !.pc = "posted", !.list = list] \in AgentType
      BY DEF AgentType
    <2>3. [stage |-> "sent", job |-> agents[a].job, todo |-> found, list |-> list] \in CallType
      BY DEF CallType, AgentType
    <2> QED BY <1>15, <2>1, <2>2, <2>3, <1>t DEF PostBatch
  <1>16. ASSUME NEW a \in Agents, Finish(a) PROVE TypeOK'
    <2>1. (IF agents[a].pc = "failed" THEN {} ELSE agents[a].list) \in Worklist
      BY EmptyList DEF AgentType
    <2>2. jobs' \in [JobIds -> JobType]
      BY <1>16, <2>1, RowEdits, EmptyList DEF Finish
    <2>3. [agents[a] EXCEPT !.pc = "failed"] \in AgentType
      BY DEF AgentType, EndStates
    <2>4. agents' \in [Agents -> AgentType] /\ faults' \in 0..MaxFaults
      BY <1>16, <2>3, <1>f DEF Finish
    <2> QED BY <1>16, <2>2, <2>4, <1>t DEF Finish
  <1>17. ASSUME NEW a \in Agents, LosesCall(a) PROVE TypeOK'
    <2>1. [agents[a] EXCEPT !.pc = "failed"] \in AgentType
      BY DEF AgentType, EndStates
    <2>2. agents' \in [Agents -> AgentType] /\ faults' \in 0..MaxFaults
      BY <1>17, <2>1, <1>f DEF LosesCall
    <2> QED BY <1>17, <2>2, <1>t DEF LosesCall
  <1>18. ASSUME NEW a \in Agents, DropsCall(a) PROVE TypeOK'
    BY <1>18, <1>t DEF DropsCall
  <1>19. ASSUME NEW a \in Agents, Dies(a) PROVE TypeOK'
    BY <1>19, <1>f, <1>t DEF Dies
  <1>20. ASSUME NEW a \in Agents, BatchRejected(a) PROVE TypeOK'
    BY <1>20, RepliedType, <1>t DEF BatchRejected
  <1>21. ASSUME NEW a \in Agents, BatchWithoutRoot(a) PROVE TypeOK'
    <2>1. jobs' \in [JobIds -> JobType]
      BY <1>21, RowEdits, EmptyList DEF BatchWithoutRoot
    <2> QED BY <1>21, <2>1, RepliedType, <1>f, <1>t DEF BatchWithoutRoot
  <1>22. ASSUME NEW a \in Agents, BatchAccepted(a) \/ BatchGoesOn(a) PROVE TypeOK'
    <2>1. calls[a].job \in JobIds /\ RecordPage(a)
      BY <1>22 DEF BatchAccepted, BatchGoesOn, Referred, CallIsOn
    <2> QED BY <1>22, <2>1, RecordPageType, <1>t DEF BatchAccepted, BatchGoesOn
  <1>23. CASE Restart
    BY <1>23, <1>f, <1>t DEF Restart
  <1>24. ASSUME NEW f \in Files, Changes(f) PROVE TypeOK'
    <2>1. span' \in [Files -> SUBSET {"here", "gone", "skipped"}]
      BY <1>24 DEF Changes, Presence
    <2> QED BY <1>24, <2>1, <1>t DEF Changes
  <1>25. CASE UNCHANGED vars
    BY <1>25, <1>t DEF vars
  <1> QED BY <1>1, <1>2, <1>3, <1>4, <1>5, <1>6, <1>7, <1>8, <1>9, <1>10, <1>11, <1>12, <1>13, <1>14, <1>15,
             <1>16, <1>17, <1>18, <1>19, <1>20, <1>21, <1>22, <1>23, <1>24, <1>25
          DEF Next, Poll, Sweep, Serve, Agent

-----------------------------------------------------------------------------
(* Who owns the job.                                                       *)

(* Most steps create no outstanding job and leave the workflow alone. *)
Quiet ==
    /\ UNCHANGED <<runs, saved, wf>>
    /\ \A j \in JobIds : jobs'[j].run = jobs[j].run /\ (Outstanding(j)' => Outstanding(j))
    /\ \A a \in Agents : AgentIsOn(a)' => agents'[a].job \in JobIds /\ jobs[agents'[a].job].run \in RunIds
    /\ \A a \in Agents : CallIsOn(a)' => calls'[a].job \in JobIds /\ jobs[calls'[a].job].run \in RunIds
    /\ \A f \in Files : seen'[f] = seen[f] \/ (seen'[f] \in RunIds /\ runs[seen'[f]] # "none")

LEMMA QuietOwned ==
    ASSUME TypeOK, Owned, Quiet PROVE Owned'
  <1>1. Referred'
    BY DEF Owned, Referred, Quiet, AgentIsOn, CallIsOn
  <1>2. OneRun'
    BY DEF Owned, OneRun, Quiet, IsRunning, NoWf
  <1>3. OneOutstandingJob'
    BY DEF Owned, OneOutstandingJob, Quiet
  <1> QED BY <1>1, <1>2, <1>3 DEF Owned

LEMMA RepliedIsQuiet ==
    ASSUME TypeOK, Owned, NEW a \in Agents, NEW continue \in BOOLEAN, Replied(a, continue)
    PROVE  /\ \A b \in Agents : AgentIsOn(b)' => agents'[b].job = agents[b].job /\ AgentIsOn(b)
           /\ \A b \in Agents : CallIsOn(b)' => calls'[b] = calls[b]
  <1>1. agents[a] \in AgentType
    BY TypeParts
  <1> QED BY <1>1, TypeParts DEF Replied, AgentIsOn, CallIsOn, NoCall, AgentType

LEMMA QuietSteps ==
    ASSUME TypeOK, Owned,
           \/ PollClaimed \/ SweepBatch \/ Reclaim
           \/ \E j \in JobIds : CancelByHand(j) \/ TimePasses(j)
           \/ \E a \in Agents : Serve(a) \/ Agent(a)
           \/ \E f \in Files : Changes(f)
    PROVE  Quiet
  <1> USE TypeParts, Nothing
  <1>t. \A k \in JobIds : jobs[k] \in JobType
    OBVIOUS
  <1>o. /\ \A b \in Agents : AgentIsOn(b) => agents[b].job \in JobIds /\ jobs[agents[b].job].run \in RunIds
        /\ \A b \in Agents : CallIsOn(b) => calls[b].job \in JobIds /\ jobs[calls[b].job].run \in RunIds
    BY DEF Owned, Referred
  <1>s. ASSUME UNCHANGED jobs
        PROVE  \A k \in JobIds : jobs'[k].run = jobs[k].run /\ (Outstanding(k)' => Outstanding(k))
    BY <1>s DEF Outstanding
  <1>r. ASSUME NEW S PROVE /\ Reclaimed(S) \in [JobIds -> JobType]
                           /\ \A k \in JobIds : Reclaimed(S)[k].run = jobs[k].run
                           /\ \A k \in JobIds \ S : Reclaimed(S)[k].state = jobs[k].state
    BY ReclaimedType, <1>t DEF Reclaimed, JobType
  <1>1. CASE PollClaimed
    <2>1. \A k \in JobIds : jobs'[k].run = jobs[k].run /\ (Outstanding(k)' => Outstanding(k))
      BY <1>1, <1>t DEF PollClaimed, Outstanding, JobType
    <2> QED BY <1>1, <2>1, <1>o DEF PollClaimed, Quiet, AgentIsOn, CallIsOn
  <1>2. CASE SweepBatch
    BY <1>2, <1>o, <1>s DEF SweepBatch, Quiet, AgentIsOn, CallIsOn
  <1>3. CASE Reclaim
    <2>1. \A k \in JobIds : jobs'[k].run = jobs[k].run /\ (Outstanding(k)' => Outstanding(k))
      BY <1>3, <1>r DEF Reclaim, Silent, Outstanding
    <2> QED BY <1>3, <2>1, <1>o DEF Reclaim, Quiet, AgentIsOn, CallIsOn
  <1>4. ASSUME NEW j \in JobIds, CancelByHand(j) PROVE Quiet
    <2>1. \A k \in JobIds : jobs'[k].run = jobs[k].run /\ (Outstanding(k)' => Outstanding(k))
      BY <1>4, <1>t DEF CancelByHand, Outstanding, JobType
    <2> QED BY <1>4, <2>1, <1>o DEF CancelByHand, Quiet, AgentIsOn, CallIsOn
  <1>5. ASSUME NEW j \in JobIds, TimePasses(j) PROVE Quiet
    <2>1. \A k \in JobIds : jobs'[k].run = jobs[k].run /\ (Outstanding(k)' => Outstanding(k))
      BY <1>5, <1>t DEF TimePasses, Outstanding, JobType
    <2> QED BY <1>5, <2>1, <1>o DEF TimePasses, Quiet, AgentIsOn, CallIsOn
  <1>6. ASSUME NEW a \in Agents, Claim(a) PROVE Quiet
    <2>1. PICK S \in SUBSET {i \in JobIds : Silent(i)}, k \in JobIds :
          /\ Reclaimed(S)[k].state = "queued"
          /\ \/ /\ jobs' = [Reclaimed(S) EXCEPT ![k].state = "claimed"]
                /\ \/ agents' = [agents EXCEPT ![a] = [pc |-> "walk", job |-> k, list |-> StartList(k)]]
                   \/ UNCHANGED agents
             \/ /\ jobs' = [Reclaimed(S) EXCEPT ![k].state = "cancelled"]
                /\ UNCHANGED agents
      BY <1>6 DEF Claim
    <2>2. Outstanding(k) /\ \A i \in S : Outstanding(i)
      BY <2>1, <1>r DEF Silent, Outstanding
    <2>3. \A i \in JobIds : jobs'[i].run = jobs[i].run /\ (Outstanding(i)' => Outstanding(i))
      BY <2>1, <2>2, <1>r DEF Outstanding, JobType
    <2>4. \A b \in Agents : AgentIsOn(b)' => agents'[b].job \in JobIds /\ jobs[agents'[b].job].run \in RunIds
      BY <2>1, <2>2, <1>o DEF AgentIsOn, Owned, OneRun
    <2> QED BY <1>6, <2>3, <2>4, <1>o DEF Claim, Quiet, CallIsOn
  <1>7. ASSUME NEW a \in Agents, PostBatch(a) PROVE Quiet
    <2>1. AgentIsOn(a)
      BY <1>7 DEF PostBatch, AgentIsOn
    <2>2. PICK found, list :
             /\ agents' = [agents EXCEPT ![a].pc = "posted", ![a].list = list]
             /\ calls' = [calls EXCEPT ![a] = [stage |-> "sent", job |-> agents[a].job, todo |-> found, list |-> list]]
      BY <1>7 DEF PostBatch
    <2>3. /\ \A b \in Agents : agents'[b].job = agents[b].job /\ (AgentIsOn(b)' => AgentIsOn(b))
          /\ \A b \in Agents : b # a => calls'[b] = calls[b]
          /\ calls'[a].job = agents[a].job
      BY <2>1, <2>2 DEF AgentIsOn, AgentType
    <2> QED BY <1>7, <2>1, <2>3, <1>o, <1>s DEF PostBatch, Quiet, CallIsOn, AgentIsOn
  <1>8. ASSUME NEW a \in Agents, Finish(a) PROVE Quiet
    <2>1. AgentIsOn(a) /\ agents[a].job \in JobIds
      BY <1>8, <1>o DEF Finish, AgentIsOn, EndStates
    <2>2. \A i \in JobIds : jobs'[i].run = jobs[i].run /\ (Outstanding(i)' => Outstanding(i))
      BY <1>8, <2>1, <1>t DEF Finish, Outstanding, JobType, EndStates
    <2>3. \A b \in Agents : AgentIsOn(b)' => AgentIsOn(b) /\ agents'[b].job = agents[b].job
      BY <1>8, <2>1 DEF Finish, AgentIsOn, IdleAgent, AgentType
    <2> QED BY <1>8, <2>2, <2>3, <1>o DEF Finish, Quiet, CallIsOn
  <1>9. ASSUME NEW a \in Agents, LosesCall(a) PROVE Quiet
    <2>1. AgentIsOn(a)
      BY <1>9 DEF LosesCall, AgentIsOn, EndStates
    <2>3. \A b \in Agents : AgentIsOn(b)' => AgentIsOn(b) /\ agents'[b].job = agents[b].job
      BY <1>9, <2>1 DEF LosesCall, AgentIsOn, IdleAgent, AgentType
    <2> QED BY <1>9, <2>3, <1>o, <1>s DEF LosesCall, Quiet, CallIsOn
  <1>10. ASSUME NEW a \in Agents, DropsCall(a) PROVE Quiet
    <2>1. \A b \in Agents : CallIsOn(b)' => calls'[b] = calls[b]
      BY <1>10 DEF DropsCall, CallIsOn, NoCall
    <2> QED BY <1>10, <2>1, <1>o, <1>s DEF DropsCall, Quiet, AgentIsOn, CallIsOn
  <1>11. ASSUME NEW a \in Agents, Dies(a) PROVE Quiet
    <2>3. \A b \in Agents : AgentIsOn(b)' => AgentIsOn(b) /\ agents'[b].job = agents[b].job
      BY <1>11 DEF Dies, AgentIsOn, IdleAgent, AgentType
    <2> QED BY <1>11, <2>3, <1>o, <1>s DEF Dies, Quiet, CallIsOn
  <1>12. ASSUME NEW a \in Agents, BatchRejected(a) PROVE Quiet
    BY <1>12, RepliedIsQuiet, <1>o, <1>s DEF BatchRejected, Quiet, CallIsOn
  <1>13. ASSUME NEW a \in Agents, BatchWithoutRoot(a) PROVE Quiet
    <2>1. \A i \in JobIds : jobs'[i].run = jobs[i].run /\ (Outstanding(i)' => Outstanding(i))
      BY <1>13, <1>t DEF BatchWithoutRoot, Outstanding, JobType
    <2> QED BY <1>13, <2>1, RepliedIsQuiet, <1>o DEF BatchWithoutRoot, Quiet, CallIsOn
  <1>14. ASSUME NEW a \in Agents, BatchAccepted(a) \/ BatchGoesOn(a) PROVE Quiet
    <2>1. CallIsOn(a) /\ RecordPage(a) /\ UNCHANGED <<runs, saved, wf>>
      BY <1>14 DEF BatchAccepted, BatchGoesOn, CallIsOn
    <2>2. calls[a].job \in JobIds /\ jobs[calls[a].job].run \in RunIds
      BY <2>1, <1>o
    <2>3. runs[jobs[calls[a].job].run] # "none"
      <3>1. jobs[calls[a].job].run # 0
        BY <2>2, BoundsAssumption DEF RunIds
      <3> QED BY <2>2, <3>1 DEF Owned, Referred
    <2>4. PICK page \in SUBSET calls[a].todo, continue \in BOOLEAN :
              /\ live' = live \cup page
              /\ seen' = [g \in Files |-> IF g \in page THEN jobs[calls[a].job].run ELSE seen[g]]
              /\ \/ page # calls[a].todo /\ GoesOn(a, page) /\ UNCHANGED <<jobs, agents>>
                 \/ /\ page = calls[a].todo /\ Replied(a, continue)
                    /\ \/ jobs[calls[a].job].state # "claimed" /\ ~continue /\ UNCHANGED jobs
                       \/ /\ jobs[calls[a].job].state = "claimed"
                          /\ jobs' = [jobs EXCEPT ![calls[a].job].cursor = calls[a].list]
      BY <2>1, <2>2, RecordPageCases
    <2>5. \A g \in Files : seen'[g] = seen[g] \/ (seen'[g] \in RunIds /\ runs[seen'[g]] # "none")
      BY <2>2, <2>3, <2>4
    <2>6. \A i \in JobIds : jobs'[i].run = jobs[i].run /\ (Outstanding(i)' => Outstanding(i))
      BY <2>2, <2>4, <1>s, <1>t DEF Outstanding, JobType
    <2>7. /\ \A b \in Agents : AgentIsOn(b)' => agents'[b].job = agents[b].job /\ AgentIsOn(b)
          /\ \A b \in Agents : CallIsOn(b)' => calls'[b].job = calls[b].job /\ CallIsOn(b)
      <3>1. CASE GoesOn(a, page) /\ UNCHANGED agents
        BY <2>1, <3>1 DEF GoesOn, AgentIsOn, CallIsOn
      <3>2. CASE Replied(a, continue)
        BY <3>2, RepliedIsQuiet DEF CallIsOn
      <3> QED BY <2>4, <3>1, <3>2
    <2> QED BY <2>1, <2>5, <2>6, <2>7, <1>o DEF Quiet
  <1>15. ASSUME NEW f \in Files, Changes(f) PROVE Quiet
    BY <1>15, <1>o, <1>s DEF Changes, Quiet, AgentIsOn, CallIsOn
  <1> QED BY <1>1, <1>2, <1>3, <1>4, <1>5, <1>6, <1>7, <1>8, <1>9, <1>10, <1>11, <1>12, <1>13, <1>14, <1>15 DEF Serve, Agent

LEMMA RunIsPositive == \A r : r \in RunIds => r # 0 /\ r \in 0..MaxRuns
  BY BoundsAssumption DEF RunIds

LEMMA OwnedInit == Init => Owned
  BY BoundsAssumption
     DEF Init, Owned, Referred, OneRun, OneOutstandingJob, AgentIsOn, CallIsOn, IsRunning, Outstanding,
         NoJob, NoWf, NoCursor, IdleAgent, NoCall, JobIds, RunIds

(* What a new execution works on: the run that is running, or a new one.   *)
LEMMA BeginCases ==
    ASSUME TypeOK, Owned, Begin
    PROVE  \E r \in RunIds, j \in JobIds :
              /\ wf' = [pc |-> "polling", run |-> r, job |-> j, asked |-> FALSE]
              /\ \/ Outstanding(j) /\ UNCHANGED jobs /\ jobs[j].run = r
                 \/ /\ \A k \in JobIds : ~Outstanding(k)
                    /\ ~InUse(j)
                    /\ jobs' = [jobs EXCEPT ![j] = [NoJob EXCEPT !.state = "queued", !.cursor = saved.list, !.run = r]]
              /\ \/ IsRunning(r) /\ UNCHANGED <<runs, span>>
                 \/ /\ runs[r] = "none" /\ saved = NoCursor
                    /\ \A q \in RunIds : ~IsRunning(q)
                    /\ \A k \in JobIds : ~Outstanding(k)
                    /\ runs' = [runs EXCEPT ![r] = "running"]
                    /\ span' = [f \in Files |-> {Presence(f, disk)}]
  <1>1. PICK r \in RunIds, j \in JobIds :
        /\ IsRunToFeed(r)
        /\ Enqueue(r, j)
        /\ wf' = [pc |-> "polling", run |-> r, job |-> j, asked |-> FALSE]
        /\ runs' = IF runs[r] = "none" THEN [runs EXCEPT ![r] = "running"] ELSE runs
        /\ span' = IF runs[r] = "none" THEN [f \in Files |-> {Presence(f, disk)}] ELSE span
    BY DEF Begin
  <1>2. \/ IsRunning(r)
        \/ runs[r] = "none" /\ saved.run = 0 /\ \A q \in RunIds : ~IsRunning(q)
    BY <1>1 DEF IsRunToFeed, ActiveRun, Owned, OneRun, IsRunning
  <1>3. CASE IsRunning(r)
    <2>1. UNCHANGED <<runs, span>>
      BY <1>1, <1>3 DEF IsRunning
    <2>2. ASSUME Outstanding(j) PROVE jobs[j].run = r
      BY <1>3, <2>2 DEF Owned, OneRun
    <2>3. CASE \E k \in JobIds : Outstanding(k)
      BY <1>1, <1>3, <2>1, <2>2, <2>3 DEF Enqueue
    <2>4. CASE ~\E k \in JobIds : Outstanding(k)
      BY <1>1, <1>3, <2>1, <2>4 DEF Enqueue
    <2> QED BY <2>3, <2>4
  <1>4. CASE runs[r] = "none" /\ saved.run = 0 /\ \A q \in RunIds : ~IsRunning(q)
    <2>1. \A k \in JobIds : ~Outstanding(k)
      BY <1>4 DEF Owned, OneRun
    <2>2. saved = NoCursor
      <3>1. saved = [run |-> saved.run, list |-> saved.list]
        BY TypeParts DEF CursorType
      <3>2. saved.list = {}
        BY <1>4 DEF Owned, OneRun
      <3> QED BY <3>1, <3>2, <1>4 DEF NoCursor
    <2> QED BY <1>1, <1>4, <2>1, <2>2 DEF Enqueue
  <1> QED BY <1>2, <1>3, <1>4

(* A row not in use is replaced by that of a new job. *)
LEMMA NewRow ==
    ASSUME TypeOK, NEW j \in JobIds, NEW r \in RunIds,
           jobs' = [jobs EXCEPT ![j] = [NoJob EXCEPT !.state = "queued", !.cursor = saved.list, !.run = r]]
    PROVE  /\ \A k \in JobIds : k # j => jobs'[k] = jobs[k]
           /\ jobs'[j].state = "queued" /\ jobs'[j].cursor = saved.list /\ jobs'[j].run = r
  BY TypeParts DEF NoJob

LEMMA BeginOwned ==
    ASSUME TypeOK, Owned, Begin PROVE Owned'
  <1>1. PICK r \in RunIds, j \in JobIds :
              /\ wf' = [pc |-> "polling", run |-> r, job |-> j, asked |-> FALSE]
              /\ \/ Outstanding(j) /\ UNCHANGED jobs /\ jobs[j].run = r
                 \/ /\ \A k \in JobIds : ~Outstanding(k)
                    /\ ~InUse(j)
                    /\ jobs' = [jobs EXCEPT ![j] = [NoJob EXCEPT !.state = "queued", !.cursor = saved.list, !.run = r]]
              /\ \/ IsRunning(r) /\ UNCHANGED <<runs, span>>
                 \/ /\ runs[r] = "none" /\ saved = NoCursor
                    /\ \A q \in RunIds : ~IsRunning(q)
                    /\ \A k \in JobIds : ~Outstanding(k)
                    /\ runs' = [runs EXCEPT ![r] = "running"]
                    /\ span' = [f \in Files |-> {Presence(f, disk)}]
    BY BeginCases
  <1>2. UNCHANGED <<seen, saved, agents, calls>>
    BY DEF Begin
  <1>3. /\ IsRunning(r)'
        /\ \A q \in RunIds : runs[q] # "none" => runs'[q] = runs[q]
        /\ \A q \in RunIds : IsRunning(q)' => q = r \/ IsRunning(q)
        /\ \A q \in RunIds : IsRunning(q) => IsRunning(q)' /\ q = r
    BY <1>1, TypeParts DEF IsRunning, Owned, OneRun
  <1>4. /\ jobs'[j].run = r /\ Outstanding(j)'
        /\ \A k \in JobIds : Outstanding(k)' => k = j
        /\ \A k \in JobIds : InUse(k) => jobs'[k] = jobs[k]
        /\ \A k \in JobIds : k # j => jobs'[k] = jobs[k]
    <2>1. CASE Outstanding(j) /\ UNCHANGED jobs /\ jobs[j].run = r
      BY <2>1 DEF Owned, OneOutstandingJob, Outstanding
    <2>2. CASE /\ \A k \in JobIds : ~Outstanding(k)
               /\ ~InUse(j)
               /\ jobs' = [jobs EXCEPT ![j] = [NoJob EXCEPT !.state = "queued", !.cursor = saved.list, !.run = r]]
      BY <2>2, NewRow DEF Outstanding
    <2> QED BY <1>1, <2>1, <2>2
  <1>5. wf'.pc = "polling" /\ wf'.run = r /\ wf'.job = j
    BY <1>1
  <1>6. Referred'
    <2>1. \A a \in Agents : AgentIsOn(a) => InUse(agents[a].job)
      BY DEF AgentIsOn, InUse
    <2>2. \A a \in Agents : CallIsOn(a) => InUse(calls[a].job)
      BY DEF CallIsOn, InUse
    <2>3. \A a \in Agents : AgentIsOn(a)' => agents'[a].job \in JobIds /\ jobs'[agents'[a].job].run \in RunIds
      BY <1>2, <1>4, <2>1 DEF AgentIsOn, Owned, Referred
    <2>4. \A a \in Agents : CallIsOn(a)' => calls'[a].job \in JobIds /\ jobs'[calls'[a].job].run \in RunIds
      BY <1>2, <1>4, <2>2 DEF CallIsOn, Owned, Referred
    <2>5. \A k \in JobIds : jobs'[k].run # 0 => runs'[jobs'[k].run] # "none"
      <3>1. \A k \in JobIds : jobs[k].run \in 0..MaxRuns
        BY TypeParts DEF JobType
      <3>2. \A k \in JobIds : jobs[k].run # 0 => jobs[k].run \in RunIds
        BY <3>1, BoundsAssumption DEF RunIds
      <3> QED BY <1>3, <1>4, <3>2 DEF Owned, Referred, IsRunning
    <2>6. \A f \in Files : seen'[f] # 0 => runs'[seen'[f]] # "none"
      <3>1. \A f \in Files : seen[f] # 0 => seen[f] \in RunIds
        BY TypeParts, BoundsAssumption DEF RunIds
      <3> QED BY <1>2, <1>3, <3>1 DEF Owned, Referred
    <2> QED BY <2>3, <2>4, <2>5, <2>6 DEF Referred
  <1>7. OneRun'
    <2>1. saved'.run # 0 => IsRunning(saved.run)'
      <3>1. saved.run # 0 => saved.run \in RunIds
        BY TypeParts, BoundsAssumption DEF RunIds, CursorType
      <3> QED BY <1>2, <1>3, <3>1 DEF Owned, OneRun
    <2>2. \A k \in JobIds : Outstanding(k)' => jobs'[k].run \in RunIds /\ IsRunning(jobs[k].run)'
      BY <1>3, <1>4
    <2>3. \A q, p \in RunIds : IsRunning(q)' /\ IsRunning(p)' => q = p
      BY <1>3
    <2> QED BY <1>2, <1>3, <1>4, <1>5, <2>1, <2>2, <2>3 DEF Owned, OneRun
  <1>8. OneOutstandingJob'
    BY <1>4, <1>5 DEF OneOutstandingJob
  <1> QED BY <1>6, <1>7, <1>8 DEF Owned

LEMMA OwnedStep == TypeOK /\ Owned /\ [Next]_vars => Owned'
  <1> SUFFICES ASSUME TypeOK, Owned, [Next]_vars PROVE Owned'
    OBVIOUS
  <1> USE TypeParts
  <1>q. ASSUME Quiet PROVE Owned'
    BY <1>q, QuietOwned
  <1>r. ASSUME UNCHANGED <<runs, seen, agents, calls>>, \A k \in JobIds : jobs'[k].run = jobs[k].run
        PROVE  Referred'
    BY <1>r DEF Owned, Referred, AgentIsOn, CallIsOn
  <1>1. CASE Begin
    BY <1>1, BeginOwned
  <1>2. ASSUME /\ wf.pc # "off" /\ wf'.pc # "off" /\ wf'.job = wf.job /\ wf'.run = wf.run
               /\ wf'.pc = "polling" \/ \A j \in JobIds : ~Outstanding(j)
               /\ wf.pc = "polling" \/ \A j \in JobIds : ~Outstanding(j)
               /\ UNCHANGED <<seen, runs, saved, jobs, agents, calls>>
        PROVE  Owned'
    <2>1. Referred'
      BY <1>2, <1>r
    <2>2. OneRun'
      BY <1>2 DEF Owned, OneRun, IsRunning, Outstanding
    <2>3. OneOutstandingJob'
      BY <1>2 DEF Owned, OneOutstandingJob, Outstanding
    <2> QED BY <2>1, <2>2, <2>3 DEF Owned
  <1>3. CASE AskedToStop
    BY <1>3, <1>2 DEF AskedToStop, WfType
  <1>4. CASE PollCompleted
    <2>1. \A j \in JobIds : ~Outstanding(j)
      BY <1>4 DEF PollCompleted, Polled, Owned, OneOutstandingJob, Outstanding
    <2> QED BY <1>4, <2>1, <1>2 DEF PollCompleted, WfType
  <1>5. CASE SweepEnds
    <2>1. \A j \in JobIds : ~Outstanding(j)
      BY <1>5 DEF SweepEnds, Owned, OneOutstandingJob
    <2> QED BY <1>5, <2>1, <1>2 DEF SweepEnds, WfType
  <1>6. CASE PollQueued
    <2>1. wf.job \in JobIds /\ wf.run \in RunIds /\ IsRunning(wf.run) /\ jobs[wf.job].run = wf.run
      BY <1>6 DEF PollQueued, Owned, OneRun
    <2>2. \A k \in JobIds : jobs'[k].run = jobs[k].run /\ (Outstanding(k)' => Outstanding(k) /\ k # wf.job)
      BY <1>6, <2>1 DEF PollQueued, Outstanding, JobType
    <2>3. Referred'
      BY <1>6, <2>2, <1>r DEF PollQueued
    <2>4. \A k \in JobIds : ~Outstanding(k)'
      BY <1>6, <2>2 DEF PollQueued, Owned, OneOutstandingJob
    <2>5. OneRun'
      <3>1. CASE UNCHANGED <<wf, saved>>
        BY <1>6, <2>2, <2>4, <3>1 DEF PollQueued, Owned, OneRun, IsRunning
      <3>2. CASE wf' = NoWf /\ saved' = [saved EXCEPT !.run = wf.run]
        <4>1. saved'.run = wf.run /\ wf.run # 0
          BY <2>1, <3>2, RunIsPositive DEF CursorType
        <4> QED BY <1>6, <2>1, <2>4, <3>2, <4>1 DEF PollQueued, Owned, OneRun, IsRunning, NoWf
      <3> QED BY <1>6, <3>1, <3>2 DEF PollQueued
    <2> QED BY <2>3, <2>4, <2>5 DEF Owned, OneOutstandingJob
  <1>7. CASE PollPaused \/ PollFailed \/ FinishRoot
    <2>1. wf.pc # "off" /\ wf.run \in RunIds /\ IsRunning(wf.run) /\ wf' = NoWf
      BY <1>7 DEF PollPaused, PollFailed, FinishRoot, Owned, OneRun
    <2>2. UNCHANGED <<seen, jobs, agents, calls>>
      BY <1>7 DEF PollPaused, PollFailed, FinishRoot
    <2>3. \A j \in JobIds : ~Outstanding(j) /\ ~Outstanding(j)'
      BY <1>7, <2>2 DEF PollPaused, PollFailed, FinishRoot, Polled, Owned, OneOutstandingJob, Outstanding
    <2>4. \A r \in RunIds : (runs'[r] = "none" <=> runs[r] = "none") /\ (IsRunning(r)' => IsRunning(r))
      BY <1>7, <2>1 DEF PollPaused, PollFailed, FinishRoot, IsRunning
    <2>5. \/ saved' = NoCursor
          \/ saved'.run = wf.run /\ UNCHANGED runs
      BY <1>7 DEF PollPaused, PollFailed, FinishRoot
    <2>6. Referred'
      <3>1. \A j \in JobIds : jobs[j].run # 0 => jobs[j].run \in RunIds
        BY BoundsAssumption DEF RunIds, JobType
      <3>2. \A f \in Files : seen[f] # 0 => seen[f] \in RunIds
        BY BoundsAssumption DEF RunIds
      <3> QED BY <2>2, <2>4, <3>1, <3>2 DEF Owned, Referred, AgentIsOn, CallIsOn
    <2>7. OneRun'
      <3>1. saved'.run # 0 => IsRunning(saved.run)'
        BY <2>1, <2>5 DEF NoCursor, IsRunning
      <3>2. saved'.run = 0 => saved'.list = {}
        BY <2>1, <2>5, RunIsPositive DEF NoCursor
      <3> QED BY <2>1, <2>3, <2>4, <3>1, <3>2 DEF Owned, OneRun, NoWf
    <2> QED BY <2>1, <2>3, <2>6, <2>7 DEF Owned, OneOutstandingJob, NoWf
  <1>8. CASE Restart
    <2>1. Referred'
      BY <1>8 DEF Restart, Owned, Referred, AgentIsOn, CallIsOn, NoCall
    <2>2. OneRun'
      BY <1>8 DEF Restart, Owned, OneRun, IsRunning, Outstanding, NoWf
    <2>3. OneOutstandingJob'
      BY <1>8 DEF Restart, Owned, OneOutstandingJob, Outstanding, NoWf
    <2> QED BY <2>1, <2>2, <2>3 DEF Owned
  <1>9. CASE UNCHANGED vars
    BY <1>9, <1>q DEF vars, Quiet, Owned, Referred, AgentIsOn, CallIsOn, Outstanding
  <1>10. CASE \/ PollClaimed \/ SweepBatch \/ Reclaim
              \/ \E j \in JobIds : CancelByHand(j) \/ TimePasses(j)
              \/ \E a \in Agents : Serve(a) \/ Agent(a)
              \/ \E f \in Files : Changes(f)
    BY <1>10, <1>q, QuietSteps
  <1> QED BY <1>1, <1>3, <1>4, <1>5, <1>6, <1>7, <1>8, <1>9, <1>10 DEF Next, Poll, Sweep

THEOREM SafeSteps == Spec => [](TypeOK /\ Owned)
  <1>1. Init => TypeOK /\ Owned
    BY TypeInit, OwnedInit
  <1>2. TypeOK /\ Owned /\ [Next]_vars => (TypeOK /\ Owned)'
    BY TypeStep, OwnedStep DEF Owned
  <1> QED BY <1>1, <1>2, PTL DEF Spec

(* Whatever is lost, late or restarted, every variable keeps its type:     *)
(* agent-job-service.ts stores no state a job may not have, and a cursor   *)
(* is always a worklist.                                                   *)
THEOREM TypeCorrect == Spec => []TypeOK
  BY SafeSteps, PTL

(* enqueue() and the poll of runAgentScan() together: a root has one       *)
(* outstanding job, the one its workflow polls, and none while it sweeps.  *)
THEOREM OneJobAtATime == Spec => []OneOutstandingJob
  <1>1. TypeOK /\ Owned => OneOutstandingJob
    BY DEF Owned
  <1> QED BY <1>1, SafeSteps, PTL

-----------------------------------------------------------------------------
(* What has been found, when nothing is slower than the code expects.      *)

LEMMA TimelyInit == Init => Timely
  BY DEF Init, Timely, Presence, NoCall, NoWf, IsRunning

(* A step that records nothing and posts nothing. *)
LEMMA TimelyFrame ==
    ASSUME Timely, UNCHANGED <<disk, seen, span>>, live' \subseteq live,
           \A r \in RunIds : IsRunning(r)' => IsRunning(r),
           \A j \in JobIds : jobs'[j].run = jobs[j].run /\ (Outstanding(j)' => Outstanding(j)),
           \A a \in Agents : CallIsOn(a) => calls[a].job \in JobIds,
           \A a \in Agents : CallIsOn(a)' => calls'[a] = calls[a],
           wf'.pc = "rollup" => wf.pc = "rollup" /\ wf'.run = wf.run
    PROVE  Timely'
  <1>1. \A f \in Files : Presence(f, disk)' \in span'[f]
    BY DEF Timely, Presence
  <1>2. \A a \in Agents : calls'[a].stage = "open" =>
          \A r \in RunIds : IsRunning(r)' => jobs'[calls'[a].job].run = r
    BY DEF Timely, CallIsOn
  <1>3. \A a \in Agents :
          calls'[a].stage = "open" \/ (calls'[a].stage = "sent" /\ Outstanding(calls[a].job)')
             => \A f \in calls'[a].todo : "here" \in span'[f]
    BY DEF Timely, CallIsOn
  <1>4. \A r \in RunIds : IsRunning(r)' => \A f \in Files : seen'[f] = r => "here" \in span'[f]
    BY DEF Timely
  <1>5. wf'.pc = "rollup" => \A f \in live' : seen'[f] = wf'.run
    BY DEF Timely
  <1> QED BY <1>1, <1>2, <1>3, <1>4, <1>5 DEF Timely

LEMMA BeginTimely ==
    ASSUME TypeOK, Owned, Timely, InTime, Begin PROVE Timely'
  <1>1. PICK r \in RunIds, j \in JobIds :
              /\ wf' = [pc |-> "polling", run |-> r, job |-> j, asked |-> FALSE]
              /\ \/ Outstanding(j) /\ UNCHANGED jobs /\ jobs[j].run = r
                 \/ /\ \A k \in JobIds : ~Outstanding(k)
                    /\ ~InUse(j)
                    /\ jobs' = [jobs EXCEPT ![j] = [NoJob EXCEPT !.state = "queued", !.cursor = saved.list, !.run = r]]
              /\ \/ IsRunning(r) /\ UNCHANGED <<runs, span>>
                 \/ /\ runs[r] = "none" /\ saved = NoCursor
                    /\ \A q \in RunIds : ~IsRunning(q)
                    /\ \A k \in JobIds : ~Outstanding(k)
                    /\ runs' = [runs EXCEPT ![r] = "running"]
                    /\ span' = [f \in Files |-> {Presence(f, disk)}]
    BY BeginCases
  <1>2. UNCHANGED <<disk, live, seen, calls>> /\ \A a \in Agents : calls[a].stage # "open"
    BY DEF Begin
  <1>3. \A a \in Agents : CallIsOn(a) /\ Outstanding(calls[a].job)' => Outstanding(calls[a].job)
    <2>1. \A a \in Agents : CallIsOn(a) => InUse(calls[a].job) /\ calls[a].job \in JobIds
      BY DEF CallIsOn, InUse, Owned, Referred
    <2>2. \A k \in JobIds : InUse(k) /\ Outstanding(k)' => Outstanding(k)
      BY <1>1, NewRow DEF Outstanding
    <2> QED BY <1>2, <2>1, <2>2 DEF Outstanding
  <1>4. CASE IsRunning(r) /\ UNCHANGED <<runs, span>>
    <2>1. \A f \in Files : Presence(f, disk)' \in span'[f]
      BY <1>2, <1>4 DEF Timely, Presence
    <2>2. \A a \in Agents : calls'[a].stage = "sent" /\ Outstanding(calls[a].job)'
             => \A f \in calls'[a].todo : "here" \in span'[f]
      BY <1>2, <1>3, <1>4 DEF Timely, CallIsOn
    <2>3. \A q \in RunIds : IsRunning(q)' => \A f \in Files : seen'[f] = q => "here" \in span'[f]
      BY <1>2, <1>4 DEF Timely, IsRunning
    <2> QED BY <1>1, <1>2, <2>1, <2>2, <2>3 DEF Timely
  <1>5. CASE /\ runs[r] = "none"
             /\ \A q \in RunIds : ~IsRunning(q)
             /\ \A k \in JobIds : ~Outstanding(k)
             /\ runs' = [runs EXCEPT ![r] = "running"]
             /\ span' = [f \in Files |-> {Presence(f, disk)}]
    <2>1. \A f \in Files : Presence(f, disk)' \in span'[f]
      BY <1>2, <1>5 DEF Presence
    <2>2. \A a \in Agents : ~(calls'[a].stage = "sent" /\ Outstanding(calls[a].job)')
      <3>1. \A a \in Agents : CallIsOn(a) => calls[a].job \in JobIds
        BY DEF Owned, Referred
      <3> QED BY <1>2, <1>3, <1>5, <3>1 DEF CallIsOn
    <2>3. \A q \in RunIds : IsRunning(q)' => q = r
      BY <1>5, TypeParts DEF IsRunning
    <2>4. \A f \in Files : seen[f] # r
      BY <1>5, RunIsPositive DEF Owned, Referred
    <2> QED BY <1>1, <1>2, <2>1, <2>2, <2>3, <2>4 DEF Timely
  <1> QED BY <1>1, <1>4, <1>5

LEMMA RecordTimely ==
    ASSUME TypeOK, Owned, Timely, InTime, NEW a \in Agents, BatchAccepted(a) \/ BatchGoesOn(a)
    PROVE  Timely'
  <1> DEFINE run == jobs[calls[a].job].run
  <1>1. /\ CallIsOn(a) /\ RecordPage(a) /\ UNCHANGED <<disk, runs, wf, span>>
        /\ calls[a].stage = "open" \/ (calls[a].stage = "sent" /\ Outstanding(calls[a].job))
    BY DEF BatchAccepted, BatchGoesOn, CallIsOn, Outstanding
  <1>2. calls[a].job \in JobIds /\ run \in RunIds
    BY <1>1 DEF Owned, Referred
  <1>3. Quiet
    BY QuietSteps DEF Serve
  <1>4. PICK page \in SUBSET calls[a].todo, continue \in BOOLEAN :
              /\ live' = live \cup page
              /\ seen' = [f \in Files |-> IF f \in page THEN jobs[calls[a].job].run ELSE seen[f]]
              /\ \/ page # calls[a].todo /\ GoesOn(a, page) /\ UNCHANGED <<jobs, agents>>
                 \/ /\ page = calls[a].todo /\ Replied(a, continue)
                    /\ \/ jobs[calls[a].job].state # "claimed" /\ ~continue /\ UNCHANGED jobs
                       \/ /\ jobs[calls[a].job].state = "claimed"
                          /\ jobs' = [jobs EXCEPT ![calls[a].job].cursor = calls[a].list]
    BY <1>1, <1>2, RecordPageCases
  <1>5. \A r \in RunIds : IsRunning(r) => run = r
    BY <1>1, <1>2 DEF Timely, Owned, OneRun
  <1>6. \A f \in calls[a].todo : "here" \in span[f] /\ f \in Files
    BY <1>1, TypeParts DEF Timely, CallType
  <1>7. \A b \in Agents : CallIsOn(b)' => \/ calls'[b] = calls[b]
                                          \/ /\ b = a /\ calls'[b].stage = "open"
                                             /\ calls'[b].job = calls[b].job /\ calls'[b].todo \subseteq calls[b].todo
    <2>1. CASE GoesOn(a, page)
      BY <2>1 DEF GoesOn
    <2>2. CASE Replied(a, continue)
      BY <2>2, RepliedIsQuiet
    <2> QED BY <1>4, <2>1, <2>2
  <1>8. \A b \in Agents : calls'[b].stage = "open" =>
          \A r \in RunIds : IsRunning(r)' => jobs'[calls'[b].job].run = r
    <2>1. \A b \in Agents : CallIsOn(b) => calls[b].job \in JobIds
      BY DEF Owned, Referred
    <2> QED BY <1>1, <1>2, <1>3, <1>5, <1>7, <2>1 DEF Timely, Quiet, CallIsOn, IsRunning
  <1>9. \A b \in Agents :
          calls'[b].stage = "open" \/ (calls'[b].stage = "sent" /\ Outstanding(calls[b].job)')
             => \A f \in calls'[b].todo : "here" \in span'[f]
    <2>1. \A b \in Agents : CallIsOn(b) => calls[b].job \in JobIds
      BY DEF Owned, Referred
    <2> QED BY <1>1, <1>2, <1>3, <1>6, <1>7, <2>1 DEF Timely, Quiet, CallIsOn
  <1>10. \A r \in RunIds : IsRunning(r)' => \A f \in Files : seen'[f] = r => "here" \in span'[f]
    BY <1>1, <1>4, <1>6 DEF Timely, IsRunning
  <1>11. wf'.pc = "rollup" => \A f \in live' : seen'[f] = wf'.run
    <2>1. wf.pc = "rollup" => run = wf.run
      BY <1>5 DEF Owned, OneRun
    <2> QED BY <1>1, <1>4, <2>1, <1>6, TypeParts DEF Timely
  <1> QED BY <1>1, <1>8, <1>9, <1>10, <1>11 DEF Timely, Presence

LEMMA TimelyStep == InTime /\ TypeOK /\ Owned /\ Timely /\ [Next]_vars => Timely'
  <1> SUFFICES ASSUME InTime, TypeOK, Owned, Timely, [Next]_vars PROVE Timely'
    OBVIOUS
  <1> USE TypeParts
  <1>c. \A a \in Agents : CallIsOn(a) => calls[a].job \in JobIds
    BY DEF Owned, Referred
  <1>q. ASSUME Quiet, UNCHANGED <<disk, seen, span>>, live' \subseteq live,
               \A a \in Agents : CallIsOn(a)' => calls'[a] = calls[a]
        PROVE  Timely'
    BY <1>q, <1>c, TimelyFrame DEF Quiet, IsRunning
  <1>w. ASSUME UNCHANGED <<disk, seen, span, live, calls>>,
               \A r \in RunIds : IsRunning(r)' => IsRunning(r),
               \A j \in JobIds : jobs'[j].run = jobs[j].run /\ (Outstanding(j)' => Outstanding(j)),
               wf'.pc = "rollup" => wf.pc = "rollup" /\ wf'.run = wf.run
        PROVE  Timely'
    BY <1>w, <1>c, TimelyFrame
  <1>1. CASE Begin
    BY <1>1, BeginTimely
  <1>2. CASE AskedToStop \/ PollCompleted
    BY <1>2, <1>w DEF AskedToStop, PollCompleted, WfType, IsRunning, Outstanding
  <1>3. CASE PollQueued
    <2>1. \A j \in JobIds : jobs'[j].run = jobs[j].run /\ (Outstanding(j)' => Outstanding(j))
      BY <1>3 DEF PollQueued, Outstanding, JobType
    <2> QED BY <1>3, <2>1, <1>w DEF PollQueued, NoWf, IsRunning
  <1>4. CASE PollPaused \/ PollFailed \/ FinishRoot
    <2>1. \A r \in RunIds : IsRunning(r)' => IsRunning(r)
      BY <1>4 DEF PollPaused, PollFailed, FinishRoot, IsRunning
    <2> QED BY <1>4, <2>1, <1>w DEF PollPaused, PollFailed, FinishRoot, NoWf, Outstanding
  <1>5. CASE SweepEnds
    BY <1>5 DEF SweepEnds, Missing, Timely, IsRunning, Outstanding, WfType, Presence
  <1>6. CASE PollClaimed \/ SweepBatch \/ Reclaim
    <2>1. Quiet
      BY <1>6, QuietSteps
    <2> QED BY <1>6, <2>1, <1>q DEF PollClaimed, SweepBatch, Reclaim
  <1>7. ASSUME NEW j \in JobIds, CancelByHand(j) \/ TimePasses(j) PROVE Timely'
    <2>1. Quiet
      BY <1>7, QuietSteps
    <2> QED BY <1>7, <2>1, <1>q DEF CancelByHand, TimePasses
  <1>8. ASSUME NEW a \in Agents, Claim(a) \/ Finish(a) \/ LosesCall(a) \/ DropsCall(a) \/ Dies(a) PROVE Timely'
    <2>1. Quiet
      BY <1>8, QuietSteps DEF Agent
    <2>2. \A b \in Agents : CallIsOn(b)' => calls'[b] = calls[b]
      BY <1>8 DEF Claim, Finish, LosesCall, DropsCall, Dies, CallIsOn, NoCall
    <2>3. UNCHANGED <<disk, live, seen, span>>
      BY <1>8 DEF Claim, Finish, LosesCall, DropsCall, Dies
    <2> QED BY <2>1, <2>2, <2>3, <1>q
  <1>9. ASSUME NEW a \in Agents, BatchRejected(a) \/ BatchWithoutRoot(a) PROVE Timely'
    <2>1. Quiet
      BY <1>9, QuietSteps DEF Serve
    <2>2. \A b \in Agents : CallIsOn(b)' => calls'[b] = calls[b]
      BY <1>9, RepliedIsQuiet DEF BatchRejected, BatchWithoutRoot
    <2> QED BY <1>9, <2>1, <2>2, <1>q DEF BatchRejected, BatchWithoutRoot
  <1>10. ASSUME NEW a \in Agents, BatchAccepted(a) \/ BatchGoesOn(a) PROVE Timely'
    BY <1>10, RecordTimely
  <1>11. ASSUME NEW a \in Agents, PostBatch(a) PROVE Timely'
    <2>1. PICK found, list :
             /\ found \in SUBSET disk
             /\ calls' = [calls EXCEPT ![a] = [stage |-> "sent", job |-> agents[a].job, todo |-> found, list |-> list]]
      BY <1>11, PostBatchParts
    <2>2. \A f \in found : f \in Files /\ "here" \in span[f]
      BY <2>1 DEF Timely, Presence
    <2>3. UNCHANGED <<disk, live, seen, runs, wf, jobs, span>>
      BY <1>11 DEF PostBatch
    <2>4. \A b \in Agents : b # a => calls'[b] = calls[b]
      BY <2>1
    <2>5. calls'[a].stage = "sent" /\ calls'[a].todo = found
      BY <2>1
    <2> QED BY <2>2, <2>3, <2>4, <2>5 DEF Timely, Presence, Outstanding, IsRunning
  <1>12. CASE Restart
    <2>1. \A a \in Agents : ~CallIsOn(a)'
      BY <1>12 DEF Restart, CallIsOn, NoCall
    <2>2. UNCHANGED <<disk, live, seen, runs, jobs, span>> /\ wf'.pc # "rollup"
      BY <1>12 DEF Restart, NoWf
    <2> QED BY <1>c, <2>1, <2>2, TimelyFrame DEF IsRunning, Outstanding
  <1>13. ASSUME NEW f \in Files, Changes(f) PROVE Timely'
    <2>1. UNCHANGED <<live, seen, runs, wf, jobs, calls>>
      BY <1>13 DEF Changes
    <2>2. \A g \in Files : span[g] \subseteq span'[g] /\ Presence(g, disk)' \in span'[g]
      BY <1>13 DEF Changes, Timely, Presence
    <2> QED BY <2>1, <2>2 DEF Timely, IsRunning, Outstanding, CallType
  <1>14. CASE UNCHANGED vars
    BY <1>14, <1>w DEF vars, IsRunning, Outstanding
  <1> QED BY <1>1, <1>2, <1>3, <1>4, <1>5, <1>6, <1>7, <1>8, <1>9, <1>10, <1>11, <1>12, <1>13, <1>14
          DEF Next, Poll, Sweep, Serve, Agent

THEOREM TimelySteps == InTime => (Spec => [](TypeOK /\ Owned /\ Timely))
  <1> SUFFICES ASSUME InTime PROVE Spec => [](TypeOK /\ Owned /\ Timely)
    OBVIOUS
  <1>1. Init => Timely
    BY TimelyInit
  <1>2. TypeOK /\ Owned /\ Timely /\ [Next]_vars => Timely'
    BY TimelyStep
  <1> QED BY <1>1, <1>2, SafeSteps, PTL DEF Spec

(* finishRoot() after sweepMissing(): what is left of the catalog when a   *)
(* root is finished was there at some moment of that catalog run, late and *)
(* repeated batches notwithstanding.                                       *)
THEOREM WhatIsKeptWasThere == InTime => (Spec => DeletionsAreFound)
  <1> SUFFICES ASSUME InTime PROVE Spec => DeletionsAreFound
    OBVIOUS
  <1>1. ASSUME TypeOK, Owned, Timely, [Next]_vars, NEW r \in RunIds,
               runs[r] = "running", runs'[r] = "completed"
        PROVE  \A f \in live : "here" \in span[f]
    <2>1. FinishRoot
      <3>1. ~ UNCHANGED runs
        BY <1>1
      <3>2. ~ (\/ PollClaimed \/ SweepBatch \/ Reclaim
               \/ \E j \in JobIds : CancelByHand(j) \/ TimePasses(j)
               \/ \E a \in Agents : Serve(a) \/ Agent(a)
               \/ \E f \in Files : Changes(f))
        BY <1>1, <3>1, QuietSteps DEF Quiet
      <3>3. ~ (AskedToStop \/ PollQueued \/ PollCompleted \/ PollPaused \/ SweepEnds \/ Restart \/ UNCHANGED vars)
        BY <3>1 DEF AskedToStop, PollQueued, PollCompleted, PollPaused, SweepEnds, Restart, vars
      <3>4. ~ Begin
        BY <1>1, TypeParts DEF Begin
      <3>5. ~ PollFailed
        BY <1>1, TypeParts DEF PollFailed
      <3> QED BY <1>1, <3>2, <3>3, <3>4, <3>5 DEF Next, Poll, Sweep
    <2>2. wf.pc = "rollup" /\ r = wf.run
      BY <1>1, <2>1, TypeParts DEF FinishRoot
    <2> QED BY <1>1, <2>2, TypeParts DEF Timely, IsRunning
  <1>2. TypeOK /\ Owned /\ Timely /\ [Next]_vars
        => [\A r \in RunIds : runs[r] = "running" /\ runs'[r] = "completed" => \A f \in live : "here" \in span[f]]_vars
    BY <1>1
  <1> QED BY <1>2, TimelySteps, PTL DEF Spec, DeletionsAreFound

-----------------------------------------------------------------------------
(* One agent for the job.                                                  *)

GoesOnWith == {"walk", "posted", "completed", "paused"}

LEMMA OneWorkerInit == Init => OneWorker
  BY DEF Init, OneWorker, NoJob, IdleAgent, NoCall, Outstanding, Working, CallIsOn

(* A step of the queue only. *)
LEMMA WorkersKept ==
    ASSUME OneWorker, UNCHANGED <<agents, calls>>,
           \A a \in Agents : AgentIsOn(a) => agents[a].job \in JobIds,
           \A j \in JobIds : \/ jobs'[j].state = jobs[j].state
                             \/ jobs[j].state = "queued" /\ jobs'[j].state = "cancelled"
                             \/ /\ jobs[j].state = "claimed" /\ jobs'[j].state = "queued"
                                /\ \A a \in Agents : ~Working(a, j)
    PROVE  OneWorker'
  <1>1. \A j \in JobIds : jobs'[j].state = "queued" => \A a \in Agents : ~Working(a, j)'
    BY DEF OneWorker, Working
  <1>2. \A j \in JobIds : Outstanding(j)' =>
          \A a, b \in Agents : Working(a, j)' /\ Working(b, j)' => a = b
    BY DEF OneWorker, Working, Outstanding
  <1>3. \A a \in Agents : agents'[a].pc \in GoesOnWith => jobs'[agents'[a].job].state = "claimed"
    BY DEF OneWorker, Working, AgentIsOn, GoesOnWith
  <1> QED BY <1>1, <1>2, <1>3 DEF OneWorker, CallIsOn, GoesOnWith

(* A step of an agent or of its request only. *)
LEMMA QueueKept ==
    ASSUME OneWorker,
           \A j \in JobIds : jobs'[j].state = jobs[j].state,
           \A a \in Agents : AgentIsOn(a) => agents[a].job \in JobIds,
           \A a \in Agents, j \in JobIds : Working(a, j)' => Working(a, j),
           \A a \in Agents : agents'[a].pc \in GoesOnWith
              => agents[a].pc \in GoesOnWith /\ agents'[a].job = agents[a].job,
           \A a \in Agents : agents'[a].pc = "posted" /\ CallIsOn(a)'
              => calls'[a].job = agents'[a].job /\ calls'[a].list = agents'[a].list,
           \A a \in Agents : agents'[a].pc = "completed" => agents'[a].list = {}
    PROVE  OneWorker'
  <1>1. \A a \in Agents : agents'[a].pc \in GoesOnWith => jobs'[agents'[a].job].state = "claimed"
    BY DEF OneWorker, AgentIsOn, GoesOnWith
  <1>2. \A j \in JobIds : Outstanding(j)' => Outstanding(j)
    BY DEF Outstanding
  <1> QED BY <1>1, <1>2 DEF OneWorker, GoesOnWith

LEMMA RepliedWorkers ==
    ASSUME TypeOK, OneWorker, NEW a \in Agents, NEW continue \in BOOLEAN, Replied(a, continue)
    PROVE  /\ \A b \in Agents, j \in JobIds : Working(b, j)' => Working(b, j)
           /\ \A b \in Agents : agents'[b].pc \in GoesOnWith
                 => agents[b].pc \in GoesOnWith /\ agents'[b].job = agents[b].job
           /\ \A b \in Agents : agents'[b].pc = "posted" /\ CallIsOn(b)'
                 => calls'[b].job = agents'[b].job /\ calls'[b].list = agents'[b].list
           /\ \A b \in Agents : agents'[b].pc = "completed" => agents'[b].list = {}
  <1>t. agents[a] \in AgentType
    BY TypeParts
  <1>1. ~CallIsOn(a)' /\ \A b \in Agents : b # a => calls'[b] = calls[b] /\ agents'[b] = agents[b]
    BY TypeParts DEF Replied, CallIsOn, NoCall
  <1>2. CASE agents[a].pc # "posted"
    <2>1. agents' = agents
      BY <1>2 DEF Replied
    <2> QED BY <1>1, <1>2, <2>1 DEF Working, CallIsOn, OneWorker, GoesOnWith
  <1>3. CASE agents[a].pc = "posted"
    <2>1. /\ agents'[a].job = agents[a].job /\ agents'[a].list = agents[a].list
          /\ agents'[a].pc \in {"completed", "walk", "paused"}
          /\ agents'[a].pc = "completed" => agents[a].list = {}
      BY <1>3, <1>t, TypeParts DEF Replied, AgentType
    <2> QED BY <1>1, <1>3, <2>1 DEF Working, CallIsOn, OneWorker, GoesOnWith
  <1> QED BY <1>2, <1>3

LEMMA OneWorkerStep == InTime /\ RootStays /\ TypeOK /\ Owned /\ OneWorker /\ [Next]_vars => OneWorker'
  <1> SUFFICES ASSUME InTime, RootStays, TypeOK, Owned, OneWorker, [Next]_vars PROVE OneWorker'
    OBVIOUS
  <1> USE TypeParts
  <1>c. /\ \A a \in Agents : AgentIsOn(a) => agents[a].job \in JobIds
        /\ \A a \in Agents : CallIsOn(a) => calls[a].job \in JobIds
    BY DEF Owned, Referred
  <1>t. \A j \in JobIds : jobs[j] \in JobType
    OBVIOUS
  <1>1. CASE Begin
    <2>1. PICK r \in RunIds, j \in JobIds :
              \/ Outstanding(j) /\ UNCHANGED jobs
              \/ /\ \A k \in JobIds : ~Outstanding(k)
                 /\ ~InUse(j)
                 /\ jobs' = [jobs EXCEPT ![j] = [NoJob EXCEPT !.state = "queued", !.cursor = saved.list, !.run = r]]
      BY <1>1, BeginCases
    <2>2. UNCHANGED <<agents, calls>>
      BY <1>1 DEF Begin
    <2>3. CASE UNCHANGED jobs
      BY <2>2, <2>3, <1>c, WorkersKept
    <2>4. CASE /\ ~InUse(j)
               /\ jobs' = [jobs EXCEPT ![j] = [NoJob EXCEPT !.state = "queued", !.cursor = saved.list, !.run = r]]
      <3>1. \A k \in JobIds : k # j => jobs'[k] = jobs[k]
        BY <2>4, NewRow
      <3>2. \A a \in Agents : ~Working(a, j) /\ (AgentIsOn(a) => agents[a].job # j)
        BY <2>4 DEF InUse, Working, AgentIsOn
      <3>3. \A k \in JobIds : jobs'[k].state = "queued" => \A a \in Agents : ~Working(a, k)'
        BY <2>2, <3>1, <3>2 DEF OneWorker, Working
      <3>4. \A k \in JobIds : Outstanding(k)' =>
              \A a, b \in Agents : Working(a, k)' /\ Working(b, k)' => a = b
        BY <2>2, <3>1, <3>2 DEF OneWorker, Working, Outstanding
      <3>5. \A a \in Agents : agents'[a].pc \in GoesOnWith => jobs'[agents'[a].job].state = "claimed"
        BY <2>2, <3>1, <3>2, <1>c DEF OneWorker, AgentIsOn, GoesOnWith
      <3> QED BY <2>2, <3>3, <3>4, <3>5 DEF OneWorker, CallIsOn, GoesOnWith
    <2> QED BY <2>1, <2>3, <2>4
  <1>2. CASE AskedToStop \/ PollCompleted \/ PollPaused \/ PollFailed \/ SweepBatch \/ SweepEnds \/ FinishRoot \/ UNCHANGED vars
    <2>1. UNCHANGED <<jobs, agents, calls>>
      BY <1>2 DEF AskedToStop, PollCompleted, PollPaused, PollFailed, SweepBatch, SweepEnds, FinishRoot, vars
    <2> QED BY <2>1, <1>c, WorkersKept
  <1>3. CASE PollQueued
    <2>1. \A j \in JobIds : \/ jobs'[j].state = jobs[j].state
                            \/ jobs[j].state = "queued" /\ jobs'[j].state = "cancelled"
      BY <1>3, <1>t DEF PollQueued, Polled, JobType
    <2> QED BY <1>3, <2>1, <1>c, WorkersKept DEF PollQueued
  <1>4. CASE PollClaimed
    <2>1. \A j \in JobIds : jobs'[j].state = jobs[j].state
      BY <1>4, <1>t DEF PollClaimed, JobType
    <2> QED BY <1>4, <2>1, <1>c, WorkersKept DEF PollClaimed
  <1>5. CASE Reclaim
    <2>1. \A j \in JobIds : \/ jobs'[j].state = jobs[j].state
                            \/ /\ jobs[j].state = "claimed" /\ jobs'[j].state = "queued"
                               /\ \A a \in Agents : ~Working(a, j)
      BY <1>5, <1>t DEF Reclaim, Reclaimed, Silent, JobType
    <2> QED BY <1>5, <2>1, <1>c, WorkersKept DEF Reclaim
  <1>6. ASSUME NEW j \in JobIds, CancelByHand(j) \/ TimePasses(j) PROVE OneWorker'
    <2>1. \A k \in JobIds : \/ jobs'[k].state = jobs[k].state
                            \/ jobs[k].state = "queued" /\ jobs'[k].state = "cancelled"
      BY <1>6, <1>t DEF CancelByHand, TimePasses, Outstanding, JobType
    <2> QED BY <1>6, <2>1, <1>c, WorkersKept DEF CancelByHand, TimePasses
  <1>7. ASSUME NEW f \in Files, Changes(f) PROVE OneWorker'
    BY <1>7, <1>c, WorkersKept DEF Changes
  <1>8. ASSUME NEW a \in Agents, Claim(a) PROVE OneWorker'
    <2>1. PICK S \in SUBSET {i \in JobIds : Silent(i)}, j \in JobIds :
          /\ Reclaimed(S)[j].state = "queued"
          /\ jobs' = [Reclaimed(S) EXCEPT ![j].state = "claimed"]
          /\ \/ agents' = [agents EXCEPT ![a] = [pc |-> "walk", job |-> j, list |-> StartList(j)]]
             \/ UNCHANGED agents
      BY <1>8 DEF Claim
    <2>2. agents[a].pc = "idle" /\ UNCHANGED calls
      BY <1>8 DEF Claim
    <2>3. /\ \A k \in JobIds : k # j => \/ jobs'[k].state = jobs[k].state
                                        \/ /\ jobs[k].state = "claimed" /\ jobs'[k].state = "queued"
                                           /\ \A b \in Agents : ~Working(b, k)
          /\ jobs'[j].state = "claimed" /\ Outstanding(j) /\ \A b \in Agents : ~Working(b, j)
      <3>1. \A k \in JobIds : \/ Reclaimed(S)[k].state = jobs[k].state
                              \/ /\ jobs[k].state = "claimed" /\ Reclaimed(S)[k].state = "queued"
                                 /\ \A b \in Agents : ~Working(b, k)
        BY <2>1, <1>t DEF Reclaimed, Silent, JobType
      <3>2. \A b \in Agents : ~Working(b, j)
        BY <2>1, <3>1 DEF OneWorker
      <3>3. Reclaimed(S) \in [JobIds -> JobType]
        BY ReclaimedType
      <3>4. /\ jobs'[j].state = "claimed"
            /\ \A k \in JobIds : k # j => jobs'[k] = Reclaimed(S)[k]
        BY <2>1, <3>3 DEF JobType
      <3> QED BY <2>1, <3>1, <3>2, <3>4 DEF Outstanding
    <2>4. /\ \A b \in Agents : b # a => agents'[b] = agents[b]
          /\ agents'[a] = agents[a] \/ (agents'[a].pc = "walk" /\ agents'[a].job = j)
      BY <2>1
    <2>5. /\ \A b \in Agents, k \in JobIds : Working(b, k)' => Working(b, k) \/ (b = a /\ k = j)
          /\ \A b \in Agents : agents'[b].pc \in GoesOnWith \/ agents'[b] = agents[b]
      BY <2>2, <2>4 DEF Working, GoesOnWith
    <2>6. \A k \in JobIds : jobs'[k].state = "queued" => \A b \in Agents : ~Working(b, k)'
      BY <2>3, <2>5 DEF OneWorker
    <2>7. \A k \in JobIds : Outstanding(k)' =>
              \A b, d \in Agents : Working(b, k)' /\ Working(d, k)' => b = d
      BY <2>3, <2>5 DEF OneWorker, Outstanding
    <2>8. \A b \in Agents : agents'[b].pc \in GoesOnWith => jobs'[agents'[b].job].state = "claimed"
      <3>1. ASSUME NEW b \in Agents, agents'[b] = agents[b], agents[b].pc \in GoesOnWith
            PROVE  jobs'[agents[b].job].state = "claimed"
        <4>1. AgentIsOn(b) /\ agents[b].job \in JobIds /\ Working(b, agents[b].job)
          BY <3>1, <1>c DEF AgentIsOn, Working, GoesOnWith
        <4>2. jobs[agents[b].job].state = "claimed"
          BY <3>1 DEF OneWorker, GoesOnWith
        <4> QED BY <4>1, <4>2, <2>3
      <3> QED BY <3>1, <2>3, <2>4
    <2>9. \A b \in Agents : agents'[b].pc \in {"posted", "completed"} => agents'[b] = agents[b]
      BY <2>4
    <2> QED BY <2>2, <2>6, <2>7, <2>8, <2>9 DEF OneWorker, CallIsOn, GoesOnWith
  <1>9. ASSUME NEW a \in Agents, PostBatch(a) PROVE OneWorker'
    <2>1. PICK found, list :
             /\ agents' = [agents EXCEPT ![a].pc = "posted", ![a].list = list]
             /\ calls' = [calls EXCEPT ![a] = [stage |-> "sent", job |-> agents[a].job, todo |-> found, list |-> list]]
      BY <1>9 DEF PostBatch
    <2>2. agents[a].pc = "walk" /\ UNCHANGED jobs
      BY <1>9 DEF PostBatch
    <2>3. /\ \A b \in Agents : b # a => agents'[b] = agents[b] /\ calls'[b] = calls[b]
          /\ agents'[a].pc = "posted" /\ agents'[a].list = list /\ agents'[a].job = agents[a].job
          /\ calls'[a].job = agents[a].job /\ calls'[a].list = list
      BY <2>1 DEF AgentType
    <2>4. \A b \in Agents, j \in JobIds : Working(b, j)' => Working(b, j)
      BY <2>2, <2>3 DEF Working
    <2>5. \A b \in Agents : agents'[b].pc = "posted" /\ CallIsOn(b)'
                 => calls'[b].job = agents'[b].job /\ calls'[b].list = agents'[b].list
      BY <2>3 DEF OneWorker, CallIsOn
    <2>6. \A b \in Agents : agents'[b].pc \in GoesOnWith
                 => agents[b].pc \in GoesOnWith /\ agents'[b].job = agents[b].job
      BY <2>2, <2>3 DEF GoesOnWith
    <2>7. \A b \in Agents : agents'[b].pc = "completed" => agents'[b].list = {}
      BY <2>3 DEF OneWorker
    <2> QED BY <2>2, <2>4, <2>5, <2>6, <2>7, <1>c, QueueKept
  <1>10. ASSUME NEW a \in Agents, Finish(a) PROVE OneWorker'
    <2>1. AgentIsOn(a) /\ agents[a].job \in JobIds /\ Working(a, agents[a].job) /\ UNCHANGED calls
      BY <1>10, <1>c DEF Finish, AgentIsOn, EndStates, Working
    <2>2. /\ \A k \in JobIds : k # agents[a].job => jobs'[k] = jobs[k]
          /\ jobs'[agents[a].job].state \notin {"queued", "claimed"}
      BY <1>10, <2>1, <1>t DEF Finish, JobType, EndStates
    <2>3. /\ \A b \in Agents : b # a => agents'[b] = agents[b]
          /\ agents'[a].pc \notin GoesOnWith
          /\ agents'[a].pc # "idle" => agents'[a].job = agents[a].job
      BY <1>10, <2>1 DEF Finish, IdleAgent, GoesOnWith, AgentType
    <2>4. \A b \in Agents, k \in JobIds : Working(b, k)' => Working(b, k)
      BY <2>1, <2>3 DEF Working, AgentIsOn
    <2>5. \A b \in Agents : b # a /\ agents[b].pc \in GoesOnWith => agents[b].job # agents[a].job
      <3>1. ASSUME NEW b \in Agents, b # a, agents[b].pc \in GoesOnWith, agents[b].job = agents[a].job PROVE FALSE
        <4>1. Outstanding(agents[a].job) /\ Working(b, agents[a].job)
          BY <3>1 DEF OneWorker, Outstanding, Working, GoesOnWith
        <4> QED BY <2>1, <3>1, <4>1 DEF OneWorker
      <3> QED BY <3>1
    <2>6. \A b \in Agents : agents'[b].pc \in GoesOnWith => jobs'[agents'[b].job].state = "claimed"
      BY <2>2, <2>3, <2>5, <1>c DEF OneWorker, AgentIsOn, GoesOnWith
    <2>7. \A k \in JobIds : jobs'[k].state = "queued" => \A b \in Agents : ~Working(b, k)'
      BY <2>2, <2>4 DEF OneWorker
    <2>8. \A k \in JobIds : Outstanding(k)' =>
              \A b, d \in Agents : Working(b, k)' /\ Working(d, k)' => b = d
      BY <2>2, <2>4 DEF OneWorker, Outstanding
    <2>9. \A b \in Agents : agents'[b].pc \in {"posted", "completed"} => agents'[b] = agents[b]
      BY <2>3 DEF GoesOnWith
    <2> QED BY <2>1, <2>6, <2>7, <2>8, <2>9 DEF OneWorker, CallIsOn, GoesOnWith
  <1>11. ASSUME NEW a \in Agents, LosesCall(a) \/ Dies(a) \/ DropsCall(a) PROVE OneWorker'
    <2>1. UNCHANGED jobs
      BY <1>11 DEF LosesCall, Dies, DropsCall
    <2>2. \A b \in Agents : /\ agents'[b] = agents[b] \/ agents'[b].pc = "idle"
                               \/ (AgentIsOn(b) /\ agents'[b].pc = "failed" /\ agents'[b].job = agents[b].job)
                            /\ calls'[b] = calls[b] \/ ~CallIsOn(b)'
      BY <1>11 DEF LosesCall, Dies, DropsCall, IdleAgent, NoCall, AgentIsOn, CallIsOn, AgentType, EndStates
    <2>3. \A b \in Agents, j \in JobIds : Working(b, j)' => Working(b, j)
      BY <2>2 DEF Working, AgentIsOn, CallIsOn
    <2>4. \A b \in Agents : agents'[b].pc \in GoesOnWith => agents'[b] = agents[b]
      BY <2>2 DEF GoesOnWith
    <2>5. \A b \in Agents : agents'[b].pc = "posted" /\ CallIsOn(b)'
                 => calls'[b].job = agents'[b].job /\ calls'[b].list = agents'[b].list
      BY <2>2, <2>4 DEF OneWorker, CallIsOn, GoesOnWith
    <2>6. \A b \in Agents : agents'[b].pc = "completed" => agents'[b].list = {}
      BY <2>4 DEF OneWorker, GoesOnWith
    <2> QED BY <2>1, <2>3, <2>4, <2>5, <2>6, <1>c, QueueKept
  <1>12. ASSUME NEW a \in Agents, BatchRejected(a) PROVE OneWorker'
    <2>1. UNCHANGED jobs /\ Replied(a, FALSE)
      BY <1>12 DEF BatchRejected
    <2> QED BY <2>1, <1>c, RepliedWorkers, QueueKept
  <1>13. ASSUME NEW a \in Agents, BatchWithoutRoot(a) PROVE OneWorker'
    BY <1>13 DEF BatchWithoutRoot
  <1>14. ASSUME NEW a \in Agents, BatchAccepted(a) \/ BatchGoesOn(a) PROVE OneWorker'
    <2>1. CallIsOn(a) /\ RecordPage(a) /\ calls[a].job \in JobIds
      BY <1>14, <1>c DEF BatchAccepted, BatchGoesOn, CallIsOn
    <2>2. PICK page \in SUBSET calls[a].todo, continue \in BOOLEAN :
              /\ live' = live \cup page
              /\ seen' = [f \in Files |-> IF f \in page THEN jobs[calls[a].job].run ELSE seen[f]]
              /\ \/ page # calls[a].todo /\ GoesOn(a, page) /\ UNCHANGED <<jobs, agents>>
                 \/ /\ page = calls[a].todo /\ Replied(a, continue)
                    /\ \/ jobs[calls[a].job].state # "claimed" /\ ~continue /\ UNCHANGED jobs
                       \/ /\ jobs[calls[a].job].state = "claimed"
                          /\ jobs' = [jobs EXCEPT ![calls[a].job].cursor = calls[a].list]
      BY <2>1, RecordPageCases
    <2>3. \A j \in JobIds : jobs'[j].state = jobs[j].state
      BY <2>1, <2>2, <1>t DEF JobType
    <2>4. CASE Replied(a, continue)
      BY <2>3, <2>4, <1>c, RepliedWorkers, QueueKept
    <2>5. CASE GoesOn(a, page) /\ UNCHANGED agents
      <3>1. \A b \in Agents : calls'[b].job = calls[b].job /\ calls'[b].list = calls[b].list /\ (CallIsOn(b)' => CallIsOn(b))
        BY <2>1, <2>5 DEF GoesOn, CallIsOn
      <3>2. \A b \in Agents, j \in JobIds : Working(b, j)' => Working(b, j)
        BY <2>5, <3>1 DEF Working, CallIsOn
      <3>3. \A b \in Agents : agents'[b].pc = "posted" /\ CallIsOn(b)'
                 => calls'[b].job = agents'[b].job /\ calls'[b].list = agents'[b].list
        BY <2>5, <3>1 DEF OneWorker
      <3>4. \A b \in Agents : agents'[b].pc = "completed" => agents'[b].list = {}
        BY <2>5 DEF OneWorker
      <3> QED BY <2>3, <2>5, <3>2, <3>3, <3>4, <1>c, QueueKept
    <2> QED BY <2>2, <2>4, <2>5
  <1>15. CASE Restart
    <2>1. UNCHANGED <<jobs, agents>> /\ \A a \in Agents : ~CallIsOn(a)'
      BY <1>15 DEF Restart, CallIsOn, NoCall
    <2>2. \A b \in Agents, j \in JobIds : Working(b, j)' => Working(b, j)
      BY <2>1 DEF Working, CallIsOn
    <2>3. \A b \in Agents : agents'[b].pc = "completed" => agents'[b].list = {}
      BY <2>1 DEF OneWorker
    <2> QED BY <2>1, <2>2, <2>3, <1>c, QueueKept
  <1> QED BY <1>1, <1>2, <1>3, <1>4, <1>5, <1>6, <1>7, <1>8, <1>9, <1>10, <1>11, <1>12, <1>13, <1>14, <1>15
          DEF Next, Poll, Sweep, Serve, Agent

-----------------------------------------------------------------------------
(* Worklists.                                                              *)

(* A directory is what is at it and under those in it. *)
LEMMA UnderSplit ==
    ASSUME NEW c \in Entries, NEW x \in Under[c], x # c
    PROVE  \E k \in Children[c] : x \in Under[k]
  <1> SUFFICES ASSUME \A k \in Children[c] : x \notin Under[k] PROVE FALSE
    OBVIOUS
  <1>t. Children[c] \subseteq Entries /\ x \in Entries
    BY TreeAssumption DEF Under
  <1> DEFINE Closed(S) == \A d \in S : Children[d] \subseteq S
             Apart == {e \in Entries : x \notin Under[e]}
             U == {c} \cup Apart
  <1>1. \A e \in Entries : x \notin Under[e] <=> \E S \in SUBSET Entries : e \in S /\ Closed(S) /\ x \notin S
    BY <1>t DEF Under
  <1>2. \A e \in Apart : Children[e] \subseteq Apart
    <2>1. ASSUME NEW e \in Apart, NEW k \in Children[e] PROVE k \in Apart
      <3>1. PICK S \in SUBSET Entries : e \in S /\ Closed(S) /\ x \notin S
        BY <1>1
      <3>2. k \in S /\ k \in Entries
        BY <3>1
      <3> QED BY <1>1, <3>1, <3>2
    <2> QED BY <2>1
  <1>3. U \in SUBSET Entries /\ c \in U /\ Closed(U)
    BY <1>t, <1>2
  <1>4. x \notin Apart
    <2>1. ASSUME x \in Apart PROVE FALSE
      <3>1. PICK S \in SUBSET Entries : x \in S /\ Closed(S) /\ x \notin S
        BY <1>1, <1>t, <2>1
      <3> QED BY <3>1
    <2> QED BY <2>1
  <1>5. x \notin U
    BY <1>4
  <1> HIDE DEF U, Closed
  <1>6. x \notin Under[c]
    BY <1>1, <1>3, <1>5
  <1> QED BY <1>6

LEMMA NothingLeads == \A D, f : ~LeadsTo(D, {}, f)
  BY DEF LeadsTo

(* A directory none of which is passed leads to all that is under it. *)
LEMMA WholeLeads ==
    ASSUME NEW D \in SUBSET Files, NEW c \in Entries, NEW f \in Files, In[f] \in Under[c],
           NEW list, <<c, 0>> \in list
    PROVE  LeadsTo(D, list, f)
  <1>1. \A x : Place(D, x, c) >= 0
    BY PlaceIsNat
  <1>2. In[f] = c \/ \E k \in Children[c] : In[f] \in Under[k]
    BY UnderSplit
  <1> QED BY <1>1, <1>2 DEF LeadsTo

LEMMA TopLeads ==
    ASSUME NEW D \in SUBSET Files, NEW f \in Files PROVE LeadsTo(D, {<<Top, 0>>}, f)
  <1>1. In[f] \in Under[Top]
    BY TreeAssumption DEF Under
  <1> QED BY <1>1, WholeLeads, TreeAssumption

LEMMA MoreLeads ==
    ASSUME NEW D, NEW list, NEW more, list \subseteq more, NEW f, LeadsTo(D, list, f)
    PROVE  LeadsTo(D, more, f)
  BY DEF LeadsTo

(* Going through a directory as far as a batch goes loses nothing: what it *)
(* would have led to has been taken, is under a directory that was taken,  *)
(* or is still ahead.                                                      *)
LEMMA VisitLeads ==
    ASSUME disk \in SUBSET Files, NEW f \in disk, NEW list \in Worklist, NEW e \in list, NEW room \in Nat,
           LeadsTo(disk, list, f)
    PROVE  \/ f \in Taken(e[1], e[2], room)
           \/ LeadsTo(disk, (list \ {e}) \cup ((Taken(e[1], e[2], room) \cap Entries) \X {0})
                            \cup Continuation(e[1], e[2], room), f)
  <1> DEFINE T == Taken(e[1], e[2], room)
             C == Continuation(e[1], e[2], room)
             rest == (list \ {e}) \cup ((T \cap Entries) \X {0}) \cup C
             Leads(w) == \/ In[f] = w[1] /\ Place(disk, f, w[1]) >= w[2]
                         \/ \E c \in Children[w[1]] : Place(disk, c, w[1]) >= w[2] /\ In[f] \in Under[c]
  <1>t. e[1] \in Entries /\ e[2] \in Nat
    BY DEF Worklist
  <1>1. PICK w \in list : Leads(w)
    BY DEF LeadsTo
  <1>2. CASE w # e
    <2>1. w \in rest
      BY <1>2
    <2> QED BY <1>1, <2>1 DEF LeadsTo
  <1>3. ASSUME In[f] = e[1], Place(disk, f, e[1]) >= e[2], f \notin T
        PROVE  LeadsTo(disk, rest, f)
    <2>1. f \in Listing(disk, e[1])
      BY <1>3 DEF Listing
    <2>2. PICK k \in Nat : C = {<<e[1], k>>} /\ Place(disk, f, e[1]) >= k
      BY <1>t, <1>3, <2>1, ContinuesThere
    <2>3. <<e[1], k>> \in rest
      BY <2>2
    <2> HIDE DEF rest
    <2> QED BY <1>3, <2>2, <2>3 DEF LeadsTo
  <1>4. ASSUME NEW c \in Children[e[1]], Place(disk, c, e[1]) >= e[2], In[f] \in Under[c]
        PROVE  LeadsTo(disk, rest, f)
    <2>1. c \in Listing(disk, e[1]) /\ c \in Entries
      BY <1>t, TreeAssumption DEF Listing
    <2>2. CASE c \in T
      <3>1. <<c, 0>> \in rest
        BY <2>1, <2>2
      <3> HIDE DEF rest
      <3> QED BY <1>4, <2>1, <3>1, WholeLeads
    <2>3. CASE c \notin T
      <3>1. PICK k \in Nat : C = {<<e[1], k>>} /\ Place(disk, c, e[1]) >= k
        BY <1>t, <1>4, <2>1, <2>3, ContinuesThere
      <3>2. <<e[1], k>> \in rest
        BY <3>1
      <3> HIDE DEF rest
      <3> QED BY <1>4, <3>1, <3>2 DEF LeadsTo
    <2> QED BY <2>2, <2>3
  <1> QED BY <1>1, <1>2, <1>3, <1>4

(* When a file comes or goes, a worklist that is kept leads to what it did *)
(* lead to, but for what the file has taken with it.                       *)
LEMMA KeptLeads ==
    ASSUME TypeOK, \A h \in Files : Presence(h, disk) \in span[h],
           NEW g \in Files, Changes(g), NEW list \in Worklist, \A e \in list : IsKept(e),
           NEW f \in Files, LeadsTo(disk, list, f)
    PROVE  LeadsTo(disk', list, f) \/ MayBeMissed(f)'
  <1>t. disk \in SUBSET Files /\ span \in [Files -> SUBSET {"here", "gone", "skipped"}]
    BY TypeParts
  <1>1. CASE g \notin disk
    <2>1. disk' = disk \cup {g}
      BY <1>1 DEF Changes
    <2>2. \A d \in Entries : \A x : /\ Place(disk, x, d) <= Place(disk', x, d)
                                  /\ Place(disk, x, d) \in Nat /\ Place(disk', x, d) \in Nat
      BY <1>t, <2>1, PlaceGrows, PlaceIsNat
    <2>3. \A w \in list : w[1] \in Entries /\ w[2] \in Nat
      BY DEF Worklist
    <2> QED BY <2>2, <2>3 DEF LeadsTo
  <1>2. CASE g \in disk
    <2>1. disk' = disk \ {g} /\ disk' \in SUBSET Files
      BY <1>t, <1>2 DEF Changes
    <2>2. f \in Shifted(g) => MayBeMissed(f)'
      BY <1>2 DEF Changes, MayBeMissed
    <2>3. ASSUME NEW w \in list, NEW x \in Listing(disk, w[1]), Place(disk, x, w[1]) >= w[2]
          PROVE  \/ Place(disk', x, w[1]) >= w[2]
                 \/ /\ In[g] = w[1] /\ Rank[g] < Rank[x]
                    /\ IsKept(<<w[1], Place(disk, x, w[1])>>)
      <3>1. w[1] \in Entries /\ w[2] \in Nat /\ w = <<w[1], w[2]>>
        BY DEF Worklist
      <3>2. Place(disk, x, w[1]) \in Nat /\ Place(disk', x, w[1]) \in Nat
        BY <1>t, <2>1, <3>1, PlaceIsNat
      <3>3. /\ ~(In[g] = w[1] /\ Rank[g] < Rank[x]) => Place(disk', x, w[1]) = Place(disk, x, w[1])
            /\ Place(disk, x, w[1]) <= Place(disk', x, w[1]) + 1
        BY <1>t, <1>2, <2>1, <3>1, PlaceAfterLeaving
      <3>4. CASE In[g] = w[1] /\ Rank[g] < Rank[x]
        <4>1. Place(disk', x, w[1]) >= w[2] \/ Place(disk, x, w[1]) = w[2]
          BY <2>3, <3>1, <3>2, <3>3
        <4> QED BY <3>1, <3>4, <4>1
      <3>5. CASE ~(In[g] = w[1] /\ Rank[g] < Rank[x])
        BY <2>3, <3>3, <3>5
      <3> QED BY <3>4, <3>5
    <2>4. PICK w \in list : \/ In[f] = w[1] /\ Place(disk, f, w[1]) >= w[2]
                            \/ \E c \in Children[w[1]] : Place(disk, c, w[1]) >= w[2] /\ In[f] \in Under[c]
      BY DEF LeadsTo
    <2>5. w[1] \in Entries
      BY DEF Worklist
    <2>6. CASE In[f] = w[1] /\ Place(disk, f, w[1]) >= w[2]
      <3>1. CASE f \in disk
        <4>1. f \in Listing(disk, w[1])
          BY <2>6, <3>1 DEF Listing
        <4>2. CASE Place(disk', f, w[1]) >= w[2]
          BY <2>6, <4>2 DEF LeadsTo
        <4>3. CASE In[g] = w[1] /\ Rank[g] < Rank[f] /\ IsKept(<<w[1], Place(disk, f, w[1])>>)
          <5>1. f \in Shifted(g)
            BY <4>1, <4>3 DEF Shifted
          <5> QED BY <2>2, <5>1
        <4> QED BY <2>3, <2>6, <4>1, <4>2, <4>3
      <3>2. CASE f \notin disk
        BY <1>t, <3>2 DEF Presence, Changes, MayBeMissed
      <3> QED BY <3>1, <3>2
    <2>7. ASSUME NEW c \in Children[w[1]], Place(disk, c, w[1]) >= w[2], In[f] \in Under[c]
          PROVE  LeadsTo(disk', list, f) \/ MayBeMissed(f)'
      <3>1. c \in Listing(disk, w[1]) /\ c \in Entries
        BY <2>5, TreeAssumption DEF Listing
      <3>2. CASE Place(disk', c, w[1]) >= w[2]
        BY <2>7, <3>2 DEF LeadsTo
      <3>3. CASE In[g] = w[1] /\ Rank[g] < Rank[c] /\ IsKept(<<w[1], Place(disk, c, w[1])>>)
        <4>1. f \in Shifted(g)
          BY <2>7, <3>1, <3>3 DEF Shifted
        <4> QED BY <2>2, <4>1
      <3> QED BY <2>3, <2>7, <3>1, <3>2, <3>3
    <2> QED BY <2>4, <2>6, <2>7
  <1> QED BY <1>1, <1>2

-----------------------------------------------------------------------------
(* Every worklist leads to what the run has not recorded.                  *)

LEMMA CoveredInit == Init => Covered
  BY DEF Init, Covered, NoWf, NoCursor, NoJob, IdleAgent, NoCall, Outstanding, CallIsOn

(* Nothing the run has recorded is unrecorded: what was reached stays so. *)
Recorded ==
    /\ UNCHANGED disk
    /\ \A f \in Files : span[f] \subseteq span'[f]
    /\ \A r \in RunIds : IsRunning(r) => \A f \in Files : seen[f] = r => seen'[f] = r

ReachesNext(list, todo, r) ==
    \A f \in Files : f \in todo \/ LeadsTo(disk', list, f) \/ seen'[f] = r \/ MayBeMissed(f)'

LEMMA ReachesKept ==
    ASSUME Recorded PROVE \A list, todo : \A r \in RunIds :
        IsRunning(r) /\ Reaches(list, todo, r) => ReachesNext(list, todo, r)
  BY DEF Recorded, Reaches, ReachesNext, MayBeMissed

(* A list that is the cursor of a job, or the top when there is none. *)
LEMMA CoveredParts ==
    ASSUME disk' \in SUBSET Files,
           saved'.list # {} => ReachesNext(saved'.list, {}, saved'.run),
           \A j \in JobIds : Outstanding(j)' /\ jobs'[j].cursor # {}
              => ReachesNext(jobs'[j].cursor, {}, jobs'[j].run),
           \A j \in JobIds : wf'.pc # "off" /\ wf'.job = j /\ jobs'[j].state = "paused" /\ jobs'[j].cursor # {}
              => ReachesNext(jobs'[j].cursor, {}, wf'.run),
           \A j \in JobIds : wf'.pc # "off" /\ wf'.job = j /\ jobs'[j].state = "completed"
              => ReachesNext({}, {}, wf'.run),
           \A a \in Agents : agents'[a].pc \in {"walk", "completed", "paused"}
              => ReachesNext(agents'[a].list, {}, jobs'[agents'[a].job].run),
           \A a \in Agents : CallIsOn(a)' /\ Outstanding(calls[a].job)'
              => ReachesNext(calls'[a].list, calls'[a].todo, jobs'[calls'[a].job].run),
           wf'.pc \in {"sweeping", "rollup"} => ReachesNext({}, {}, wf'.run)
    PROVE  Covered'
  BY TopLeads DEF Covered, Reaches, ReachesNext, StartList

(* A run something still leads on with is the one that is running. *)
LEMMA RunsThatLead ==
    ASSUME TypeOK, Owned, OneWorker
    PROVE  /\ saved.list # {} => saved.run \in RunIds /\ IsRunning(saved.run)
           /\ \A j \in JobIds : Outstanding(j) => jobs[j].run \in RunIds /\ IsRunning(jobs[j].run)
           /\ wf.pc # "off" => wf.run \in RunIds /\ IsRunning(wf.run)
           /\ \A a \in Agents : agents[a].pc \in GoesOnWith => Outstanding(agents[a].job) /\ agents[a].job \in JobIds
           /\ \A a \in Agents : CallIsOn(a) => calls[a].job \in JobIds
           /\ \A r, q \in RunIds : IsRunning(r) /\ IsRunning(q) => r = q
  <1>1. saved.list # {} => saved.run \in RunIds /\ IsRunning(saved.run)
    <2>1. saved.run # 0 => saved.run \in RunIds
      BY TypeParts, BoundsAssumption DEF RunIds, CursorType
    <2> QED BY <2>1 DEF Owned, OneRun
  <1>2. \A a \in Agents : agents[a].pc \in GoesOnWith => AgentIsOn(a)
    BY DEF GoesOnWith, AgentIsOn
  <1> QED BY <1>1, <1>2 DEF Owned, OneRun, Referred, OneWorker, GoesOnWith, Outstanding

(* The same of this state. *)
LEMMA CursorsReach ==
    ASSUME Covered
    PROVE  /\ \A j \in JobIds : Outstanding(j) /\ jobs[j].cursor # {} => Reaches(jobs[j].cursor, {}, jobs[j].run)
           /\ \A j \in JobIds : wf.pc # "off" /\ wf.job = j /\ jobs[j].state = "paused" /\ jobs[j].cursor # {}
                 => Reaches(jobs[j].cursor, {}, wf.run)
  BY DEF Covered, StartList

(* A step that moves no worklist. *)
LEMMA CoveredKept ==
    ASSUME TypeOK, Owned, OneWorker, Covered, Recorded,
           saved'.list = {} \/ (saved'.list = saved.list /\ saved'.run = saved.run),
           wf'.pc # "off" => wf.pc # "off" /\ wf'.job = wf.job /\ wf'.run = wf.run,
           wf'.pc \in {"sweeping", "rollup"} => wf.pc \in {"sweeping", "rollup"},
           \A j \in JobIds : jobs'[j].run = jobs[j].run,
           \A j \in JobIds : Outstanding(j)' => Outstanding(j) /\ jobs'[j].cursor = jobs[j].cursor,
           \A j \in JobIds : jobs'[j].state \in {"paused", "completed"}
              => jobs'[j].state = jobs[j].state /\ jobs'[j].cursor = jobs[j].cursor,
           \A a \in Agents : agents'[a].pc \in {"walk", "completed", "paused"} => agents'[a] = agents[a],
           \A a \in Agents : CallIsOn(a)' => calls'[a] = calls[a]
    PROVE  Covered'
  <1>d. disk' \in SUBSET Files
    BY TypeParts DEF Recorded
  <1>1. saved'.list # {} => ReachesNext(saved'.list, {}, saved'.run)
    BY RunsThatLead, ReachesKept DEF Covered
  <1>2. \A j \in JobIds : Outstanding(j)' /\ jobs'[j].cursor # {}
              => ReachesNext(jobs'[j].cursor, {}, jobs'[j].run)
    BY RunsThatLead, ReachesKept, CursorsReach
  <1>3. \A j \in JobIds : wf'.pc # "off" /\ wf'.job = j /\ jobs'[j].state = "paused" /\ jobs'[j].cursor # {}
              => ReachesNext(jobs'[j].cursor, {}, wf'.run)
    BY RunsThatLead, ReachesKept, CursorsReach
  <1>4. \A j \in JobIds : wf'.pc # "off" /\ wf'.job = j /\ jobs'[j].state = "completed"
              => ReachesNext({}, {}, wf'.run)
    BY RunsThatLead, ReachesKept DEF Covered
  <1>5. \A a \in Agents : agents'[a].pc \in {"walk", "completed", "paused"}
              => ReachesNext(agents'[a].list, {}, jobs'[agents'[a].job].run)
    BY RunsThatLead, ReachesKept DEF Covered, GoesOnWith
  <1>6. \A a \in Agents : CallIsOn(a)' /\ Outstanding(calls[a].job)'
              => ReachesNext(calls'[a].list, calls'[a].todo, jobs'[calls'[a].job].run)
    <2>1. \A a \in Agents : CallIsOn(a)' => CallIsOn(a) /\ calls[a].job \in JobIds
      BY RunsThatLead DEF CallIsOn
    <2> QED BY <2>1, RunsThatLead, ReachesKept DEF Covered
  <1>7. wf'.pc \in {"sweeping", "rollup"} => ReachesNext({}, {}, wf'.run)
    BY RunsThatLead, ReachesKept DEF Covered
  <1> QED BY <1>1, <1>2, <1>3, <1>4, <1>5, <1>6, <1>7, <1>d, CoveredParts

LEMMA SameRecorded == UNCHANGED <<disk, seen, span>> => Recorded
  BY DEF Recorded

(* Steps of the workflow. *)
LEMMA BeginCovered ==
    ASSUME TypeOK, Owned, OneWorker, Covered, Begin PROVE Covered'
  <1>d. UNCHANGED disk /\ disk' \in SUBSET Files
    BY TypeParts DEF Begin
  <1>1. PICK r \in RunIds, j \in JobIds :
              /\ wf' = [pc |-> "polling", run |-> r, job |-> j, asked |-> FALSE]
              /\ \/ Outstanding(j) /\ UNCHANGED jobs /\ jobs[j].run = r
                 \/ /\ \A k \in JobIds : ~Outstanding(k)
                    /\ ~InUse(j)
                    /\ jobs' = [jobs EXCEPT ![j] = [NoJob EXCEPT !.state = "queued", !.cursor = saved.list, !.run = r]]
              /\ \/ IsRunning(r) /\ UNCHANGED <<runs, span>>
                 \/ /\ runs[r] = "none" /\ saved = NoCursor
                    /\ \A q \in RunIds : ~IsRunning(q)
                    /\ \A k \in JobIds : ~Outstanding(k)
                    /\ runs' = [runs EXCEPT ![r] = "running"]
                    /\ span' = [f \in Files |-> {Presence(f, disk)}]
    BY BeginCases
  <1>2. UNCHANGED <<seen, saved, agents, calls>>
    BY DEF Begin
  <1>3. /\ wf'.pc = "polling" /\ wf'.job = j /\ wf'.run = r
        /\ Outstanding(j)' /\ jobs'[j].state \notin {"paused", "completed"} /\ jobs'[j].run = r
        /\ \A k \in JobIds : k # j => jobs'[k] = jobs[k]
        /\ UNCHANGED jobs \/ (jobs'[j].cursor = saved.list /\ ~InUse(j))
    BY <1>1, NewRow DEF Outstanding
  <1>4. CASE IsRunning(r) /\ UNCHANGED <<runs, span>>
    <2>1. Recorded
      BY <1>d, <1>2, <1>4, SameRecorded
    <2>2. saved.list # {} => ReachesNext(saved.list, {}, saved.run) /\ saved.run = r
      BY <1>4, <2>1, RunsThatLead, ReachesKept DEF Covered
    <2>3. \A k \in JobIds : Outstanding(k)' /\ jobs'[k].cursor # {}
              => ReachesNext(jobs'[k].cursor, {}, jobs'[k].run)
      <3>1. \A k \in JobIds : Outstanding(k) /\ jobs[k].cursor # {} => ReachesNext(jobs[k].cursor, {}, jobs[k].run)
        BY <2>1, RunsThatLead, ReachesKept, CursorsReach
      <3> QED BY <1>3, <2>2, <3>1 DEF Outstanding
    <2>4. \A a \in Agents : agents[a].pc \in {"walk", "completed", "paused"}
              => ReachesNext(agents[a].list, {}, jobs'[agents[a].job].run)
      <3>1. \A a \in Agents : agents[a].pc \in {"walk", "completed", "paused"}
              => agents[a].job \in JobIds /\ InUse(agents[a].job)
        BY RunsThatLead DEF GoesOnWith, InUse
      <3>2. \A a \in Agents : agents[a].pc \in {"walk", "completed", "paused"}
              => jobs'[agents[a].job] = jobs[agents[a].job]
        BY <1>3, <3>1
      <3> QED BY <2>1, <3>2, RunsThatLead, ReachesKept DEF Covered, GoesOnWith
    <2>5. \A a \in Agents : CallIsOn(a) /\ Outstanding(calls[a].job)'
              => ReachesNext(calls[a].list, calls[a].todo, jobs'[calls[a].job].run)
      <3>1. \A a \in Agents : CallIsOn(a) => calls[a].job \in JobIds /\ InUse(calls[a].job)
        BY RunsThatLead DEF CallIsOn, InUse
      <3>2. \A a \in Agents : CallIsOn(a) => jobs'[calls[a].job] = jobs[calls[a].job]
        BY <1>3, <3>1
      <3> QED BY <1>2, <2>1, <3>1, <3>2, RunsThatLead, ReachesKept DEF Covered, Outstanding
    <2> QED BY <1>2, <1>3, <2>2, <2>3, <2>4, <2>5, <1>d, CoveredParts DEF CallIsOn
  <1>5. CASE /\ saved = NoCursor /\ \A k \in JobIds : ~Outstanding(k)
    <2>1. \A a \in Agents : agents[a].pc \notin {"walk", "completed", "paused"}
      BY <1>5, RunsThatLead DEF GoesOnWith
    <2>2. \A a \in Agents : CallIsOn(a) => calls[a].job \in JobIds /\ InUse(calls[a].job) /\ ~Outstanding(calls[a].job)
      BY <1>5, RunsThatLead DEF CallIsOn, InUse
    <2>3. \A a \in Agents : CallIsOn(a) => ~Outstanding(calls[a].job)'
      BY <1>2, <1>3, <2>2 DEF Outstanding
    <2>4. saved'.list = {} /\ \A k \in JobIds : Outstanding(k)' => k = j
      BY <1>2, <1>3, <1>5 DEF Outstanding, NoCursor
    <2>5. UNCHANGED jobs => FALSE
      BY <1>3, <1>5 DEF Outstanding
    <2> QED BY <1>2, <1>3, <2>1, <2>3, <2>4, <2>5, <1>d, CoveredParts DEF CallIsOn
  <1> QED BY <1>1, <1>4, <1>5

LEMMA PollCovered ==
    ASSUME TypeOK, Owned, OneWorker, Covered, Poll \/ AskedToStop \/ Sweep PROVE Covered'
  <1> USE TypeParts
  <1>r. Recorded
    BY SameRecorded DEF Poll, Sweep, AskedToStop, PollQueued, PollClaimed, PollCompleted, PollPaused, PollFailed,
                        SweepBatch, SweepEnds, FinishRoot
  <1>d. disk' \in SUBSET Files
    BY <1>r DEF Recorded
  <1>j. wf.pc # "off" => wf.job \in JobIds
    BY DEF Owned, OneRun
  <1>1. CASE AskedToStop \/ SweepBatch \/ SweepEnds
    <2>1. UNCHANGED <<saved, jobs, agents, calls>>
      BY <1>1 DEF AskedToStop, SweepBatch, SweepEnds
    <2>2. /\ wf'.pc # "off" => wf.pc # "off" /\ wf'.job = wf.job /\ wf'.run = wf.run
          /\ wf'.pc \in {"sweeping", "rollup"} => wf.pc \in {"sweeping", "rollup"}
      BY <1>1 DEF AskedToStop, SweepBatch, SweepEnds, WfType
    <2> QED BY <1>r, <2>1, <2>2, CoveredKept DEF Outstanding
  <1>2. CASE PollFailed \/ FinishRoot
    <2>1. UNCHANGED <<jobs, agents, calls>> /\ wf'.pc = "off" /\ saved'.list = {}
      BY <1>2 DEF PollFailed, FinishRoot, NoWf, NoCursor
    <2> QED BY <1>r, <2>1, CoveredKept DEF Outstanding
  <1>3. CASE PollQueued
    <2>1. \A j \in JobIds : /\ jobs'[j].run = jobs[j].run /\ jobs'[j].cursor = jobs[j].cursor
                            /\ jobs'[j].state = jobs[j].state \/ jobs'[j].state = "cancelled"
      BY <1>3, <1>j DEF PollQueued, JobType
    <2>2. wf'.pc # "off" => wf' = wf
      BY <1>3 DEF PollQueued, NoWf
    <2>3. saved'.list = {} \/ (saved'.list = saved.list /\ saved'.run = saved.run)
      <3>1. saved.list # {} => saved.run = wf.run
        BY <1>3, RunsThatLead DEF PollQueued
      <3> QED BY <1>3, <3>1 DEF PollQueued, CursorType
    <2>4. UNCHANGED <<agents, calls>>
      BY <1>3 DEF PollQueued
    <2> QED BY <1>r, <2>1, <2>2, <2>3, <2>4, CoveredKept DEF Outstanding
  <1>4. CASE PollClaimed
    <2>1. \A j \in JobIds : /\ jobs'[j].run = jobs[j].run /\ jobs'[j].cursor = jobs[j].cursor
                            /\ jobs'[j].state = jobs[j].state
      BY <1>4, <1>j DEF PollClaimed, JobType
    <2>2. UNCHANGED <<wf, saved, agents, calls>>
      BY <1>4 DEF PollClaimed
    <2> QED BY <1>r, <2>1, <2>2, CoveredKept DEF Outstanding
  <1>5. CASE PollCompleted \/ PollPaused
    <2>1. UNCHANGED <<seen, runs, jobs, agents, calls, span>> /\ wf.pc # "off"
      BY <1>5 DEF PollCompleted, PollPaused
    <2>2. \A j \in JobIds : Outstanding(j)' /\ jobs'[j].cursor # {}
              => ReachesNext(jobs'[j].cursor, {}, jobs'[j].run)
      BY <1>r, <2>1, RunsThatLead, ReachesKept, CursorsReach DEF Outstanding
    <2>3. \A a \in Agents : agents'[a].pc \in {"walk", "completed", "paused"}
              => ReachesNext(agents'[a].list, {}, jobs'[agents'[a].job].run)
      BY <1>r, <2>1, RunsThatLead, ReachesKept DEF Covered, GoesOnWith
    <2>4. \A a \in Agents : CallIsOn(a)' /\ Outstanding(calls[a].job)'
              => ReachesNext(calls'[a].list, calls'[a].todo, jobs'[calls'[a].job].run)
      BY <1>r, <2>1, RunsThatLead, ReachesKept DEF Covered, CallIsOn, Outstanding
    <2>5. CASE PollCompleted
      <3>1. ReachesNext({}, {}, wf.run)
        BY <1>r, <1>j, <2>1, <2>5, RunsThatLead, ReachesKept DEF Covered, PollCompleted, Polled
      <3>2. saved' = saved /\ wf'.job = wf.job /\ wf'.run = wf.run /\ jobs[wf.job].state = "completed"
        BY <2>5 DEF PollCompleted, Polled, WfType
      <3>3. saved'.list # {} => ReachesNext(saved'.list, {}, saved'.run)
        BY <1>r, <3>2, RunsThatLead, ReachesKept DEF Covered
      <3> QED BY <2>1, <2>2, <2>3, <2>4, <3>1, <3>2, <3>3, <1>d, CoveredParts
    <2>6. CASE PollPaused
      <3>1. saved'.list = jobs[wf.job].cursor /\ saved'.run = wf.run /\ wf'.pc = "off" /\ jobs[wf.job].state = "paused"
        BY <2>6 DEF PollPaused, Polled, NoWf
      <3>2. saved'.list # {} => ReachesNext(saved'.list, {}, saved'.run)
        BY <1>r, <1>j, <2>1, <3>1, RunsThatLead, ReachesKept, CursorsReach
      <3> QED BY <2>1, <2>2, <2>3, <2>4, <3>1, <3>2, <1>d, CoveredParts
    <2> QED BY <1>5, <2>5, <2>6
  <1> QED BY <1>1, <1>2, <1>3, <1>4, <1>5 DEF Poll, Sweep

(* Steps of the queue. *)
LEMMA QueueCovered ==
    ASSUME TypeOK, Owned, OneWorker, Covered,
           Reclaim \/ Restart \/ (\E j \in JobIds : CancelByHand(j) \/ TimePasses(j)) \/ UNCHANGED vars
    PROVE  Covered'
  <1> USE TypeParts
  <1>r. Recorded
    BY SameRecorded DEF Reclaim, Restart, CancelByHand, TimePasses, vars
  <1> DEFINE Still(k) == /\ jobs'[k].run = jobs[k].run /\ jobs'[k].cursor = jobs[k].cursor
                         /\ Outstanding(k)' => Outstanding(k)
                         /\ jobs'[k].state \in {"paused", "completed"} => jobs'[k].state = jobs[k].state
  <1>1. ASSUME NEW k \in JobIds PROVE Still(k)
    <2>t. \A i \in JobIds : jobs[i] \in JobType
      OBVIOUS
    <2>1. CASE Reclaim
      BY <2>1, <2>t DEF Reclaim, Reclaimed, Silent, Outstanding, JobType
    <2>2. CASE Restart \/ UNCHANGED vars
      BY <2>2 DEF Restart, vars, Outstanding
    <2>3. ASSUME NEW j \in JobIds, CancelByHand(j) PROVE Still(k)
      BY <2>3, <2>t DEF CancelByHand, Outstanding, JobType
    <2>4. ASSUME NEW j \in JobIds, TimePasses(j) PROVE Still(k)
      BY <2>4, <2>t DEF TimePasses, Outstanding, JobType
    <2> HIDE DEF Still
    <2> QED BY <2>1, <2>2, <2>3, <2>4
  <1>2. UNCHANGED <<saved, agents>> /\ (wf' = wf \/ wf'.pc = "off")
    BY DEF Reclaim, Restart, CancelByHand, TimePasses, vars, NoWf
  <1>3. \A a \in Agents : CallIsOn(a)' => calls'[a] = calls[a]
    BY DEF Reclaim, Restart, CancelByHand, TimePasses, vars, CallIsOn, NoCall
  <1> QED BY <1>r, <1>1, <1>2, <1>3, CoveredKept

(* Steps of an agent. *)
LEMMA ClaimCovered ==
    ASSUME InTime, RootStays, TypeOK, Owned, OneWorker, Covered, NEW a \in Agents, Claim(a) PROVE Covered'
  <1> USE TypeParts
  <1>t. \A i \in JobIds : jobs[i] \in JobType
    OBVIOUS
  <1>1. PICK S \in SUBSET {i \in JobIds : Silent(i)}, j \in JobIds :
          /\ Reclaimed(S)[j].state = "queued"
          /\ jobs' = [Reclaimed(S) EXCEPT ![j].state = "claimed"]
          /\ \/ agents' = [agents EXCEPT ![a] = [pc |-> "walk", job |-> j, list |-> StartList(j)]]
             \/ UNCHANGED agents
    BY DEF Claim
  <1>2. UNCHANGED <<seen, wf, saved, calls, span>> /\ Recorded
    BY SameRecorded DEF Claim
  <1>d. disk' \in SUBSET Files
    BY DEF Claim
  <1>3. /\ \A k \in JobIds : /\ jobs'[k].run = jobs[k].run /\ jobs'[k].cursor = jobs[k].cursor
                             /\ Outstanding(k)' => Outstanding(k)
                             /\ jobs'[k].state \in {"paused", "completed"} => jobs'[k].state = jobs[k].state
        /\ Outstanding(j)
    <2>1. \A k \in JobIds : /\ Reclaimed(S)[k].run = jobs[k].run /\ Reclaimed(S)[k].cursor = jobs[k].cursor
                            /\ \/ Reclaimed(S)[k].state = jobs[k].state
                               \/ jobs[k].state = "claimed" /\ Reclaimed(S)[k].state = "queued"
      BY <1>t DEF Reclaimed, Silent, JobType
    <2>2. Outstanding(j)
      BY <1>1, <2>1 DEF Outstanding
    <2>3. Reclaimed(S) \in [JobIds -> JobType]
      BY ReclaimedType
    <2>4. \A k \in JobIds : /\ jobs'[k].run = Reclaimed(S)[k].run /\ jobs'[k].cursor = Reclaimed(S)[k].cursor
                            /\ IF k = j THEN jobs'[k].state = "claimed" ELSE jobs'[k].state = Reclaimed(S)[k].state
      BY <1>1, <2>3 DEF JobType
    <2> QED BY <2>1, <2>2, <2>4 DEF Outstanding
  <1>4. CASE UNCHANGED agents
    BY <1>2, <1>3, <1>4, CoveredKept
  <1>5. CASE agents' = [agents EXCEPT ![a] = [pc |-> "walk", job |-> j, list |-> StartList(j)]]
    <2>1. ReachesNext(StartList(j), {}, jobs[j].run)
      BY <1>2, <1>3, RunsThatLead, ReachesKept DEF Covered
    <2>2. \A b \in Agents : agents'[b].pc \in {"walk", "completed", "paused"}
              => ReachesNext(agents'[b].list, {}, jobs'[agents'[b].job].run)
      <3>1. agents'[a].list = StartList(j) /\ agents'[a].job = j /\ \A b \in Agents : b # a => agents'[b] = agents[b]
        BY <1>5
      <3>2. \A b \in Agents : agents[b].pc \in {"walk", "completed", "paused"}
              => ReachesNext(agents[b].list, {}, jobs'[agents[b].job].run)
        BY <1>2, <1>3, RunsThatLead, ReachesKept DEF Covered, GoesOnWith
      <3> QED BY <1>3, <2>1, <3>1, <3>2
    <2>3. saved'.list # {} => ReachesNext(saved'.list, {}, saved'.run)
      BY <1>2, RunsThatLead, ReachesKept DEF Covered
    <2>4. \A k \in JobIds : Outstanding(k)' /\ jobs'[k].cursor # {}
              => ReachesNext(jobs'[k].cursor, {}, jobs'[k].run)
      BY <1>2, <1>3, RunsThatLead, ReachesKept, CursorsReach
    <2>5. \A k \in JobIds : wf'.pc # "off" /\ wf'.job = k /\ jobs'[k].state = "paused" /\ jobs'[k].cursor # {}
              => ReachesNext(jobs'[k].cursor, {}, wf'.run)
      BY <1>2, <1>3, RunsThatLead, ReachesKept, CursorsReach
    <2>6. \A k \in JobIds : wf'.pc # "off" /\ wf'.job = k /\ jobs'[k].state = "completed"
              => ReachesNext({}, {}, wf'.run)
      BY <1>2, <1>3, RunsThatLead, ReachesKept DEF Covered
    <2>7. \A b \in Agents : CallIsOn(b)' /\ Outstanding(calls[b].job)'
              => ReachesNext(calls'[b].list, calls'[b].todo, jobs'[calls'[b].job].run)
      <3>1. \A b \in Agents : CallIsOn(b)' => CallIsOn(b) /\ calls[b].job \in JobIds /\ calls'[b] = calls[b]
        BY <1>2, RunsThatLead DEF CallIsOn
      <3> QED BY <1>2, <1>3, <3>1, RunsThatLead, ReachesKept DEF Covered
    <2>8. wf'.pc \in {"sweeping", "rollup"} => ReachesNext({}, {}, wf'.run)
      BY <1>2, RunsThatLead, ReachesKept DEF Covered
    <2> QED BY <2>2, <2>3, <2>4, <2>5, <2>6, <2>7, <2>8, <1>d, CoveredParts
  <1> QED BY <1>1, <1>4, <1>5

(* A batch: one directory is gone through, what it leaves takes its place  *)
(* and the files found in it go along.                                     *)
LEMMA PostBatchCovered ==
    ASSUME InTime, RootStays, Unreadable = {}, TypeOK, Owned, Timely, OneWorker, Covered,
           NEW a \in Agents, PostBatch(a)
    PROVE  Covered'
  <1> USE TypeParts
  <1>1. PICK e \in agents[a].list, room \in 1..BatchSize :
           LET taken == Taken(e[1], e[2], room)
               list == (agents[a].list \ {e}) \cup ((taken \cap Entries) \X {0}) \cup Continuation(e[1], e[2], room)
           IN /\ agents' = [agents EXCEPT ![a].pc = "posted", ![a].list = list]
              /\ calls' = [calls EXCEPT ![a] = [stage |-> "sent", job |-> agents[a].job,
                                               todo |-> taken \cap Files, list |-> list]]
    BY DEF PostBatch
  <1> DEFINE taken == Taken(e[1], e[2], room)
             list == (agents[a].list \ {e}) \cup ((taken \cap Entries) \X {0}) \cup Continuation(e[1], e[2], room)
  <1>2. /\ agents[a].pc = "walk" /\ UNCHANGED <<seen, wf, saved, jobs, span>> /\ Recorded
    BY SameRecorded DEF PostBatch
  <1>d. disk' \in SUBSET Files
    BY DEF PostBatch
  <1>3. agents[a].list \in Worklist /\ agents[a].job \in JobIds /\ Outstanding(agents[a].job)
    BY <1>2, RunsThatLead DEF AgentType, GoesOnWith
  <1>4. Reaches(list, taken \cap Files, jobs[agents[a].job].run)
    <2>1. Reaches(agents[a].list, {}, jobs[agents[a].job].run)
      BY <1>2 DEF Covered
    <2>2. \A f \in Files : f \notin disk => MayBeMissed(f)
      BY DEF Timely, Presence, MayBeMissed
    <2>3. room \in Nat
      BY BoundsAssumption
    <2>4. \A f \in disk : LeadsTo(disk, agents[a].list, f) => f \in taken \/ LeadsTo(disk, list, f)
      BY <1>3, <2>3, VisitLeads
    <2> HIDE DEF list, taken
    <2> QED BY <2>1, <2>2, <2>4 DEF Reaches
  <1>5. ReachesNext(list, taken \cap Files, jobs[agents[a].job].run)
    BY <1>2, <1>3, <1>4, RunsThatLead, ReachesKept
  <1>6. /\ agents'[a].pc = "posted" /\ \A b \in Agents : b # a => agents'[b] = agents[b] /\ calls'[b] = calls[b]
        /\ calls'[a].list = list /\ calls'[a].todo = taken \cap Files
        /\ calls'[a].job = agents[a].job
    BY <1>1
  <1> HIDE DEF list, taken
  <1>7. \A b \in Agents : agents'[b].pc \in {"walk", "completed", "paused"}
              => ReachesNext(agents'[b].list, {}, jobs'[agents'[b].job].run)
    BY <1>2, <1>6, RunsThatLead, ReachesKept DEF Covered, GoesOnWith
  <1>8. \A b \in Agents : CallIsOn(b)' /\ Outstanding(calls[b].job)'
              => ReachesNext(calls'[b].list, calls'[b].todo, jobs'[calls'[b].job].run)
    <2>1. ASSUME NEW b \in Agents, b # a, CallIsOn(b)', Outstanding(calls[b].job)'
          PROVE  ReachesNext(calls'[b].list, calls'[b].todo, jobs'[calls'[b].job].run)
      <3>1. CallIsOn(b) /\ Outstanding(calls[b].job) /\ calls[b].job \in JobIds /\ calls'[b] = calls[b]
        BY <1>2, <1>6, <2>1, RunsThatLead DEF CallIsOn, Outstanding
      <3> QED BY <1>2, <3>1, RunsThatLead, ReachesKept DEF Covered
    <2> QED BY <1>2, <1>5, <1>6, <2>1
  <1>9. saved'.list # {} => ReachesNext(saved'.list, {}, saved'.run)
    BY <1>2, RunsThatLead, ReachesKept DEF Covered
  <1>10. \A k \in JobIds : Outstanding(k)' /\ jobs'[k].cursor # {}
              => ReachesNext(jobs'[k].cursor, {}, jobs'[k].run)
    BY <1>2, RunsThatLead, ReachesKept, CursorsReach DEF Outstanding
  <1>11. \A k \in JobIds : wf'.pc # "off" /\ wf'.job = k /\ jobs'[k].state = "paused" /\ jobs'[k].cursor # {}
              => ReachesNext(jobs'[k].cursor, {}, wf'.run)
    BY <1>2, RunsThatLead, ReachesKept, CursorsReach
  <1>12. \A k \in JobIds : wf'.pc # "off" /\ wf'.job = k /\ jobs'[k].state = "completed"
              => ReachesNext({}, {}, wf'.run)
    BY <1>2, RunsThatLead, ReachesKept DEF Covered
  <1>13. wf'.pc \in {"sweeping", "rollup"} => ReachesNext({}, {}, wf'.run)
    BY <1>2, RunsThatLead, ReachesKept DEF Covered
  <1> QED BY <1>7, <1>8, <1>9, <1>10, <1>11, <1>12, <1>13, <1>d, CoveredParts

(* The end of a job hands over the worklist its agent had left. *)
LEMMA FinishCovered ==
    ASSUME InTime, RootStays, TypeOK, Owned, OneWorker, Covered, NEW a \in Agents, Finish(a) PROVE Covered'
  <1> USE TypeParts
  <1>1. UNCHANGED <<seen, wf, saved, calls, span>> /\ Recorded
    BY SameRecorded DEF Finish
  <1>d. disk' \in SUBSET Files
    BY DEF Finish
  <1>2. AgentIsOn(a) /\ agents[a].job \in JobIds /\ agents[a].pc \in EndStates
    BY DEF Finish, AgentIsOn, EndStates, Owned, Referred
  <1>3. /\ \A k \in JobIds : k # agents[a].job => jobs'[k] = jobs[k]
        /\ jobs'[agents[a].job].run = jobs[agents[a].job].run
        /\ jobs'[agents[a].job].state = agents[a].pc
        /\ agents[a].pc # "failed" => jobs'[agents[a].job].cursor = agents[a].list
    BY <1>2 DEF Finish, JobType
  <1>4. \A b \in Agents : agents'[b].pc \in {"walk", "completed", "paused"} => agents'[b] = agents[b]
    <2>1. agents'[a].pc \in {"idle", "failed"} /\ \A b \in Agents : b # a => agents'[b] = agents[b]
      BY DEF Finish, IdleAgent, AgentType
    <2> QED BY <2>1
  <1>5. agents[a].pc \in {"completed", "paused"} => ReachesNext(agents[a].list, {}, jobs[agents[a].job].run)
    BY <1>1, RunsThatLead, ReachesKept DEF Covered, GoesOnWith
  <1>6. wf.pc # "off" /\ wf.job \in JobIds => jobs[wf.job].run = wf.run
    BY DEF Owned, OneRun
  <1>7. \A k \in JobIds : jobs'[k].run = jobs[k].run /\ (Outstanding(k)' => Outstanding(k) /\ k # agents[a].job)
    BY <1>2, <1>3 DEF Outstanding, EndStates
  <1>8. \A b \in Agents : agents'[b].pc \in {"walk", "completed", "paused"}
              => ReachesNext(agents'[b].list, {}, jobs'[agents'[b].job].run)
    BY <1>1, <1>4, <1>7, RunsThatLead, ReachesKept DEF Covered, GoesOnWith
  <1>9. \A b \in Agents : CallIsOn(b)' /\ Outstanding(calls[b].job)'
              => ReachesNext(calls'[b].list, calls'[b].todo, jobs'[calls'[b].job].run)
    <2>1. \A b \in Agents : CallIsOn(b)' => CallIsOn(b) /\ calls[b].job \in JobIds /\ calls'[b] = calls[b]
      BY <1>1, RunsThatLead DEF CallIsOn
    <2> QED BY <1>1, <1>7, <2>1, RunsThatLead, ReachesKept DEF Covered
  <1>10. saved'.list # {} => ReachesNext(saved'.list, {}, saved'.run)
    BY <1>1, RunsThatLead, ReachesKept DEF Covered
  <1>11. \A k \in JobIds : Outstanding(k)' /\ jobs'[k].cursor # {}
              => ReachesNext(jobs'[k].cursor, {}, jobs'[k].run)
    BY <1>1, <1>3, <1>7, RunsThatLead, ReachesKept, CursorsReach
  <1>12. \A k \in JobIds : wf'.pc # "off" /\ wf'.job = k /\ jobs'[k].state = "paused" /\ jobs'[k].cursor # {}
              => ReachesNext(jobs'[k].cursor, {}, wf'.run)
    <2>1. ASSUME NEW k \in JobIds, wf.pc # "off", wf.job = k, jobs'[k].state = "paused", jobs'[k].cursor # {}
          PROVE  ReachesNext(jobs'[k].cursor, {}, wf.run)
      <3>1. CASE k = agents[a].job
        BY <1>3, <1>5, <1>6, <2>1, <3>1
      <3>2. CASE k # agents[a].job
        BY <1>1, <1>3, <2>1, <3>2, RunsThatLead, ReachesKept, CursorsReach
      <3> QED BY <3>1, <3>2
    <2> QED BY <1>1, <2>1
  <1>13. \A k \in JobIds : wf'.pc # "off" /\ wf'.job = k /\ jobs'[k].state = "completed"
              => ReachesNext({}, {}, wf'.run)
    <2>1. ASSUME NEW k \in JobIds, wf.pc # "off", wf.job = k, jobs'[k].state = "completed"
          PROVE  ReachesNext({}, {}, wf.run)
      <3>1. CASE k = agents[a].job
        <4>1. agents[a].pc = "completed"
          BY <1>3, <2>1, <3>1
        <4>2. agents[a].list = {}
          BY <4>1 DEF OneWorker
        <4>3. ReachesNext({}, {}, jobs[agents[a].job].run)
          BY <1>5, <4>1, <4>2
        <4>4. jobs[agents[a].job].run = wf.run
          BY <1>2, <1>6, <2>1, <3>1
        <4> QED BY <4>3, <4>4
      <3>2. CASE k # agents[a].job
        BY <1>1, <1>3, <2>1, <3>2, RunsThatLead, ReachesKept DEF Covered
      <3> QED BY <3>1, <3>2
    <2> QED BY <1>1, <2>1
  <1>14. wf'.pc \in {"sweeping", "rollup"} => ReachesNext({}, {}, wf'.run)
    BY <1>1, RunsThatLead, ReachesKept DEF Covered
  <1> QED BY <1>8, <1>9, <1>10, <1>11, <1>12, <1>13, <1>14, <1>d, CoveredParts

LEMMA AgentCovered ==
    ASSUME InTime, RootStays, TypeOK, Owned, OneWorker, Covered, NEW a \in Agents,
           LosesCall(a) \/ DropsCall(a) \/ Dies(a) \/ BatchRejected(a)
    PROVE  Covered'
  <1> USE TypeParts
  <1>1. UNCHANGED <<seen, wf, saved, jobs, span>> /\ Recorded
    BY SameRecorded DEF LosesCall, DropsCall, Dies, BatchRejected
  <1>2. \A b \in Agents : agents'[b].pc \in {"walk", "completed", "paused"} => agents'[b] = agents[b]
    <2>1. CASE LosesCall(a) \/ DropsCall(a) \/ Dies(a)
      BY <2>1 DEF LosesCall, DropsCall, Dies, IdleAgent, AgentType
    <2>2. CASE BatchRejected(a)
      <3>1. agents[a].pc # "posted"
        BY <2>2 DEF BatchRejected, OneWorker, CallIsOn
      <3> QED BY <2>2, <3>1 DEF BatchRejected, Replied
    <2> QED BY <2>1, <2>2
  <1>3. \A b \in Agents : CallIsOn(b)' => calls'[b] = calls[b]
    BY DEF LosesCall, DropsCall, Dies, BatchRejected, Replied, CallIsOn, NoCall
  <1> QED BY <1>1, <1>2, <1>3, CoveredKept DEF Outstanding

(* A page: what it held is now recorded, and when it was the last one the  *)
(* worklist of the batch becomes the cursor.                               *)
LEMMA RecordCovered ==
    ASSUME InTime, RootStays, TypeOK, Owned, Timely, OneWorker, Covered,
           NEW a \in Agents, BatchAccepted(a) \/ BatchGoesOn(a)
    PROVE  Covered'
  <1> USE TypeParts
  <1> DEFINE run == jobs[calls[a].job].run
  <1>1. /\ CallIsOn(a) /\ RecordPage(a) /\ UNCHANGED <<disk, runs, wf, saved, span>>
        /\ calls[a].stage = "open" \/ (calls[a].stage = "sent" /\ Outstanding(calls[a].job))
    BY DEF BatchAccepted, BatchGoesOn, CallIsOn, Outstanding
  <1>2. calls[a].job \in JobIds /\ run \in RunIds
    BY <1>1 DEF Owned, Referred
  <1>3. PICK page \in SUBSET calls[a].todo, continue \in BOOLEAN :
              /\ live' = live \cup page
              /\ seen' = [f \in Files |-> IF f \in page THEN jobs[calls[a].job].run ELSE seen[f]]
              /\ \/ page # calls[a].todo /\ GoesOn(a, page) /\ UNCHANGED <<jobs, agents>>
                 \/ /\ page = calls[a].todo /\ Replied(a, continue)
                    /\ \/ jobs[calls[a].job].state # "claimed" /\ ~continue /\ UNCHANGED jobs
                       \/ /\ jobs[calls[a].job].state = "claimed"
                          /\ jobs' = [jobs EXCEPT ![calls[a].job].cursor = calls[a].list]
    BY <1>1, <1>2, RecordPageCases
  <1>4. \A r \in RunIds : IsRunning(r) => run = r
    BY <1>1, <1>2 DEF Timely, Owned, OneRun
  <1>5. Recorded
    BY <1>1, <1>3, <1>4 DEF Recorded
  <1>d. disk' \in SUBSET Files
    BY <1>1
  <1>6. CallIsOn(a) /\ Outstanding(calls[a].job)
          => ReachesNext(calls[a].list, calls[a].todo, run) /\ ReachesNext(calls[a].list, calls[a].todo \ page, run)
    <2>1. ASSUME Outstanding(calls[a].job)
          PROVE  ReachesNext(calls[a].list, calls[a].todo, run)
      BY <1>1, <1>2, <1>5, <2>1, RunsThatLead, ReachesKept DEF Covered
    <2>2. \A f \in Files : f \in page => seen'[f] = run
      BY <1>3
    <2> QED BY <2>1, <2>2 DEF ReachesNext
  <1>7. \A k \in JobIds : jobs'[k].run = jobs[k].run /\ jobs'[k].state = jobs[k].state
    BY <1>2, <1>3 DEF JobType
  <1>8. \A k \in JobIds : \/ jobs'[k].cursor = jobs[k].cursor
                          \/ /\ k = calls[a].job /\ jobs[k].state = "claimed" /\ page = calls[a].todo
                             /\ jobs'[k].cursor = calls[a].list
    BY <1>2, <1>3 DEF JobType
  <1>9. saved'.list # {} => ReachesNext(saved'.list, {}, saved'.run)
    BY <1>1, <1>5, RunsThatLead, ReachesKept DEF Covered
  <1>10. \A k \in JobIds : Outstanding(k)' /\ jobs'[k].cursor # {}
              => ReachesNext(jobs'[k].cursor, {}, jobs'[k].run)
    <2>1. ASSUME NEW k \in JobIds, Outstanding(k), jobs'[k].cursor # {}
          PROVE  ReachesNext(jobs'[k].cursor, {}, jobs[k].run)
      <3>1. CASE jobs'[k].cursor = jobs[k].cursor
        BY <1>5, <2>1, <3>1, RunsThatLead, ReachesKept, CursorsReach
      <3>2. CASE k = calls[a].job /\ page = calls[a].todo /\ jobs'[k].cursor = calls[a].list
        <4>1. ReachesNext(calls[a].list, calls[a].todo \ page, run)
          BY <1>1, <1>6, <2>1, <3>2
        <4>2. calls[a].todo \ page = {}
          BY <3>2
        <4> QED BY <3>2, <4>1, <4>2
      <3> QED BY <1>8, <3>1, <3>2
    <2> QED BY <1>7, <2>1 DEF Outstanding
  <1>11. \A k \in JobIds : wf'.pc # "off" /\ wf'.job = k /\ jobs'[k].state = "paused" /\ jobs'[k].cursor # {}
              => ReachesNext(jobs'[k].cursor, {}, wf'.run)
    BY <1>1, <1>5, <1>7, <1>8, RunsThatLead, ReachesKept, CursorsReach
  <1>12. \A k \in JobIds : wf'.pc # "off" /\ wf'.job = k /\ jobs'[k].state = "completed"
              => ReachesNext({}, {}, wf'.run)
    BY <1>1, <1>5, <1>7, RunsThatLead, ReachesKept DEF Covered
  <1>13. wf'.pc \in {"sweeping", "rollup"} => ReachesNext({}, {}, wf'.run)
    BY <1>1, <1>5, RunsThatLead, ReachesKept DEF Covered
  <1>14. \A b \in Agents : agents[b].pc \in {"walk", "completed", "paused"}
              => ReachesNext(agents[b].list, {}, jobs'[agents[b].job].run)
    BY <1>5, <1>7, RunsThatLead, ReachesKept DEF Covered, GoesOnWith
  <1>15. \A b \in Agents : b # a /\ CallIsOn(b) /\ Outstanding(calls[b].job)
              => ReachesNext(calls[b].list, calls[b].todo, jobs'[calls[b].job].run)
    BY <1>5, <1>7, RunsThatLead, ReachesKept DEF Covered
  <1>16. \A b \in Agents : CallIsOn(b) => calls[b].job \in JobIds
    BY RunsThatLead
  <1>17. CASE GoesOn(a, page) /\ UNCHANGED <<jobs, agents>>
    <2>1. \A b \in Agents : CallIsOn(b)' /\ Outstanding(calls[b].job)'
              => ReachesNext(calls'[b].list, calls'[b].todo, jobs'[calls'[b].job].run)
      <3>1. /\ calls'[a].job = calls[a].job /\ calls'[a].list = calls[a].list /\ calls'[a].todo = calls[a].todo \ page
            /\ \A b \in Agents : b # a => calls'[b] = calls[b]
        BY <1>17 DEF GoesOn
      <3>2. \A b \in Agents : Outstanding(calls[b].job)' => Outstanding(calls[b].job)
        BY <1>17, <3>1 DEF Outstanding
      <3>3. \A b \in Agents : b # a /\ CallIsOn(b)' => CallIsOn(b)
        BY <3>1 DEF CallIsOn
      <3>4. \A b \in Agents : b # a /\ CallIsOn(b)' /\ Outstanding(calls[b].job)'
              => ReachesNext(calls'[b].list, calls'[b].todo, jobs'[calls'[b].job].run)
        BY <1>15, <3>1, <3>2, <3>3
      <3>5. Outstanding(calls[a].job)'
              => ReachesNext(calls'[a].list, calls'[a].todo, jobs'[calls'[a].job].run)
        BY <1>1, <1>2, <1>6, <1>7, <3>1, <3>2
      <3> QED BY <3>4, <3>5
    <2> QED BY <1>9, <1>10, <1>11, <1>12, <1>13, <1>14, <1>17, <2>1, <1>d, CoveredParts
  <1>18. CASE Replied(a, continue) /\ page = calls[a].todo
    <2>1. \A b \in Agents : b # a => agents'[b] = agents[b] /\ calls'[b] = calls[b]
      BY <1>18 DEF Replied
    <2>2. ~CallIsOn(a)'
      BY <1>18 DEF Replied, CallIsOn, NoCall
    <2>3. agents[a].pc # "posted" => agents'[a] = agents[a]
      BY <1>18 DEF Replied
    <2>4. agents'[a].job = agents[a].job /\ agents'[a].list = agents[a].list
      BY <1>18 DEF Replied, AgentType
    <2>5. agents[a].pc = "posted" => ReachesNext(agents[a].list, {}, jobs'[agents[a].job].run)
      <3>1. SUFFICES ASSUME agents[a].pc = "posted" PROVE ReachesNext(agents[a].list, {}, jobs'[agents[a].job].run)
        OBVIOUS
      <3>2. calls[a].job = agents[a].job /\ calls[a].list = agents[a].list
        BY <1>1, <3>1 DEF OneWorker
      <3>3. Outstanding(calls[a].job)
        BY <3>1, <3>2, RunsThatLead DEF GoesOnWith
      <3>4. calls[a].todo \ page = {}
        BY <1>18
      <3>5. ReachesNext(calls[a].list, {}, run)
        BY <1>1, <1>6, <3>3, <3>4
      <3> QED BY <1>2, <1>7, <3>2, <3>5
    <2>6. \A b \in Agents : agents'[b].pc \in {"walk", "completed", "paused"}
              => ReachesNext(agents'[b].list, {}, jobs'[agents'[b].job].run)
      BY <1>14, <2>1, <2>3, <2>4, <2>5
    <2>7. \A b \in Agents : CallIsOn(b)' /\ Outstanding(calls[b].job)'
              => ReachesNext(calls'[b].list, calls'[b].todo, jobs'[calls'[b].job].run)
      BY <1>7, <1>15, <1>16, <2>1, <2>2 DEF CallIsOn, Outstanding
    <2> QED BY <1>9, <1>10, <1>11, <1>12, <1>13, <2>6, <2>7, <1>d, CoveredParts
  <1> QED BY <1>3, <1>17, <1>18

(* A file that comes or goes: every worklist the invariant is about is one *)
(* that is kept.                                                           *)
LEMMA ChangesCovered ==
    ASSUME TypeOK, Owned, Timely, OneWorker, Covered, NEW g \in Files, Changes(g) PROVE Covered'
  <1> USE TypeParts
  <1>1. UNCHANGED <<seen, runs, wf, saved, jobs, agents, calls>> /\ \A f \in Files : span[f] \subseteq span'[f]
    BY DEF Changes
  <1>d. disk' \in SUBSET Files
    BY DEF Changes
  <1>2. ASSUME NEW list \in Worklist, \A e \in list : IsKept(e), NEW todo, NEW r, Reaches(list, todo, r)
        PROVE  ReachesNext(list, todo, r)
    <2>1. ASSUME NEW f \in Files PROVE f \in todo \/ LeadsTo(disk', list, f) \/ seen'[f] = r \/ MayBeMissed(f)'
      <3>1. f \in todo \/ LeadsTo(disk, list, f) \/ seen[f] = r \/ MayBeMissed(f)
        BY <1>2 DEF Reaches
      <3>2. MayBeMissed(f) => MayBeMissed(f)'
        BY <1>1 DEF MayBeMissed
      <3>3. LeadsTo(disk, list, f) => LeadsTo(disk', list, f) \/ MayBeMissed(f)'
        BY <1>2, KeptLeads DEF Timely
      <3> QED BY <1>1, <3>1, <3>2, <3>3
    <2> QED BY <2>1 DEF ReachesNext
  <1> DEFINE Held(list) == list \in Worklist /\ \A e \in list : IsKept(e)
  <1>3. /\ Held({}) /\ Held(saved.list)
        /\ \A j \in JobIds : InUse(j) => Held(jobs[j].cursor)
        /\ \A a \in Agents : Held(agents[a].list) /\ Held(calls[a].list)
    BY EmptyList DEF IsKept, CursorType, JobType, AgentType, CallType
  <1>4. saved'.list # {} => ReachesNext(saved'.list, {}, saved'.run)
    BY <1>1, <1>2, <1>3 DEF Covered
  <1>5. \A j \in JobIds : Outstanding(j)' /\ jobs'[j].cursor # {}
              => ReachesNext(jobs'[j].cursor, {}, jobs'[j].run)
    BY <1>1, <1>2, <1>3, CursorsReach DEF Outstanding, InUse
  <1>6. \A j \in JobIds : wf'.pc # "off" /\ wf'.job = j /\ jobs'[j].state = "paused" /\ jobs'[j].cursor # {}
              => ReachesNext(jobs'[j].cursor, {}, wf'.run)
    BY <1>1, <1>2, <1>3, CursorsReach DEF InUse
  <1>7. \A j \in JobIds : wf'.pc # "off" /\ wf'.job = j /\ jobs'[j].state = "completed"
              => ReachesNext({}, {}, wf'.run)
    BY <1>1, <1>2, <1>3 DEF Covered
  <1>8. \A a \in Agents : agents'[a].pc \in {"walk", "completed", "paused"}
              => ReachesNext(agents'[a].list, {}, jobs'[agents'[a].job].run)
    BY <1>1, <1>2, <1>3 DEF Covered
  <1>9. \A a \in Agents : CallIsOn(a)' /\ Outstanding(calls[a].job)'
              => ReachesNext(calls'[a].list, calls'[a].todo, jobs'[calls'[a].job].run)
    BY <1>1, <1>2, <1>3 DEF Covered, CallIsOn, Outstanding
  <1>10. wf'.pc \in {"sweeping", "rollup"} => ReachesNext({}, {}, wf'.run)
    BY <1>1, <1>2, <1>3 DEF Covered
  <1> QED BY <1>4, <1>5, <1>6, <1>7, <1>8, <1>9, <1>10, <1>d, CoveredParts

LEMMA CoveredStep ==
    InTime /\ RootStays /\ Unreadable = {} /\ TypeOK /\ Owned /\ Timely /\ OneWorker /\ Covered /\ [Next]_vars
    => Covered'
  <1> SUFFICES ASSUME InTime, RootStays, Unreadable = {}, TypeOK, Owned, Timely, OneWorker, Covered, [Next]_vars
               PROVE  Covered'
    OBVIOUS
  <1>1. CASE Begin
    BY <1>1, BeginCovered
  <1>2. CASE AskedToStop \/ Poll \/ Sweep
    BY <1>2, PollCovered
  <1>3. CASE Reclaim \/ Restart \/ (\E j \in JobIds : CancelByHand(j) \/ TimePasses(j)) \/ UNCHANGED vars
    BY <1>3, QueueCovered
  <1>4. ASSUME NEW a \in Agents, Agent(a) PROVE Covered'
    BY <1>4, ClaimCovered, PostBatchCovered, FinishCovered, AgentCovered DEF Agent
  <1>5. ASSUME NEW a \in Agents, Serve(a) PROVE Covered'
    <2>1. ~BatchWithoutRoot(a)
      BY DEF BatchWithoutRoot
    <2> QED BY <1>5, <2>1, AgentCovered, RecordCovered DEF Serve
  <1>6. ASSUME NEW f \in Files, Changes(f) PROVE Covered'
    BY <1>6, ChangesCovered
  <1> QED BY <1>1, <1>2, <1>3, <1>4, <1>5, <1>6 DEF Next

THEOREM CoveredSteps ==
    InTime /\ RootStays /\ Unreadable = {} => (Spec => [](TypeOK /\ Owned /\ Timely /\ OneWorker /\ Covered))
  <1> SUFFICES ASSUME InTime, RootStays, Unreadable = {}
               PROVE  Spec => [](TypeOK /\ Owned /\ Timely /\ OneWorker /\ Covered)
    OBVIOUS
  <1>1. Init => OneWorker /\ Covered
    BY OneWorkerInit, CoveredInit
  <1>2. TypeOK /\ Owned /\ Timely /\ OneWorker /\ Covered /\ [Next]_vars => (OneWorker /\ Covered)'
    BY OneWorkerStep, CoveredStep
  <1> QED BY <1>1, <1>2, TimelySteps, PTL DEF Spec

(* "A half-walked tree is never read as deletions", the reason: whichever  *)
(* worklist a walk is resumed from, the saved cursor, that of the job or   *)
(* of a job that has just ended, it leads to every file not yet recorded,  *)
(* as long as nothing is slower than expected, the root stays configured   *)
(* and every directory can be read.  But for a file that an earlier entry  *)
(* has shifted into the part a worklist counts as passed.                  *)
THEOREM EveryCursorCovers == InTime /\ RootStays /\ Unreadable = {} => (Spec => []CursorCovers)
  <1> SUFFICES ASSUME InTime, RootStays, Unreadable = {} PROVE Spec => []CursorCovers
    OBVIOUS
  <1>1. TypeOK /\ Owned /\ Covered => CursorCovers
    <2> SUFFICES ASSUME TypeOK, Owned, Covered PROVE CursorCovers
      OBVIOUS
    <2>1. saved.list # {} => Reaches(saved.list, {}, saved.run)
      BY DEF Covered
    <2>2. \A j \in JobIds : wf.job = j => wf.pc # "off" /\ jobs[j].run = wf.run
      BY BoundsAssumption DEF Owned, OneRun, NoWf, JobIds
    <2>3. \A j \in JobIds : Outstanding(j) \/ (wf.job = j /\ jobs[j].state = "paused")
             => jobs[j].cursor = {} \/ Reaches(jobs[j].cursor, {}, jobs[j].run)
      BY <2>2, CursorsReach
    <2>4. \A j \in JobIds : wf.job = j /\ jobs[j].state = "completed" => Reaches({}, {}, jobs[j].run)
      BY <2>2 DEF Covered
    <2> QED BY <2>1, <2>3, <2>4 DEF CursorCovers, Reaches
  <1> QED BY <1>1, CoveredSteps, PTL

(* ... and so the sweep of sweepMissing() takes nothing for deleted that   *)
(* was there all the time, with the same exception.                        *)
THEOREM NothingIsSweptByMistake == InTime /\ RootStays /\ Unreadable = {} => (Spec => NoFalseDeletion)
  <1> SUFFICES ASSUME InTime, RootStays, Unreadable = {} PROVE Spec => NoFalseDeletion
    OBVIOUS
  <1>1. ASSUME TypeOK, Owned, Covered, [Next]_vars, NEW f \in live \ live' PROVE MayBeMissed(f)
    <2>1. SweepBatch
      <3>1. ~ (\E a \in Agents : BatchAccepted(a) \/ BatchGoesOn(a))
        <4>1. ASSUME NEW a \in Agents, BatchAccepted(a) \/ BatchGoesOn(a) PROVE FALSE
          <5>1. RecordPage(a)
            BY <4>1 DEF BatchAccepted, BatchGoesOn
          <5>2. live \subseteq live'
            BY <5>1 DEF RecordPage, RecordFiles
          <5> QED BY <1>1, <5>2
        <4> QED BY <4>1
      <3>2. ~ UNCHANGED live
        BY <1>1
      <3> QED BY <1>1, <3>1, <3>2
              DEF Next, vars, Begin, AskedToStop, Poll, PollQueued, PollClaimed, PollCompleted, PollPaused, PollFailed,
                  Sweep, SweepEnds, FinishRoot, Reclaim, CancelByHand, TimePasses, Serve, BatchRejected,
                  BatchWithoutRoot, Agent, Claim, PostBatch, Finish, LosesCall, DropsCall, Dies, Restart, Changes
    <2>2. f \in Missing /\ wf.pc = "sweeping" /\ f \in Files
      BY <1>1, <2>1, TypeParts DEF SweepBatch
    <2>3. Reaches({}, {}, wf.run)
      BY <1>1, <2>2 DEF Covered
    <2> QED BY <2>2, <2>3, NothingLeads DEF Reaches, Missing
  <1>2. TypeOK /\ Owned /\ Covered /\ [Next]_vars => [\A f \in live \ live' : MayBeMissed(f)]_vars
    BY <1>1
  <1> QED BY <1>2, CoveredSteps, PTL DEF Spec, NoFalseDeletion
=============================================================================
