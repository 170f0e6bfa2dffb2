---------------------------- MODULE UpkeepProofs ----------------------------
(***************************************************************************)
(* What TLAPS proves of SelfUpdate and Exports, for every list of versions *)
(* and destinations and every number of faults: a rollback of the agent    *)
(* gets back to code that was working, and a destination never loses its   *)
(* last readable bundle, nor hides that its newest one is not, nor fills   *)
(* up by more than the faults account for. Of BackupVerify: its types.     *)
(***************************************************************************)
EXTENDS SelfUpdate, Exports, BackupVerify, SequenceTheorems, TLAPS

-----------------------------------------------------------------------------
(* The agent's update.                                                     *)

Steps == {"off", "settle", "restore", "cycle", "check", "aside", "copy", "swap", "note"}
FilesOf(versions) == [AgentFiles -> versions]

UpdateStateType ==
  [version : Versions \cup {NoVersion}, stage : {"confirmed", "pending"}, attempts : 0..MaxProbation,
   previousVersion : Versions \cup {NoVersion}, blocked : Versions \cup {NoVersion}]
AgentRunType ==
  [pc : Steps, code : FilesOf(Versions \cup {NoVersion}), target : Versions \cup {NoVersion}]

Pending == updateState.stage = "pending"
Swapping == agentRun.pc \in {"swap", "note"}
Bringing == agentRun.pc \in {"aside", "copy", "swap", "note"}

\* A version that has had its chances goes, file by file, in one run or several.
Reverting == Pending /\ updateState.attempts >= MaxProbation /\ agentRun.pc \in {"off", "settle", "restore"}

\* .previous is made anew under a version on probation.
Remaking == hasty /\ agentRun.pc \in {"aside", "copy"}

Clean == ~torn /\ ~bereft

(* The version the host is at: while a swap is under way, the one it       *)
(* leaves, and while a rollback is, the one that goes.                     *)
Base ==
  IF Swapping THEN previous["script"] ELSE IF Pending THEN updateState.version ELSE installed["script"]

UpdateTyped ==
  /\ shipped \in Versions
  /\ installed \in FilesOf(Versions) /\ previous \in FilesOf(Versions \cup {NoVersion})
  /\ updateState \in UpdateStateType /\ agentRun \in AgentRunType
  /\ proven \subseteq Versions /\ rejected \subseteq Versions
  /\ torn \in BOOLEAN /\ hasty \in BOOLEAN /\ bereft \in BOOLEAN
  /\ agentRun.pc # "off" => agentRun.code["script"] \in Versions
  /\ Bringing => agentRun.target \in Versions
  /\ Pending => updateState.version \in Versions
  /\ agentRun.pc = "restore" => Reverting

(* One whole version that was never rejected is installed, or, in a swap,  *)
(* laid aside, or on its way out for the one that is.                      *)
Current ==
  /\ Base \in Versions /\ Base \notin rejected /\ Base <= shipped
  /\ ~Swapping /\ ~Reverting => installed = Whole(Base)
  /\ Reverting => \A f \in AgentFiles : installed[f] \in {Base, previous[f]}
  /\ agentRun.pc = "copy" => \A f \in AgentFiles : previous[f] \in {NoVersion, Base}
  /\ Swapping => previous = Whole(Base)
  /\ agentRun.pc = "note" => installed = Whole(agentRun.target)

(* What is being brought in was not rejected, and is something else.       *)
Incoming ==
  Bringing => /\ agentRun.target \notin rejected /\ agentRun.target # Base /\ agentRun.target <= shipped
              /\ shipped \notin rejected

(* The state file tells the version, if any, and blocks the shipped one if *)
(* that has been rolled back.                                              *)
OnRecord ==
  /\ updateState.version \in {Base, NoVersion}
  /\ Pending => updateState.version = Base /\ updateState.blocked = NoVersion
  /\ \A v \in rejected : v <= shipped
  /\ shipped \in rejected => shipped = updateState.blocked

(* A version on probation has another one laid aside, whole, that was not  *)
(* rejected and that a report was accepted from, unless it gives it up for *)
(* the next.                                                               *)
Fallback ==
  Pending /\ ~Swapping /\ ~Remaking =>
    LET w == previous["script"]
    IN /\ w \in Versions /\ previous = Whole(w) /\ w # updateState.version
       /\ w \notin rejected /\ w <= shipped
       /\ updateState.previousVersion \in {w, NoVersion}
       /\ hasty \/ w \in proven

(* A version off probation has been reported from, and a run that could    *)
(* end a probation runs the code that is installed.                        *)
Reported ==
  /\ ~Pending => hasty \/ Base \in proven
  /\ Pending /\ ~Reverting /\ agentRun.pc \in {"settle", "cycle"} => agentRun.code["script"] = Base
  /\ Pending /\ agentRun.pc \in {"copy", "swap", "note"} => hasty

UpdateInv == UpdateTyped /\ (Clean => Current /\ Incoming /\ OnRecord /\ Fallback /\ Reported)

-----------------------------------------------------------------------------
(* What a whole installation, a state file and a run that goes on are,     *)
(* field by field.                                                         *)

LEMMA FilesAre == AgentFiles = {"script", "module"} /\ "script" \in AgentFiles
  BY DEF AgentFiles

LEMMA WholeIs ==
  ASSUME NEW v
  PROVE  /\ Whole(v)["script"] = v /\ \A f \in AgentFiles : Whole(v)[f] = v
         /\ \A w : Whole(v) = Whole(w) => v = w
  <1>1. \A w : \A f \in AgentFiles : Whole(w)[f] = w
    BY DEF Whole
  <1>2. \A w : Whole(w)["script"] = w
    BY <1>1, FilesAre
  <1> QED BY <1>1, <1>2

LEMMA VersionsAre ==
  /\ Versions \subseteq Nat \ {0} /\ 1 \in Versions /\ NoVersion \notin Versions /\ NoVersion = 0
  /\ MaxProbation \in Nat
  BY SelfUpdateAssumption DEF NoVersion

LEMMA StateFileIs ==
  ASSUME NEW v \in Versions \cup {NoVersion}, NEW stage \in {"confirmed", "pending"},
         NEW p \in Versions \cup {NoVersion}, NEW b \in Versions \cup {NoVersion}
  PROVE  /\ StateFile(v, stage, p, b) \in UpdateStateType
         /\ StateFile(v, stage, p, b).version = v /\ StateFile(v, stage, p, b).stage = stage
         /\ StateFile(v, stage, p, b).previousVersion = p /\ StateFile(v, stage, p, b).blocked = b
  BY VersionsAre DEF StateFile, UpdateStateType

LEMMA RunGoesOn ==
  ASSUME agentRun \in AgentRunType, NEW x \in Steps, GoesTo(x)
  PROVE  /\ agentRun' \in AgentRunType /\ agentRun'.pc = x
         /\ agentRun'.code = agentRun.code /\ agentRun'.target = agentRun.target
  BY DEF GoesTo, AgentRunType

LEMMA NotRunningIs == NotRunning \in AgentRunType /\ NotRunning.pc = "off"
  <1>1. Whole(NoVersion) \in FilesOf(Versions \cup {NoVersion})
    BY DEF Whole, FilesOf
  <1> QED BY <1>1 DEF NotRunning, AgentRunType, Steps

LEMMA StateIs ==
  ASSUME updateState \in UpdateStateType
  PROVE  /\ updateState.version \in Versions \cup {NoVersion} /\ updateState.stage \in {"confirmed", "pending"}
         /\ updateState.attempts \in 0..MaxProbation
         /\ updateState.previousVersion \in Versions \cup {NoVersion}
         /\ updateState.blocked \in Versions \cup {NoVersion}
  BY DEF UpdateStateType

-----------------------------------------------------------------------------
(* The steps.                                                              *)

LEMMA UpdateStarts == InitUpdate => UpdateInv
  <1> SUFFICES ASSUME InitUpdate PROVE UpdateInv
    OBVIOUS
  <1>1. /\ shipped = 1 /\ installed = Whole(1) /\ previous = Whole(NoVersion) /\ agentRun = NotRunning
        /\ proven = {1} /\ torn = FALSE /\ hasty = FALSE /\ bereft = FALSE /\ rejected = {}
    BY DEF InitUpdate
  <1>2. /\ updateState \in UpdateStateType /\ updateState.version \in {1, NoVersion}
        /\ updateState.stage = "confirmed"
    BY StateFileIs, VersionsAre DEF InitUpdate, NoState
  <1>3. installed \in FilesOf(Versions) /\ previous \in FilesOf(Versions \cup {NoVersion})
    BY <1>1, VersionsAre DEF Whole, FilesOf
  <1>4. agentRun \in AgentRunType /\ agentRun.pc = "off"
    BY <1>1, NotRunningIs
  <1>5. ~Swapping /\ ~Bringing /\ ~Pending /\ ~Reverting /\ Base = 1
    BY <1>1, <1>2, <1>4, WholeIs DEF Swapping, Bringing, Pending, Reverting, Base
  <1>6. UpdateTyped
    BY <1>1, <1>2, <1>3, <1>4, <1>5, VersionsAre DEF UpdateTyped
  <1>7. Current /\ Incoming /\ OnRecord /\ Fallback /\ Reported
    BY <1>1, <1>2, <1>4, <1>5, VersionsAre DEF Current, Incoming, OnRecord, Fallback, Reported
  <1> QED BY <1>6, <1>7 DEF UpdateInv

(* The run goes on, or stops, and the files and the state stay.            *)
LEMMA MovesOn ==
  ASSUME UpdateInv, agentRun' \in AgentRunType, agentRun'.pc \in {"off", "settle", "cycle", "check"},
         agentRun'.pc # "off" => agentRun'.code["script"] \in Versions,
         torn' \in BOOLEAN, bereft' \in BOOLEAN, Clean' => Clean /\ ~Swapping /\ ~(Pending /\ Remaking),
         Clean' /\ Reverting => agentRun'.pc \in {"off", "settle"},
         Clean' /\ Pending /\ ~Reverting' /\ agentRun'.pc \in {"settle", "cycle"} => agentRun'.code["script"] = Base,
         proven \subseteq proven', proven' \subseteq Versions,
         UNCHANGED <<shipped, installed, previous, updateState, rejected, hasty>>
  PROVE  UpdateInv'
  <1>1. ~Swapping' /\ ~Bringing' /\ ~Remaking' /\ (Pending' <=> Pending)
    BY DEF Swapping, Bringing, Remaking, Pending
  <1>2. UpdateTyped'
    BY <1>1 DEF UpdateInv, UpdateTyped
  <1>3. ASSUME Clean' PROVE Current' /\ Incoming' /\ OnRecord' /\ Fallback' /\ Reported'
    <2>1. ~Swapping /\ ~(Pending /\ Remaking) /\ Current /\ OnRecord /\ Fallback /\ Reported
      BY <1>3 DEF UpdateInv
    <2>2. Base' = Base
      BY <1>1, <2>1 DEF Base
    <2>3. Reverting => Reverting'
      BY <1>1, <1>3 DEF Reverting
    <2>4. /\ ~Reverting' => installed' = Whole(Base)'
          /\ Reverting' => \A f \in AgentFiles : installed'[f] \in {Base, previous[f]}
      <3>1. CASE Reverting
        BY <2>1, <2>2, <2>3, <3>1 DEF Current
      <3>2. CASE ~Reverting
        <4>1. installed = Whole(Base) /\ \A f \in AgentFiles : installed[f] = Base
          BY <2>1, <3>2, WholeIs DEF Current
        <4> QED BY <2>2, <4>1 DEF Whole
      <3> QED BY <3>1, <3>2
    <2>5. Current' /\ Incoming'
      BY <1>1, <2>1, <2>2, <2>4 DEF Current, Incoming
    <2>6. OnRecord'
      BY <1>1, <2>1, <2>2 DEF OnRecord
    <2>7. Fallback'
      BY <1>1, <2>1 DEF Fallback
    <2>8. Reported'
      BY <1>1, <1>3, <2>1, <2>2 DEF Reported
    <2> QED BY <2>5, <2>6, <2>7, <2>8
  <1> QED BY <1>2, <1>3 DEF UpdateInv

LEMMA RunsKeep ==
  ASSUME UpdateInv, TaskFires \/ NothingToSettle \/ CycleFails \/ CycleDies PROVE UpdateInv'
  <1>1. /\ UpdateTyped /\ agentRun \in AgentRunType /\ proven \subseteq Versions
        /\ torn \in BOOLEAN /\ bereft \in BOOLEAN
    BY DEF UpdateInv, UpdateTyped
  <1>2. CASE TaskFires
    <2>1. PICK new : new = [pc |-> "settle", code |-> installed, target |-> NoVersion]
      OBVIOUS
    <2>2. /\ agentRun.pc = "off" /\ agentRun' = new
          /\ UNCHANGED <<shipped, installed, previous, updateState, proven, rejected, torn, hasty, bereft>>
      BY <1>2, <2>1, Zenon DEF TaskFires, Running, excuses
    <2>3. installed \in FilesOf(Versions \cup {NoVersion}) /\ installed["script"] \in Versions
      BY <1>1, FilesAre DEF UpdateTyped, FilesOf
    <2>4. new \in AgentRunType /\ new.pc = "settle" /\ new.code = installed
      BY <2>1, <2>3 DEF AgentRunType, Steps
    <2>5. ~Swapping /\ ~Remaking /\ (Reverting' <=> Reverting) /\ (Clean' <=> Clean)
      BY <2>2, <2>4 DEF Swapping, Remaking, Reverting, Pending, Clean
    <2>6. ASSUME Clean', ~Reverting' PROVE new.code["script"] = Base
      <3>1. installed = Whole(Base)
        BY <2>5, <2>6 DEF UpdateInv, Current
      <3> QED BY <2>4, <3>1, WholeIs
    <2> QED BY <1>1, <2>2, <2>3, <2>4, <2>5, <2>6, MovesOn
  <1>3. CASE NothingToSettle
    <2>1. agentRun.pc = "settle" /\ GoesTo("cycle") /\ ~Pending
          /\ UNCHANGED <<shipped, installed, previous, updateState, proven, rejected, torn, hasty, bereft>>
      BY <1>3 DEF NothingToSettle, Running, excuses, Outcome, Pending
    <2>2. agentRun' \in AgentRunType /\ agentRun'.pc = "cycle" /\ agentRun'.code = agentRun.code
      BY <1>1, <2>1, RunGoesOn DEF Steps
    <2>3. agentRun.code["script"] \in Versions /\ ~Swapping /\ ~Reverting /\ (Clean' <=> Clean)
      BY <2>1 DEF UpdateInv, UpdateTyped, Swapping, Reverting, Clean
    <2> QED BY <1>1, <2>1, <2>2, <2>3, MovesOn
  <1>4. CASE CycleFails
    <2>1. agentRun.pc = "cycle" /\ GoesTo("check")
          /\ UNCHANGED <<shipped, installed, previous, updateState, proven, rejected, torn, hasty, bereft>>
      BY <1>4 DEF CycleFails, Running, excuses
    <2>2. agentRun' \in AgentRunType /\ agentRun'.pc = "check" /\ agentRun'.code = agentRun.code
      BY <1>1, <2>1, RunGoesOn DEF Steps
    <2>3. /\ agentRun.code["script"] \in Versions /\ ~Swapping /\ ~Reverting /\ ~Remaking
          /\ (Clean' <=> Clean)
      BY <2>1 DEF UpdateInv, UpdateTyped, Swapping, Reverting, Remaking, Clean
    <2> QED BY <1>1, <2>1, <2>2, <2>3, MovesOn
  <1>5. CASE CycleDies
    <2>1. agentRun.pc = "cycle" /\ agentRun' = NotRunning
          /\ UNCHANGED <<shipped, installed, previous, updateState, proven, rejected, torn, hasty, bereft>>
      BY <1>5 DEF CycleDies, Running, excuses
    <2>2. ~Swapping /\ ~Reverting /\ ~Remaking /\ (Clean' <=> Clean)
      BY <2>1 DEF Swapping, Reverting, Remaking, Clean
    <2> QED BY <1>1, <2>1, <2>2, NotRunningIs, MovesOn
  <1> QED BY <1>2, <1>3, <1>4, <1>5

(* Killed in a swap, it leaves files of two versions: that is the first    *)
(* exception.  Killed while it makes .previous anew under a version on     *)
(* probation, it leaves that version without a fallback: the third.        *)
LEMMA KilledKeeps == ASSUME UpdateInv, Killed PROVE UpdateInv'
  <1>1. /\ agentRun' = NotRunning /\ torn' = (torn \/ Swapping) /\ bereft' = (bereft \/ (Remaking /\ Pending))
        /\ torn \in BOOLEAN /\ bereft \in BOOLEAN /\ hasty \in BOOLEAN /\ proven \subseteq Versions
        /\ UNCHANGED <<shipped, installed, previous, updateState, proven, rejected, hasty>>
    BY DEF Killed, Running, Swapping, Remaking, Pending, UpdateInv, UpdateTyped
  <1>2. /\ torn' \in BOOLEAN /\ bereft' \in BOOLEAN
        /\ Clean' => Clean /\ ~Swapping /\ ~(Pending /\ Remaking)
    BY <1>1 DEF Clean
  <1> QED BY <1>1, <1>2, NotRunningIs, MovesOn

(* The run on probation is counted.                                        *)
LEMMA ProbationKeeps == ASSUME UpdateInv, OnProbation PROVE UpdateInv'
  <1>1. /\ agentRun.pc = "settle" /\ GoesTo("cycle") /\ Outcome = "verify"
        /\ updateState' = [updateState EXCEPT !.attempts = updateState.attempts + 1]
        /\ UNCHANGED <<shipped, installed, previous, proven, rejected, torn, hasty, bereft>>
    BY DEF OnProbation, Running, excuses
  <1>2. UpdateTyped /\ agentRun \in AgentRunType /\ updateState \in UpdateStateType
    BY DEF UpdateInv, UpdateTyped
  <1>3. Pending /\ ~(updateState.attempts >= MaxProbation)
    BY <1>1, Zenon DEF Outcome, Pending
  <1>4. PICK n \in 0..MaxProbation : n = updateState.attempts + 1
    BY <1>2, <1>3, StateIs, VersionsAre
  <1>5. /\ updateState' \in UpdateStateType /\ updateState'.version = updateState.version
        /\ updateState'.stage = updateState.stage /\ updateState'.blocked = updateState.blocked
        /\ updateState'.previousVersion = updateState.previousVersion
    <2>1. updateState' = [updateState EXCEPT !.attempts = n]
      BY <1>1, <1>4, Zenon
    <2> QED BY <1>2, <2>1 DEF UpdateStateType
  <1>6. agentRun' \in AgentRunType /\ agentRun'.pc = "cycle" /\ agentRun'.code = agentRun.code
    BY <1>1, <1>2, RunGoesOn DEF Steps
  <1>7. /\ ~Swapping /\ ~Swapping' /\ ~Bringing' /\ Pending' /\ ~Reverting /\ ~Reverting'
        /\ ~Remaking /\ ~Remaking' /\ (Clean' <=> Clean)
    BY <1>1, <1>3, <1>5, <1>6 DEF Swapping, Bringing, Pending, Reverting, Remaking, Clean
  <1>8. UpdateTyped'
    BY <1>1, <1>2, <1>3, <1>5, <1>6, <1>7 DEF UpdateTyped
  <1>9. ASSUME Clean' PROVE Current' /\ Incoming' /\ OnRecord' /\ Fallback' /\ Reported'
    <2>1. Current /\ OnRecord /\ Fallback /\ Reported
      BY <1>7, <1>9 DEF UpdateInv
    <2>2. Base' = Base
      BY <1>3, <1>5, <1>7 DEF Base
    <2>3. installed' = Whole(Base)'
      BY <1>1, <1>7, <2>1, <2>2 DEF Current, Whole
    <2>4. Current' /\ Incoming'
      BY <1>1, <1>6, <1>7, <2>1, <2>2, <2>3 DEF Current, Incoming
    <2>5. OnRecord' /\ Fallback'
      BY <1>1, <1>3, <1>5, <1>7, <2>1, <2>2 DEF OnRecord, Fallback
    <2>6. Reported'
      BY <1>1, <1>3, <1>6, <1>7, <2>1, <2>2 DEF Reported
    <2> QED BY <2>4, <2>5, <2>6
  <1> QED BY <1>8, <1>9 DEF UpdateInv

(* A rollback begins; there is something to put back unless .previous was  *)
(* lost in one of the two ways Clean leaves out.                           *)
LEMMA RollbackKeeps == ASSUME UpdateInv, RollsBack PROVE UpdateInv'
  <1>1. /\ agentRun.pc = "settle" /\ Outcome = "rollback"
        /\ UNCHANGED <<shipped, installed, previous, proven, rejected, torn, hasty, bereft>>
    BY DEF RollsBack, Running, excuses
  <1>2. UpdateTyped /\ agentRun \in AgentRunType /\ updateState \in UpdateStateType
    BY DEF UpdateInv, UpdateTyped
  <1>3. Pending /\ Reverting /\ ~Swapping /\ ~Remaking
    BY <1>1, Zenon DEF Outcome, Pending, Reverting, Swapping, Remaking
  <1>4. agentRun.code["script"] \in Versions
    BY <1>1, <1>2 DEF UpdateTyped
  <1>5. CASE GoesTo("restore") /\ UNCHANGED updateState
    <2>1. agentRun' \in AgentRunType /\ agentRun'.pc = "restore" /\ agentRun'.code = agentRun.code
      BY <1>2, <1>5, RunGoesOn DEF Steps
    <2>2. /\ Pending' /\ Reverting' /\ ~Swapping' /\ ~Bringing' /\ ~Remaking' /\ (Clean' <=> Clean)
      BY <1>1, <1>3, <1>5, <2>1 DEF Pending, Reverting, Swapping, Bringing, Remaking, Clean
    <2>3. UpdateTyped'
      BY <1>1, <1>2, <1>3, <1>4, <1>5, <2>1, <2>2 DEF UpdateTyped
    <2>4. ASSUME Clean' PROVE Current' /\ Incoming' /\ OnRecord' /\ Fallback' /\ Reported'
      <3>1. Current /\ OnRecord /\ Fallback /\ Reported
        BY <2>2, <2>4 DEF UpdateInv
      <3>2. Base' = Base
        BY <1>3, <1>5, <2>2 DEF Base
      <3>3. Current' /\ Incoming'
        BY <1>1, <1>3, <2>1, <2>2, <3>1, <3>2 DEF Current, Incoming
      <3>4. OnRecord' /\ Fallback'
        BY <1>1, <1>3, <1>5, <2>2, <3>1, <3>2 DEF OnRecord, Fallback
      <3>5. Reported'
        BY <2>1, <2>2, <3>1 DEF Reported
      <3> QED BY <3>3, <3>4, <3>5
    <2> QED BY <2>3, <2>4 DEF UpdateInv
  <1>6. CASE /\ previous = Whole(NoVersion) /\ GoesTo("cycle")
             /\ updateState' = [updateState EXCEPT !.stage = "confirmed"]
    <2>1. agentRun' \in AgentRunType /\ agentRun'.pc = "cycle" /\ agentRun'.code = agentRun.code
      BY <1>2, <1>6, RunGoesOn DEF Steps
    <2>2. updateState' \in UpdateStateType /\ updateState'.stage = "confirmed"
      BY <1>2, <1>6 DEF UpdateStateType
    <2>3. ~Pending' /\ ~Swapping' /\ ~Bringing' /\ (Clean' <=> Clean)
      BY <1>1, <2>1, <2>2 DEF Pending, Swapping, Bringing, Clean
    <2>4. UpdateTyped'
      BY <1>1, <1>2, <1>4, <2>1, <2>2, <2>3 DEF UpdateTyped
    <2>5. ASSUME Clean' PROVE FALSE
      <3>1. previous["script"] \in Versions
        BY <1>3, <2>3, <2>5 DEF UpdateInv, Fallback
      <3> QED BY <1>6, <3>1, WholeIs, VersionsAre
    <2> QED BY <2>4, <2>5 DEF UpdateInv
  <1> QED BY <1>5, <1>6 DEF RollsBack

(* While a rollback is under way, the version it brings back is whole and  *)
(* good: what it puts in a file's place is of that version.                *)
LEMMA RestoredIs ==
  ASSUME UpdateInv, Clean, agentRun.pc = "restore"
  PROVE  LET w == previous["script"]
         IN /\ Pending /\ Reverting /\ ~Swapping /\ previous = Whole(w)
            /\ \A f \in AgentFiles : previous[f] = w
            /\ w \in Versions /\ w # updateState.version /\ w \notin rejected /\ w <= shipped
            /\ updateState.previousVersion \in {w, NoVersion} /\ (hasty \/ w \in proven)
  <1>1. Pending /\ Reverting /\ ~Swapping /\ ~Remaking
    BY DEF UpdateInv, UpdateTyped, Reverting, Swapping, Remaking
  <1>2. PICK w : w = previous["script"]
    OBVIOUS
  <1>3. /\ w \in Versions /\ previous = Whole(w) /\ w # updateState.version
        /\ w \notin rejected /\ w <= shipped /\ updateState.previousVersion \in {w, NoVersion}
        /\ hasty \/ w \in proven
    BY <1>1, <1>2 DEF UpdateInv, Fallback
  <1>4. \A f \in AgentFiles : previous[f] = w
    BY <1>3, WholeIs
  <1> QED BY <1>1, <1>2, <1>3, <1>4

LEMMA RestoresKeep == ASSUME UpdateInv, Restores PROVE UpdateInv'
  <1>1. /\ agentRun.pc = "restore"
        /\ UNCHANGED <<shipped, previous, updateState, agentRun, proven, rejected, torn, hasty, bereft>>
    BY DEF Restores, Running, excuses
  <1>2. UpdateTyped /\ installed \in FilesOf(Versions) /\ previous \in FilesOf(Versions \cup {NoVersion})
    BY DEF UpdateInv, UpdateTyped
  <1>3. PICK f \in AgentFiles :
           previous[f] # NoVersion /\ installed' = [installed EXCEPT ![f] = previous[f]]
    BY DEF Restores
  <1>4. /\ installed' \in FilesOf(Versions) /\ installed'[f] = previous[f]
        /\ \A g \in AgentFiles \ {f} : installed'[g] = installed[g]
    BY <1>2, <1>3 DEF FilesOf
  <1>5. /\ (Pending' <=> Pending) /\ (Reverting' <=> Reverting) /\ ~Swapping /\ ~Swapping' /\ ~Bringing /\ ~Bringing'
        /\ (Remaking' <=> Remaking) /\ (Clean' <=> Clean) /\ Reverting /\ Pending
    BY <1>1, <1>2 DEF Pending, Reverting, Swapping, Bringing, Remaking, Clean, UpdateTyped
  <1>6. UpdateTyped'
    BY <1>1, <1>2, <1>4, <1>5 DEF UpdateTyped
  <1>7. ASSUME Clean' PROVE Current' /\ Incoming' /\ OnRecord' /\ Fallback' /\ Reported'
    <2>1. Current /\ OnRecord /\ Fallback /\ Reported
      BY <1>5, <1>7 DEF UpdateInv
    <2>2. Base' = Base
      BY <1>1, <1>5 DEF Base
    <2>3. \A g \in AgentFiles : installed'[g] \in {Base, previous[g]}
      BY <1>4, <1>5, <2>1 DEF Current
    <2>4. Current' /\ Incoming'
      BY <1>1, <1>5, <2>1, <2>2, <2>3 DEF Current, Incoming
    <2>5. OnRecord' /\ Fallback' /\ Reported'
      BY <1>1, <1>5, <2>1, <2>2 DEF OnRecord, Fallback, Reported
    <2> QED BY <2>4, <2>5
  <1> QED BY <1>6, <1>7 DEF UpdateInv

(* The rollback is done: the whole version that was laid aside is there.   *)
LEMMA RolledBackIs ==
  ASSUME updateState \in UpdateStateType,
         updateState' = StateFile(updateState.previousVersion, "confirmed", NoVersion, updateState.version)
  PROVE  /\ updateState' \in UpdateStateType /\ updateState'.stage = "confirmed"
         /\ updateState'.version = updateState.previousVersion /\ updateState'.blocked = updateState.version
  <1>1. PICK p \in Versions \cup {NoVersion} : p = updateState.previousVersion
    BY StateIs
  <1>2. PICK v \in Versions \cup {NoVersion} : v = updateState.version
    BY StateIs
  <1>3. updateState' = StateFile(p, "confirmed", NoVersion, v)
    BY <1>1, <1>2, Zenon
  <1>4. /\ updateState' \in UpdateStateType /\ updateState'.stage = "confirmed"
        /\ updateState'.version = p /\ updateState'.blocked = v
    <2>1. p \in Versions \cup {NoVersion} /\ v \in Versions \cup {NoVersion}
      BY StateIs, <1>1, <1>2
    <2> QED BY <1>3, <2>1, VersionsAre DEF StateFile, UpdateStateType
  <1> QED BY <1>1, <1>2, <1>4

LEMMA RestoreIs ==
  ASSUME UpdateInv, Clean, RestoreEnds
  PROVE  installed' = Whole(previous["script"])
  <1>1. PICK w : w = previous["script"]
    OBVIOUS
  <1>2. agentRun.pc = "restore" /\ installed' = installed /\ \A f \in AgentFiles : previous[f] \in {NoVersion, installed[f]}
    BY DEF RestoreEnds, Running
  <1>3. w \in Versions /\ \A f \in AgentFiles : previous[f] = w
    BY <1>1, <1>2, RestoredIs
  <1>4. \A f \in AgentFiles : installed[f] = w
    BY <1>2, <1>3, VersionsAre
  <1>5. installed \in FilesOf(Versions)
    BY DEF UpdateInv, UpdateTyped
  <1> QED BY <1>1, <1>2, <1>4, <1>5 DEF FilesOf, Whole

LEMMA RestoreEndKeeps == ASSUME UpdateInv, RestoreEnds PROVE UpdateInv'
  <1>1. /\ agentRun.pc = "restore" /\ GoesTo("cycle")
        /\ updateState' = StateFile(updateState.previousVersion, "confirmed", NoVersion, updateState.version)
        /\ rejected' = rejected \cup {updateState.version}
        /\ UNCHANGED <<shipped, installed, previous, proven, torn, hasty, bereft>>
    BY DEF RestoreEnds, Running, excuses
  <1>2. UpdateTyped /\ agentRun \in AgentRunType /\ updateState \in UpdateStateType
    BY DEF UpdateInv, UpdateTyped
  <1>3. Pending /\ updateState.version \in Versions /\ agentRun.code["script"] \in Versions
    BY <1>1, <1>2 DEF UpdateTyped, Reverting
  <1>4. agentRun' \in AgentRunType /\ agentRun'.pc = "cycle" /\ agentRun'.code = agentRun.code
    BY <1>1, <1>2, RunGoesOn DEF Steps
  <1>5. /\ updateState' \in UpdateStateType /\ updateState'.stage = "confirmed"
        /\ updateState'.version = updateState.previousVersion /\ updateState'.blocked = updateState.version
    BY <1>1, <1>2, RolledBackIs
  <1>6. ~Swapping' /\ ~Bringing' /\ ~Pending' /\ ~Reverting' /\ ~Remaking' /\ (Clean' <=> Clean)
    BY <1>1, <1>4, <1>5 DEF Swapping, Bringing, Pending, Reverting, Remaking, Clean
  <1>7. UpdateTyped'
    BY <1>1, <1>2, <1>3, <1>4, <1>5, <1>6 DEF UpdateTyped
  <1>8. ASSUME Clean' PROVE Current' /\ Incoming' /\ OnRecord' /\ Fallback' /\ Reported'
    <2>0. Clean /\ OnRecord /\ Current
      BY <1>6, <1>8 DEF UpdateInv
    <2>1. PICK w : w = previous["script"]
      OBVIOUS
    <2>2. /\ installed' = Whole(w) /\ ~Swapping
          /\ w \in Versions /\ w # updateState.version /\ w \notin rejected /\ w <= shipped
          /\ updateState.previousVersion \in {w, NoVersion} /\ (hasty \/ w \in proven)
      BY <1>1, <2>0, <2>1, RestoreIs, RestoredIs
    <2>3. Base' = w
      BY <1>6, <2>2, WholeIs DEF Base
    <2>4. installed' = Whole(Base)'
      BY <2>2, <2>3 DEF Whole
    <2>5. Current' /\ Incoming'
      BY <1>1, <1>4, <1>6, <2>2, <2>3, <2>4 DEF Current, Incoming
    <2>6. updateState.version = Base /\ updateState.blocked = NoVersion /\ Base <= shipped
      BY <1>1, <1>3, <2>0 DEF OnRecord, Current
    <2>7. OnRecord'
      <3>1. shipped \notin rejected
        BY <2>0, <2>6, <1>2, VersionsAre DEF OnRecord, UpdateTyped
      <3> QED BY <3>1, <1>1, <1>5, <1>6, <2>0, <2>2, <2>3, <2>6 DEF OnRecord
    <2>8. Fallback' /\ Reported'
      BY <1>1, <1>6, <2>2, <2>3 DEF Fallback, Reported
    <2> QED BY <2>5, <2>7, <2>8
  <1> QED BY <1>7, <1>8 DEF UpdateInv

(* A report ends the probation of the version that runs.                   *)
LEMMA ReportKeeps == ASSUME UpdateInv, ReportAccepted PROVE UpdateInv'
  <1>1. /\ agentRun.pc = "cycle" /\ GoesTo("check")
        /\ updateState' = IF updateState.stage = "pending"
                           THEN [updateState EXCEPT !.stage = "confirmed", !.attempts = 0] ELSE updateState
        /\ proven' = proven \cup {agentRun.code["script"]}
        /\ UNCHANGED <<shipped, installed, previous, rejected, torn, hasty, bereft>>
    BY DEF ReportAccepted, Running, excuses
  <1>2. UpdateTyped /\ agentRun \in AgentRunType /\ updateState \in UpdateStateType
    BY DEF UpdateInv, UpdateTyped
  <1>3. agentRun.code["script"] \in Versions
    BY <1>1, <1>2 DEF UpdateTyped
  <1>4. agentRun' \in AgentRunType /\ agentRun'.pc = "check" /\ agentRun'.code = agentRun.code
    BY <1>1, <1>2, RunGoesOn DEF Steps
  <1>5. ~Swapping /\ ~Swapping' /\ ~Bringing' /\ ~Reverting /\ ~Reverting' /\ (Clean' <=> Clean)
    BY <1>1, <1>4 DEF Swapping, Bringing, Reverting, Clean
  <1>6. /\ updateState' \in UpdateStateType /\ updateState'.stage = "confirmed"
        /\ updateState'.version = updateState.version /\ updateState'.blocked = updateState.blocked
    <2>1. CASE updateState.stage = "pending"
      <3>1. updateState' = [updateState EXCEPT !.stage = "confirmed", !.attempts = 0]
        BY <1>1, <2>1
      <3>2. PICK n \in 0..MaxProbation : n = 0
        BY VersionsAre
      <3>3. updateState' = [updateState EXCEPT !.stage = "confirmed", !.attempts = n]
        BY <3>1, <3>2
      <3> QED BY <1>2, <3>3 DEF UpdateStateType
    <2>2. CASE updateState.stage # "pending"
      BY <1>1, <1>2, <2>2, StateIs
    <2> QED BY <2>1, <2>2
  <1>7. ~Pending'
    BY <1>6 DEF Pending
  <1>8. UpdateTyped'
    BY <1>1, <1>2, <1>3, <1>4, <1>5, <1>6, <1>7 DEF UpdateTyped
  <1>9. ASSUME Clean' PROVE Current' /\ Incoming' /\ OnRecord' /\ Fallback' /\ Reported'
    <2>1. Current /\ OnRecord /\ Reported
      BY <1>5, <1>9 DEF UpdateInv
    <2>2. installed = Whole(Base) /\ installed["script"] = Base
      BY <1>5, <2>1, WholeIs DEF Current
    <2>3. Base' = Base
      BY <1>1, <1>5, <1>7, <2>2 DEF Base
    <2>4. installed' = Whole(Base)'
      BY <1>1, <2>2, <2>3 DEF Whole
    <2>5. Current' /\ Incoming'
      BY <1>1, <1>4, <1>5, <2>1, <2>3, <2>4 DEF Current, Incoming
    <2>6. OnRecord' /\ Fallback'
      BY <1>1, <1>6, <1>7, <2>1, <2>3 DEF OnRecord, Fallback
    <2>7. Reported'
      BY <1>1, <1>5, <1>7, <2>1, <2>3 DEF Reported
    <2> QED BY <2>5, <2>6, <2>7
  <1> QED BY <1>8, <1>9 DEF UpdateInv

(* Nothing is new; files copied in by hand are recognised.                 *)
LEMMA NothingKeeps == ASSUME UpdateInv, NothingToInstall PROVE UpdateInv'
  <1>1. /\ agentRun.pc = "check" /\ agentRun' = NotRunning
        /\ UNCHANGED <<shipped, installed, previous, proven, rejected, torn, hasty, bereft>>
    BY DEF NothingToInstall, Running, excuses
  <1>2. /\ UpdateTyped /\ torn \in BOOLEAN /\ bereft \in BOOLEAN /\ proven \subseteq Versions
        /\ updateState \in UpdateStateType /\ shipped \in Versions
    BY DEF UpdateInv, UpdateTyped
  <1>3. ~Swapping /\ ~Reverting /\ ~Remaking /\ (Clean' <=> Clean)
    BY <1>1 DEF Swapping, Reverting, Remaking, Clean
  <1>4. CASE updateState' = updateState
    BY <1>1, <1>2, <1>3, <1>4, NotRunningIs, MovesOn
  <1>5. CASE /\ updateState.version = NoVersion /\ installed = Whole(shipped)
             /\ updateState' = StateFile(shipped, "confirmed", NoVersion, NoVersion)
    <2>1. /\ updateState' \in UpdateStateType /\ updateState'.version = shipped
          /\ updateState'.stage = "confirmed"
      BY <1>2, <1>5, StateFileIs
    <2>2. agentRun' \in AgentRunType /\ agentRun'.pc = "off"
      BY <1>1, NotRunningIs
    <2>3. ~Swapping' /\ ~Bringing' /\ ~Pending' /\ ~Reverting'
      BY <2>1, <2>2 DEF Swapping, Bringing, Pending, Reverting
    <2>4. UpdateTyped'
      BY <1>1, <1>2, <2>1, <2>2, <2>3 DEF UpdateTyped
    <2>5. ASSUME Clean' PROVE Current' /\ Incoming' /\ OnRecord' /\ Fallback' /\ Reported'
      <3>1. Current /\ OnRecord /\ Reported
        BY <1>3, <2>5 DEF UpdateInv
      <3>2. ~Pending
        BY <1>2, <1>5, VersionsAre DEF UpdateTyped
      <3>3. Base' = Base /\ Base = shipped /\ Base' = shipped'
        BY <1>1, <1>3, <1>5, <2>3, <3>2, WholeIs DEF Base
      <3>4. installed' = Whole(Base)'
        BY <1>1, <1>5, <3>3 DEF Whole
      <3>5. Current' /\ Incoming'
        BY <1>1, <2>2, <2>3, <1>3, <3>1, <3>3, <3>4 DEF Current, Incoming
      <3>6. OnRecord' /\ Fallback'
        BY <1>1, <2>1, <2>3, <3>1, <3>3 DEF OnRecord, Fallback, Current
      <3>7. Reported'
        BY <1>1, <2>3, <3>1, <3>2, <3>3 DEF Reported
      <3> QED BY <3>5, <3>6, <3>7
    <2> QED BY <2>4, <2>5 DEF UpdateInv
  <1> QED BY <1>4, <1>5 DEF NothingToInstall

(* What is downloaded is neither what the host is at, nor blocked.         *)
LEMMA DownloadKeeps == ASSUME UpdateInv, Downloads PROVE UpdateInv'
  <1>1. /\ agentRun.pc = "check" /\ shipped \notin {updateState.version, updateState.blocked}
        /\ ~(updateState.version = NoVersion /\ installed = Whole(shipped))
        /\ UNCHANGED <<shipped, installed, previous, updateState, proven, rejected, torn, hasty, bereft>>
        /\ agentRun' = [agentRun EXCEPT !.pc = "aside", !.target = shipped] \/ agentRun' = NotRunning
    BY DEF Downloads, Running, excuses
  <1>2. /\ UpdateTyped /\ agentRun \in AgentRunType /\ shipped \in Versions /\ proven \subseteq Versions
        /\ torn \in BOOLEAN /\ bereft \in BOOLEAN
    BY DEF UpdateInv, UpdateTyped
  <1>3. ~Swapping /\ ~Reverting /\ ~Remaking /\ (Clean' <=> Clean)
    BY <1>1 DEF Swapping, Reverting, Remaking, Clean
  <1>4. CASE agentRun' = NotRunning
    BY <1>1, <1>2, <1>3, <1>4, NotRunningIs, MovesOn
  <1>5. CASE agentRun' = [agentRun EXCEPT !.pc = "aside", !.target = shipped]
    <2>1. /\ agentRun' \in AgentRunType /\ agentRun'.pc = "aside" /\ agentRun'.target = shipped
          /\ agentRun'.code = agentRun.code
      BY <1>2, <1>5 DEF AgentRunType, Steps
    <2>2. ~Swapping' /\ ~Reverting' /\ (Pending' <=> Pending) /\ agentRun.code["script"] \in Versions
      BY <1>1, <1>2, <2>1 DEF Swapping, Pending, Reverting, UpdateTyped
    <2>3. UpdateTyped'
      BY <1>1, <1>2, <2>1, <2>2 DEF UpdateTyped
    <2>4. ASSUME Clean' PROVE Current' /\ Incoming' /\ OnRecord' /\ Fallback' /\ Reported'
      <3>1. Current /\ OnRecord /\ Fallback /\ Reported
        BY <1>3, <2>4 DEF UpdateInv
      <3>2. Base' = Base
        BY <1>1, <1>3, <2>2 DEF Base
      <3>3. installed = Whole(Base) /\ \A f \in AgentFiles : installed[f] = Base
        BY <1>3, <3>1, WholeIs DEF Current
      <3>4. shipped # Base /\ shipped \notin rejected
        BY <1>1, <1>3, <3>1, <3>3 DEF OnRecord
      <3>5. shipped <= shipped
        BY <1>2, VersionsAre
      <3>6. installed' = Whole(Base)'
        BY <1>1, <3>2, <3>3 DEF Whole
      <3>7. Current' /\ Incoming'
        BY <1>1, <1>3, <2>1, <2>2, <3>1, <3>2, <3>4, <3>5, <3>6 DEF Current, Incoming
      <3>8. OnRecord' /\ Fallback'
        BY <1>1, <1>3, <2>2, <3>1, <3>2 DEF OnRecord, Fallback
      <3>9. Reported'
        BY <1>1, <2>1, <2>2, <3>1, <3>2 DEF Reported
      <3> QED BY <3>7, <3>8, <3>9
    <2> QED BY <2>3, <2>4 DEF UpdateInv
  <1> QED BY <1>1, <1>4, <1>5

(* What was laid aside before goes ...                                     *)
LEMMA RemovesKeep == ASSUME UpdateInv, RemovesAside PROVE UpdateInv'
  <1>1. /\ agentRun.pc = "aside" /\ hasty' = (hasty \/ Pending)
        /\ UNCHANGED <<shipped, installed, updateState, agentRun, proven, rejected, torn, bereft>>
    BY DEF RemovesAside, Running, Pending
  <1>2. UpdateTyped /\ previous \in FilesOf(Versions \cup {NoVersion}) /\ hasty \in BOOLEAN
    BY DEF UpdateInv, UpdateTyped
  <1>3. PICK f \in AgentFiles : previous' = [previous EXCEPT ![f] = NoVersion]
    BY DEF RemovesAside
  <1>4. previous' \in FilesOf(Versions \cup {NoVersion})
    BY <1>2, <1>3 DEF FilesOf
  <1>5. /\ ~Swapping /\ ~Swapping' /\ Bringing /\ Bringing' /\ ~Reverting /\ ~Reverting' /\ (Pending' <=> Pending)
        /\ (Pending => Remaking') /\ (Clean' <=> Clean) /\ hasty' \in BOOLEAN
    BY <1>1, <1>2 DEF Swapping, Bringing, Reverting, Pending, Remaking, Clean
  <1>6. UpdateTyped'
    BY <1>1, <1>2, <1>4, <1>5 DEF UpdateTyped
  <1>7. ASSUME Clean' PROVE Current' /\ Incoming' /\ OnRecord' /\ Fallback' /\ Reported'
    <2>1. Current /\ Incoming /\ OnRecord /\ Reported
      BY <1>5, <1>7 DEF UpdateInv
    <2>2. Base' = Base
      BY <1>1, <1>5 DEF Base
    <2>3. installed' = Whole(Base)'
      BY <1>1, <1>5, <2>1, <2>2 DEF Current, Whole
    <2>4. Current' /\ Incoming'
      BY <1>1, <1>5, <2>1, <2>2, <2>3 DEF Current, Incoming
    <2>5. OnRecord' /\ Fallback'
      BY <1>1, <1>5, <2>1, <2>2 DEF OnRecord, Fallback
    <2>6. Reported'
      BY <1>1, <1>5, <2>1, <2>2 DEF Reported
    <2> QED BY <2>4, <2>5, <2>6
  <1> QED BY <1>6, <1>7 DEF UpdateInv

(* ... and the version the host is at is laid aside, file by file.         *)
LEMMA AsideIs ==
  ASSUME UpdateInv, CopiesAside
  PROVE  /\ agentRun.pc \in {"aside", "copy"} /\ agentRun'.pc \in {"copy", "swap"} /\ agentRun' \in AgentRunType
         /\ agentRun'.code = agentRun.code /\ agentRun'.target = agentRun.target
         /\ previous' \in FilesOf(Versions \cup {NoVersion})
         /\ Clean => \A g \in AgentFiles : previous'[g] \in {NoVersion, Base}
         /\ Clean /\ agentRun'.pc = "swap" => previous' = Whole(Base)
         /\ hasty' = (hasty \/ Pending)
         /\ UNCHANGED <<shipped, installed, updateState, proven, rejected, torn, bereft>>
  <1>1. /\ agentRun.pc \in {"aside", "copy"}
        /\ agentRun.pc = "aside" => previous = Whole(NoVersion)
        /\ hasty' = (hasty \/ Pending)
        /\ UNCHANGED <<shipped, installed, updateState, proven, rejected, torn, bereft>>
    BY DEF CopiesAside, Running, Pending
  <1>2. /\ agentRun \in AgentRunType /\ installed \in FilesOf(Versions)
        /\ previous \in FilesOf(Versions \cup {NoVersion})
    BY DEF UpdateInv, UpdateTyped
  <1>3. PICK f \in AgentFiles :
           /\ previous' = [previous EXCEPT ![f] = installed[f]]
           /\ GoesTo(IF \E g \in AgentFiles \ {f} : previous[g] = NoVersion THEN "copy" ELSE "swap")
    BY DEF CopiesAside
  <1>4. PICK x : x = IF \E g \in AgentFiles \ {f} : previous[g] = NoVersion THEN "copy" ELSE "swap"
    OBVIOUS
  <1>5. x \in Steps /\ x \in {"copy", "swap"} /\ GoesTo(x)
    BY <1>3, <1>4 DEF Steps
  <1>6. /\ agentRun' \in AgentRunType /\ agentRun'.pc = x /\ agentRun'.code = agentRun.code
        /\ agentRun'.target = agentRun.target
    BY <1>2, <1>5, RunGoesOn
  <1>7. /\ previous' \in FilesOf(Versions \cup {NoVersion}) /\ previous'[f] = installed[f]
        /\ \A g \in AgentFiles \ {f} : previous'[g] = previous[g]
    BY <1>2, <1>3 DEF FilesOf
  <1>8. ASSUME Clean
        PROVE  previous'[f] = Base /\ \A g \in AgentFiles : previous[g] \in {NoVersion, Base}
    <2>1. Current /\ ~Swapping /\ ~Reverting
      BY <1>1, <1>8 DEF UpdateInv, Swapping, Reverting
    <2>2. previous'[f] = Base
      BY <1>7, <2>1, WholeIs DEF Current
    <2>3. CASE agentRun.pc = "aside"
      BY <1>1, <2>2, <2>3, WholeIs
    <2>4. CASE agentRun.pc = "copy"
      BY <2>1, <2>2, <2>4 DEF Current
    <2> QED BY <1>1, <2>3, <2>4
  <1>9. Clean => \A g \in AgentFiles : previous'[g] \in {NoVersion, Base}
    BY <1>7, <1>8
  <1>10. ASSUME Clean, x = "swap" PROVE previous' = Whole(Base)
    <2>1. \A g \in AgentFiles : previous'[g] = Base
      BY <1>4, <1>7, <1>8, <1>10
    <2> QED BY <1>7, <2>1 DEF FilesOf, Whole
  <1> QED BY <1>1, <1>5, <1>6, <1>7, <1>9, <1>10

LEMMA AsideKeeps == ASSUME UpdateInv, CopiesAside PROVE UpdateInv'
  <1>1. /\ agentRun.pc \in {"aside", "copy"} /\ agentRun'.pc \in {"copy", "swap"} /\ agentRun' \in AgentRunType
        /\ agentRun'.code = agentRun.code /\ agentRun'.target = agentRun.target
        /\ previous' \in FilesOf(Versions \cup {NoVersion})
        /\ Clean => \A g \in AgentFiles : previous'[g] \in {NoVersion, Base}
        /\ Clean /\ agentRun'.pc = "swap" => previous' = Whole(Base)
        /\ hasty' = (hasty \/ Pending)
        /\ UNCHANGED <<shipped, installed, updateState, proven, rejected, torn, bereft>>
    BY AsideIs
  <1>2. UpdateTyped /\ hasty \in BOOLEAN
    BY DEF UpdateInv, UpdateTyped
  <1>3. /\ ~Swapping /\ (Swapping' <=> agentRun'.pc = "swap") /\ Bringing /\ Bringing' /\ (Pending' <=> Pending)
        /\ ~Reverting /\ ~Reverting' /\ (Clean' <=> Clean) /\ hasty' \in BOOLEAN
        /\ (Pending => hasty' /\ (Swapping' \/ Remaking'))
    BY <1>1, <1>2 DEF Swapping, Bringing, Pending, Reverting, Remaking, Clean
  <1>4. agentRun.code["script"] \in Versions
    BY <1>1, <1>2 DEF UpdateTyped
  <1>5. UpdateTyped'
    BY <1>1, <1>2, <1>3, <1>4 DEF UpdateTyped
  <1>6. ASSUME Clean' PROVE Current' /\ Incoming' /\ OnRecord' /\ Fallback' /\ Reported'
    <2>1. Clean /\ Current /\ Incoming /\ OnRecord /\ Reported
      BY <1>3, <1>6 DEF UpdateInv
    <2>2. installed = Whole(Base) /\ installed["script"] = Base
      BY <1>3, <2>1, WholeIs DEF Current
    <2>3. Base' = Base
      <3>1. CASE Swapping'
        <4>1. previous'["script"] = Base
          BY <1>1, <1>3, <2>1, <3>1, WholeIs
        <4> QED BY <3>1, <4>1 DEF Base
      <3>2. CASE ~Swapping'
        BY <1>1, <1>3, <3>2 DEF Base
      <3> QED BY <3>1, <3>2
    <2>4. installed' = Whole(Base)' /\ (Swapping' => previous' = Whole(Base)')
      BY <1>1, <1>3, <2>1, <2>2, <2>3 DEF Whole
    <2>5. Current'
      BY <1>1, <1>3, <2>1, <2>3, <2>4 DEF Current
    <2>6. Incoming'
      BY <1>1, <1>3, <2>1, <2>3 DEF Incoming
    <2>7. OnRecord' /\ Fallback'
      BY <1>1, <1>3, <2>1, <2>3 DEF OnRecord, Fallback
    <2>8. Reported'
      BY <1>1, <1>3, <2>1, <2>3 DEF Reported
    <2> QED BY <2>5, <2>6, <2>7, <2>8
  <1> QED BY <1>5, <1>6 DEF UpdateInv

(* One file after the other becomes the new one.                           *)
LEMMA SwapIs ==
  ASSUME UpdateInv, Swaps \/ AlreadyThere
  PROVE  /\ agentRun.pc = "swap" /\ agentRun'.pc \in {"swap", "note"} /\ agentRun' \in AgentRunType
         /\ agentRun'.code = agentRun.code /\ agentRun'.target = agentRun.target
         /\ installed' \in FilesOf(Versions)
         /\ \A f \in AgentFiles : installed'[f] \in {installed[f], agentRun.target}
         /\ agentRun'.pc = "note" => installed' = Whole(agentRun.target)
         /\ UNCHANGED <<shipped, previous, updateState, proven, rejected, torn, hasty, bereft>>
  <1>1. /\ agentRun.pc = "swap" /\ UNCHANGED <<shipped, previous, updateState, proven, rejected, torn, hasty, bereft>>
    BY DEF Swaps, AlreadyThere, Running, excuses
  <1>2. /\ agentRun \in AgentRunType /\ installed \in FilesOf(Versions) /\ agentRun.target \in Versions
    BY <1>1 DEF UpdateInv, UpdateTyped, Bringing
  <1>3. CASE AlreadyThere
    <2>1. GoesTo("note") /\ installed' = installed /\ installed = Whole(agentRun.target)
      BY <1>3 DEF AlreadyThere
    <2>2. /\ agentRun' \in AgentRunType /\ agentRun'.pc = "note" /\ agentRun'.code = agentRun.code
          /\ agentRun'.target = agentRun.target
      BY <1>2, <2>1, RunGoesOn DEF Steps
    <2> QED BY <1>1, <1>2, <2>1, <2>2
  <1>4. CASE Swaps
    <2>1. PICK f \in AgentFiles :
             /\ installed' = [installed EXCEPT ![f] = agentRun.target]
             /\ GoesTo(IF \A g \in AgentFiles \ {f} : installed[g] = agentRun.target THEN "note" ELSE "swap")
      BY <1>4 DEF Swaps
    <2>2. PICK x : x = IF \A g \in AgentFiles \ {f} : installed[g] = agentRun.target THEN "note" ELSE "swap"
      OBVIOUS
    <2>3. x \in Steps /\ x \in {"swap", "note"} /\ GoesTo(x)
      BY <2>1, <2>2 DEF Steps
    <2>4. /\ agentRun' \in AgentRunType /\ agentRun'.pc = x /\ agentRun'.code = agentRun.code
          /\ agentRun'.target = agentRun.target
      BY <1>2, <2>3, RunGoesOn
    <2>5. /\ installed' \in FilesOf(Versions) /\ installed'[f] = agentRun.target
          /\ \A g \in AgentFiles \ {f} : installed'[g] = installed[g]
      BY <1>2, <2>1 DEF FilesOf
    <2>6. ASSUME x = "note" PROVE installed' = Whole(agentRun.target)
      <3>1. \A g \in AgentFiles : installed'[g] = agentRun.target
        BY <2>2, <2>5, <2>6
      <3> QED BY <2>5, <3>1 DEF FilesOf, Whole
    <2> QED BY <1>1, <2>3, <2>4, <2>5, <2>6
  <1> QED BY <1>3, <1>4

LEMMA SwapKeeps == ASSUME UpdateInv, Swaps \/ AlreadyThere PROVE UpdateInv'
  <1>1. /\ agentRun.pc = "swap" /\ agentRun'.pc \in {"swap", "note"} /\ agentRun' \in AgentRunType
        /\ agentRun'.code = agentRun.code /\ agentRun'.target = agentRun.target
        /\ installed' \in FilesOf(Versions)
        /\ agentRun'.pc = "note" => installed' = Whole(agentRun.target)
        /\ UNCHANGED <<shipped, previous, updateState, proven, rejected, torn, hasty, bereft>>
    BY SwapIs
  <1>2. UpdateTyped
    BY DEF UpdateInv
  <1>3. /\ Swapping /\ Bringing /\ Swapping' /\ Bringing' /\ (Pending' <=> Pending)
        /\ ~Reverting /\ ~Reverting' /\ (Clean' <=> Clean)
    BY <1>1 DEF Swapping, Bringing, Pending, Reverting, Clean
  <1>4. agentRun.code["script"] \in Versions
    BY <1>1, <1>2 DEF UpdateTyped
  <1>5. UpdateTyped'
    BY <1>1, <1>2, <1>3, <1>4 DEF UpdateTyped
  <1>6. ASSUME Clean' PROVE Current' /\ Incoming' /\ OnRecord' /\ Fallback' /\ Reported'
    <2>1. Current /\ Incoming /\ OnRecord /\ Reported
      BY <1>3, <1>6 DEF UpdateInv
    <2>2. Base' = Base
      BY <1>1, <1>3 DEF Base
    <2>3. Current'
      BY <1>1, <1>3, <2>1, <2>2 DEF Current
    <2>4. Incoming'
      BY <1>1, <1>3, <2>1, <2>2 DEF Incoming
    <2>5. OnRecord' /\ Fallback'
      BY <1>1, <1>3, <2>1, <2>2 DEF OnRecord, Fallback
    <2>6. Reported'
      BY <1>1, <1>3, <2>1, <2>2 DEF Reported
    <2> QED BY <2>3, <2>4, <2>5, <2>6
  <1> QED BY <1>5, <1>6 DEF UpdateInv

(* The new version is on probation, the one laid aside is its fallback.    *)
LEMMA NoteKeeps == ASSUME UpdateInv, NotesPending PROVE UpdateInv'
  <1>1. /\ agentRun.pc = "note" /\ agentRun' = NotRunning
        /\ updateState' = StateFile(agentRun.target, "pending", updateState.version, NoVersion)
        /\ UNCHANGED <<shipped, installed, previous, proven, rejected, torn, hasty, bereft>>
    BY DEF NotesPending, Running, excuses
  <1>2. UpdateTyped /\ agentRun.target \in Versions /\ updateState \in UpdateStateType /\ hasty \in BOOLEAN
    BY <1>1 DEF UpdateInv, UpdateTyped, Bringing
  <1>3. PICK t \in Versions : t = agentRun.target
    BY <1>2
  <1>4. PICK p \in Versions \cup {NoVersion} : p = updateState.version
    BY <1>2, StateIs
  <1>5. /\ updateState' \in UpdateStateType /\ updateState'.version = t /\ updateState'.stage = "pending"
        /\ updateState'.previousVersion = p /\ updateState'.blocked = NoVersion
    <2>1. updateState' = StateFile(t, "pending", p, NoVersion)
      BY <1>1, <1>3, <1>4, Zenon
    <2>2. p \in Versions \cup {NoVersion} /\ t \in Versions
      BY <1>2, <1>3, <1>4, StateIs
    <2> QED BY <2>1, <2>2, VersionsAre DEF StateFile, UpdateStateType
  <1>6. agentRun' \in AgentRunType /\ agentRun'.pc = "off"
    BY <1>1, NotRunningIs
  <1>7. /\ Swapping /\ Bringing /\ ~Swapping' /\ ~Bringing' /\ ~Remaking' /\ Pending' /\ (Clean' <=> Clean)
    BY <1>1, <1>2, <1>5, <1>6 DEF Swapping, Bringing, Remaking, Pending, Clean
  <1>8. UpdateTyped'
    BY <1>1, <1>2, <1>3, <1>5, <1>6, <1>7 DEF UpdateTyped
  <1>9. ASSUME Clean' PROVE Current' /\ Incoming' /\ OnRecord' /\ Fallback' /\ Reported'
    <2>1. Current /\ Incoming /\ OnRecord /\ Reported
      BY <1>7, <1>9 DEF UpdateInv
    <2>2. PICK w : w = Base
      OBVIOUS
    <2>3. /\ w \in Versions /\ w \notin rejected /\ w <= shipped /\ previous = Whole(w) /\ installed = Whole(t)
          /\ t \notin rejected /\ t # w /\ t <= shipped /\ shipped \notin rejected /\ p \in {w, NoVersion}
      BY <1>1, <1>3, <1>4, <1>7, <2>1, <2>2 DEF Current, Incoming, OnRecord
    <2>4. previous'["script"] = w /\ Base' = t /\ installed' = Whole(t) /\ Whole(Base)' = Whole(t)
          /\ \A f \in AgentFiles : installed'[f] = t
      <3>1. previous'["script"] = w /\ \A f \in AgentFiles : installed'[f] = t
        BY <1>1, <2>3, WholeIs
      <3>2. Base' = t
        BY <1>5, <1>7 DEF Base
      <3> QED BY <1>1, <2>3, <3>1, <3>2 DEF Whole
    <2>5. Current' /\ Incoming'
      BY <1>1, <1>3, <1>6, <1>7, <2>3, <2>4 DEF Current, Incoming
    <2>6. OnRecord'
      BY <1>1, <1>5, <1>7, <2>1, <2>3, <2>4 DEF OnRecord
    <2>7. hasty' \/ w \in proven
      BY <1>1, <2>1, <2>2 DEF Reported
    <2>8. Fallback'
      BY <1>1, <1>5, <1>7, <2>3, <2>4, <2>7 DEF Fallback
    <2>9. Reported'
      BY <1>6, <1>7 DEF Reported
    <2> QED BY <2>5, <2>6, <2>8, <2>9
  <1> QED BY <1>8, <1>9 DEF UpdateInv

LEMMA ShipKeeps == ASSUME UpdateInv, Ships PROVE UpdateInv'
  <1>1. /\ shipped' = shipped + 1 /\ shipped' \in Versions
        /\ UNCHANGED <<installed, previous, updateState, agentRun, proven, rejected, torn, hasty, bereft>>
    BY DEF Ships, excuses
  <1>2. UpdateTyped /\ shipped \in Versions
    BY DEF UpdateInv, UpdateTyped
  <1>3. /\ (Swapping' <=> Swapping) /\ (Bringing' <=> Bringing) /\ (Pending' <=> Pending) /\ Base' = Base
        /\ (Reverting' <=> Reverting) /\ (Remaking' <=> Remaking) /\ (Clean' <=> Clean)
        /\ Whole(Base)' = Whole(Base)
    BY <1>1 DEF Swapping, Bringing, Pending, Reverting, Remaking, Clean, Base, Whole
  <1>4. UpdateTyped'
    BY <1>1, <1>2, <1>3 DEF UpdateTyped
  <1>5. ASSUME Clean' PROVE Current' /\ Incoming' /\ OnRecord' /\ Fallback' /\ Reported'
    <2>1. Current /\ Incoming /\ OnRecord /\ Fallback /\ Reported
      BY <1>3, <1>5 DEF UpdateInv
    <2>2. \A v \in Versions : v <= shipped => v <= shipped'
      BY <1>1, <1>2, VersionsAre
    <2>3. shipped' \notin rejected
      <3>1. ~(shipped + 1 <= shipped)
        BY <1>2, VersionsAre
      <3> QED BY <1>1, <2>1, <3>1 DEF OnRecord
    <2>4. Current' /\ Incoming'
      BY <1>1, <1>2, <1>3, <2>1, <2>2, <2>3 DEF Current, Incoming, UpdateTyped
    <2>5. OnRecord' /\ Fallback'
      BY <1>1, <1>2, <1>3, <2>1, <2>2, <2>3 DEF OnRecord, Fallback, UpdateTyped
    <2>6. Reported'
      BY <1>1, <1>3, <2>1 DEF Reported
    <2> QED BY <2>4, <2>5, <2>6
  <1> QED BY <1>4, <1>5 DEF UpdateInv

LEMMA UpdateKeeps == ASSUME UpdateInv, [NextUpdate]_updateVars PROVE UpdateInv'
  <1>1. CASE UNCHANGED updateVars
    BY <1>1 DEF updateVars, UpdateInv, UpdateTyped, Current, Incoming, OnRecord, Fallback, Reported,
                Base, Swapping, Bringing, Pending, Reverting, Remaking, Clean, excuses
  <1>2. CASE TaskFires \/ NothingToSettle \/ CycleFails \/ CycleDies
    BY <1>2, RunsKeep
  <1>3. CASE OnProbation
    BY <1>3, ProbationKeeps
  <1>4. CASE RollsBack
    BY <1>4, RollbackKeeps
  <1>5. CASE ReportAccepted
    BY <1>5, ReportKeeps
  <1>6. CASE NothingToInstall
    BY <1>6, NothingKeeps
  <1>7. CASE Downloads
    BY <1>7, DownloadKeeps
  <1>8. CASE CopiesAside
    BY <1>8, AsideKeeps
  <1>9. CASE Swaps \/ AlreadyThere
    BY <1>9, SwapKeeps
  <1>10. CASE NotesPending
    BY <1>10, NoteKeeps
  <1>11. CASE Killed
    BY <1>11, KilledKeeps
  <1>12. CASE Ships
    BY <1>12, ShipKeeps
  <1>13. CASE Restores
    BY <1>13, RestoresKeep
  <1>14. CASE RestoreEnds
    BY <1>14, RestoreEndKeeps
  <1>15. CASE RemovesAside
    BY <1>15, RemovesKeep
  <1> QED
    BY <1>1, <1>2, <1>3, <1>4, <1>5, <1>6, <1>7, <1>8, <1>9, <1>10, <1>11, <1>12, <1>13, <1>14, <1>15
    DEF NextUpdate, AgentRun

-----------------------------------------------------------------------------
(* The update of the agent keeps its types: whatever is killed or fails,   *)
(* the files, the state file and the run are ones the code can make sense  *)
(* of (Save-AgentUpdate, Undo-AgentUpdate, Resolve-AgentUpdateOutcome).    *)
THEOREM UpdateTypeCorrect == UpdateSpec => []UpdateTypeOK
  <1>1. UpdateInv => UpdateTypeOK
    <2> SUFFICES ASSUME UpdateInv PROVE UpdateTypeOK
      OBVIOUS
    <2>1. UpdateTyped /\ agentRun \in AgentRunType
      BY DEF UpdateInv, UpdateTyped
    <2>2. agentRun.pc \in Steps /\ agentRun.code \in FilesOf(Versions \cup {NoVersion})
      BY <2>1 DEF AgentRunType
    <2>3. installed \in FilesOf(Versions \cup {NoVersion})
      BY <2>1 DEF UpdateTyped, FilesOf
    <2> QED BY <2>1, <2>2, <2>3 DEF UpdateTyped, UpdateTypeOK, FilesOf, UpdateStateType, Steps
  <1> QED BY <1>1, UpdateStarts, UpdateKeeps, PTL DEF UpdateSpec

(* However many versions are shipped, runs killed and reports lost, and    *)
(* however often the rollback itself is cut: as long as no swap was cut in *)
(* two, nor an update over a version on probation while it made .previous  *)
(* anew, a rollback of the agent puts back whole files of one version that *)
(* a report was accepted from (unless a version still on probation was     *)
(* replaced), and a version that was rolled back is never installed again  *)
(* (Undo-AgentUpdate, Save-AgentUpdate, Invoke-AgentUpdate).               *)
THEOREM RollbacksAreSafe == UpdateSpec => RollbackIsSafe
  <1>1. ASSUME UpdateInv, [NextUpdate]_updateVars, ~torn, ~bereft
        PROVE  /\ RestoreEnds /\ ~hasty => \E v \in proven : installed' = Whole(v)
               /\ \A f \in AgentFiles : installed'[f] \in rejected => installed'[f] = installed[f]
    <2>0. Clean
      BY <1>1 DEF Clean
    <2>1. CASE RestoreEnds
      <3>1. agentRun.pc = "restore" /\ installed' = installed
        BY <2>1 DEF RestoreEnds, Running
      <3>2. PICK w : w = previous["script"]
        OBVIOUS
      <3>3. installed' = Whole(w) /\ (hasty \/ w \in proven)
        BY <1>1, <2>0, <2>1, <3>1, <3>2, RestoreIs, RestoredIs
      <3> QED BY <3>1, <3>3
    <2>2. CASE Restores
      <3>1. agentRun.pc = "restore"
        BY <2>2 DEF Restores, Running
      <3>2. \A f \in AgentFiles : previous[f] \notin rejected
        BY <1>1, <2>0, <3>1, RestoredIs
      <3>3. PICK f \in AgentFiles : installed' = [installed EXCEPT ![f] = previous[f]]
        BY <2>2 DEF Restores
      <3>4. installed \in FilesOf(Versions)
        BY <1>1 DEF UpdateInv, UpdateTyped
      <3>5. \A g \in AgentFiles : installed'[g] \in {installed[g], previous[g]}
        BY <3>3, <3>4 DEF FilesOf
      <3>6. \A g \in AgentFiles : installed'[g] \in rejected => installed'[g] = installed[g]
        BY <3>2, <3>5
      <3>7. RestoreEnds => installed' = installed
        BY DEF RestoreEnds
      <3>8. ~RestoreEnds
        <4>1. PICK g \in AgentFiles : previous[g] \notin {NoVersion, installed[g]}
          BY <2>2 DEF Restores
        <4> QED BY <4>1 DEF RestoreEnds
      <3> QED BY <3>6, <3>8
    <2>3. CASE Swaps \/ AlreadyThere
      <3>1. /\ agentRun.pc = "swap" /\ \A f \in AgentFiles : installed'[f] \in {installed[f], agentRun.target}
        BY <1>1, <2>3, SwapIs
      <3>2. agentRun.target \notin rejected
        BY <1>1, <2>0, <3>1 DEF UpdateInv, Incoming, Bringing
      <3>3. ~RestoreEnds
        BY <3>1 DEF RestoreEnds, Running
      <3> QED BY <3>1, <3>2, <3>3
    <2>4. CASE ~RestoreEnds /\ ~Restores /\ ~(Swaps \/ AlreadyThere)
      <3>1. installed' = installed
        BY <1>1, <2>4 DEF NextUpdate, AgentRun, TaskFires, OnProbation, RollsBack, NothingToSettle, ReportAccepted,
                          CycleFails, CycleDies, NothingToInstall, Downloads, RemovesAside, CopiesAside,
                          NotesPending, Killed, Ships, updateVars
      <3> QED BY <2>4, <3>1
    <2> QED BY <2>1, <2>2, <2>3, <2>4
  <1> QED BY <1>1, UpdateStarts, UpdateKeeps, PTL DEF UpdateSpec, RollbackIsSafe

-----------------------------------------------------------------------------
(* The export.                                                             *)

Bundles == {"whole", "cut"}
ExportType == [pc : {"off", "bundle", "next", "verify"}, left : SUBSET Destinations, to : SUBSET Destinations,
               bundle : Bundles]

ExportsTyped ==
  /\ held \in [Destinations -> Seq(Bundles)] /\ export \in ExportType
  /\ failedAlert \in [Destinations -> BOOLEAN] /\ kept \subseteq Destinations

(* One destination at a time is read back, and something was copied there. *)
ReadBack ==
  /\ export.pc # "verify" => export.to = {}
  /\ export.pc = "verify" => \E d \in Destinations : export.to = {d} /\ held[d] # <<>>

IsKept(d) == \E i \in DOMAIN held[d] : held[d][i] = "whole"

(* A newest file that cannot be read back has its alert, or a run has the  *)
(* destination before it, or will have it once it is resumed.              *)
Told(d) ==
  held[d] # <<>> /\ held[d][1] = "cut" =>
    failedAlert[d] \/ exportHalf \/ (export.pc # "off" /\ d \in export.left \cup export.to)

ExportsInv ==
  ExportsTyped /\ ReadBack /\ (\A d \in kept : IsKept(d)) /\ (\A d \in Destinations : Told(d))

LEMMA InFront ==
  ASSUME NEW b \in Bundles, NEW s \in Seq(Bundles)
  PROVE  /\ <<b>> \o s \in Seq(Bundles) /\ <<b>> \o s # <<>> /\ (<<b>> \o s)[1] = b
         /\ (\E i \in DOMAIN s : s[i] = "whole") => \E i \in DOMAIN (<<b>> \o s) : (<<b>> \o s)[i] = "whole"
  <1>1. PICK t : t = <<b>> \o s
    OBVIOUS
  <1>2. /\ t \in Seq(Bundles) /\ Len(t) = Len(s) + 1 /\ t[1] = b
        /\ \A i \in 1..Len(s) : t[i + 1] = s[i]
    BY <1>1
  <1>3. DOMAIN s = 1..Len(s) /\ DOMAIN t = 1..Len(t) /\ Len(s) \in Nat
    BY <1>2
  <1>4. t # <<>>
    BY <1>2, <1>3
  <1>5. ASSUME NEW i \in DOMAIN s, s[i] = "whole" PROVE i + 1 \in DOMAIN t /\ t[i + 1] = "whole"
    BY <1>2, <1>3, <1>5
  <1> QED BY <1>1, <1>2, <1>4, <1>5

LEMMA PrunedIs ==
  ASSUME NEW s \in Seq(Bundles), s # <<>>
  PROVE  /\ Pruned(s, Retain) \in Seq(Bundles) /\ Pruned(s, Retain) # <<>>
         /\ Pruned(s, Retain)[1] = s[1] /\ 1 \in DOMAIN Pruned(s, Retain)
  <1>1. PICK n : n = IF Len(s) < Retain THEN Len(s) ELSE Retain
    OBVIOUS
  <1>2. Len(s) \in Nat \ {0} /\ Retain \in Nat \ {0}
    BY ExportsAssumption
  <1>3. n \in 1..Len(s)
    BY <1>1, <1>2
  <1>4. PICK t : t = SubSeq(s, 1, n)
    OBVIOUS
  <1>5. t \in Seq(Bundles) /\ Len(t) = n /\ t[1] = s[1]
    BY <1>2, <1>3, <1>4
  <1>6. Pruned(s, Retain) = t
    BY <1>1, <1>4, Zenon DEF Pruned
  <1>7. 1 \in DOMAIN t /\ t # <<>>
    BY <1>3, <1>5
  <1> QED BY <1>5, <1>6, <1>7

LEMMA ExportIs ==
  ASSUME ExportsInv
  PROVE  /\ export \in ExportType /\ export.left \subseteq Destinations /\ export.to \subseteq Destinations
         /\ export.bundle \in Bundles
         /\ \A d \in Destinations : held[d] \in Seq(Bundles)
  BY DEF ExportsInv, ExportsTyped, ExportType

(* A step of the run that leaves the destinations' bundles alone.          *)
LEMMA RunMoves ==
  ASSUME ExportsInv, held' = held, kept' = kept,
         failedAlert' \in [Destinations -> BOOLEAN], export' \in ExportType, ReadBack',
         \A d \in Destinations :
           failedAlert[d] \/ exportHalf \/ (export.pc # "off" /\ d \in export.left \cup export.to) =>
             \/ held[d] # <<>> /\ held[d][1] # "cut"
             \/ failedAlert'[d]
             \/ exportHalf'
             \/ (export'.pc # "off" /\ d \in export'.left \cup export'.to)
  PROVE  ExportsInv'
  <1>1. ExportsTyped'
    BY DEF ExportsInv, ExportsTyped
  <1>2. \A d \in kept' : IsKept(d)'
    BY DEF ExportsInv, IsKept
  <1>3. \A d \in Destinations : Told(d)'
    BY DEF ExportsInv, Told
  <1> QED BY <1>1, <1>2, <1>3 DEF ExportsInv

LEMMA ExportsStart == InitExports => ExportsInv
  <1> SUFFICES ASSUME InitExports PROVE ExportsInv
    OBVIOUS
  <1>1. /\ held = [d \in Destinations |-> <<>>] /\ export = NoExport /\ kept = {}
        /\ failedAlert = [d \in Destinations |-> FALSE]
    BY DEF InitExports
  <1>2. export \in ExportType /\ export.pc = "off" /\ export.to = {}
    BY <1>1 DEF NoExport, ExportType, Bundles
  <1>3. ExportsTyped
    BY <1>1, <1>2 DEF ExportsTyped, Bundles
  <1>4. \A d \in Destinations : held[d] = <<>>
    BY <1>1
  <1>5. \A d \in Destinations : Told(d)
    BY <1>4, Zenon DEF Told
  <1> QED BY <1>1, <1>2, <1>3, <1>5 DEF ExportsInv, ReadBack

LEMMA NoExportIs == NoExport \in ExportType /\ NoExport.pc = "off" /\ NoExport.to = {} /\ NoExport.left = {}
  BY DEF NoExport, ExportType, Bundles

LEMMA BeginsKeeps == ASSUME ExportsInv, ExportBegins PROVE ExportsInv'
  <1>1. /\ export' = [NoExport EXCEPT !.pc = "bundle", !.left = Destinations] /\ export.pc = "off"
        /\ exportHalf' = FALSE /\ UNCHANGED <<held, failedAlert, kept>>
    BY DEF ExportBegins, Exporting
  <1>2. export' \in ExportType /\ export'.pc = "bundle" /\ export'.left = Destinations /\ export'.to = {}
    BY <1>1 DEF NoExport, ExportType, Bundles
  <1>3. ReadBack'
    BY <1>2 DEF ReadBack
  <1>4. ExportsTyped
    BY DEF ExportsInv
  <1> QED BY <1>1, <1>2, <1>3, <1>4, RunMoves DEF ExportsTyped

LEMMA WrittenKeeps == ASSUME ExportsInv, BundleWritten PROVE ExportsInv'
  <1>1. PICK bundle \in Bundles : export' = [export EXCEPT !.pc = "next", !.bundle = bundle]
    BY DEF BundleWritten, Bundles
  <1>2. /\ export.pc = "bundle"
        /\ UNCHANGED <<held, exportHalf, failedAlert, kept>>
    BY DEF BundleWritten, Exporting
  <1>3. export' \in ExportType /\ export'.pc = "next" /\ export'.left = export.left /\ export'.to = export.to
    BY <1>1, ExportIs DEF ExportType
  <1>4. ExportsTyped /\ ReadBack
    BY DEF ExportsInv
  <1>5. ReadBack'
    BY <1>2, <1>3, <1>4 DEF ReadBack
  <1> QED BY <1>2, <1>3, <1>4, <1>5, RunMoves DEF ExportsTyped

LEMMA StopsKeep == ASSUME ExportsInv, ExportPauses \/ ExportDies \/ ExportEnds PROVE ExportsInv'
  <1>1. ExportsTyped /\ ReadBack
    BY DEF ExportsInv
  <1>2. /\ export' = NoExport /\ UNCHANGED <<held, failedAlert, kept>>
        /\ exportHalf' \/ (exportHalf' = exportHalf /\ export.pc = "next" /\ export.left = {})
    BY DEF ExportPauses, ExportDies, ExportEnds, Exporting
  <1>3. ReadBack'
    BY <1>2, NoExportIs DEF ReadBack
  <1>4. export.pc = "next" => export.to = {}
    BY <1>1 DEF ReadBack
  <1> QED BY <1>1, <1>2, <1>3, <1>4, NoExportIs, RunMoves DEF ExportsTyped

(* The day turns, somebody asks for a bundle or for a stop.                *)
LEMMA OthersKeepExports == ASSUME ExportsInv, NewDay \/ ManualExport \/ ExportStopped PROVE ExportsInv'
  <1>1. ExportsTyped /\ ReadBack
    BY DEF ExportsInv
  <1>2. UNCHANGED <<held, export, exportHalf, failedAlert, kept>>
    BY DEF NewDay, ManualExport, ExportStopped
  <1>3. ReadBack'
    BY <1>1, <1>2 DEF ReadBack
  <1> QED BY <1>1, <1>2, <1>3, RunMoves DEF ExportsTyped

LEMMA CopyKeeps == ASSUME ExportsInv, NEW d \in Destinations, Copies(d) PROVE ExportsInv'
  <1>0. export.bundle \in Bundles /\ "cut" \in Bundles
    BY ExportIs DEF Bundles
  <1>1. PICK bundle \in Bundles : held' = [held EXCEPT ![d] = <<bundle>> \o held[d]]
    BY <1>0, ExportIs DEF Copies, ExportsInv, ExportsTyped
  <1>2. /\ export.pc = "next" /\ d \in export.left
        /\ export' = [export EXCEPT !.pc = "verify", !.left = export.left \ {d}, !.to = {d}]
        /\ UNCHANGED <<exportHalf, failedAlert, kept>>
    BY DEF Copies, Exporting
  <1>3. export' \in ExportType /\ export'.pc = "verify" /\ export'.left = export.left \ {d} /\ export'.to = {d}
    BY <1>2, ExportIs DEF ExportType
  <1>4. PICK new : new = <<bundle>> \o held[d]
    OBVIOUS
  <1>5. /\ new \in Seq(Bundles) /\ new # <<>>
        /\ (\E i \in DOMAIN held[d] : held[d][i] = "whole") => \E i \in DOMAIN new : new[i] = "whole"
    BY <1>1, <1>4, ExportIs, InFront
  <1>6. /\ held' \in [Destinations -> Seq(Bundles)] /\ held'[d] = new
        /\ \A o \in Destinations : o # d => held'[o] = held[o]
    BY <1>1, <1>4, <1>5, ExportIs DEF ExportsInv, ExportsTyped
  <1>7. ExportsTyped'
    BY <1>2, <1>3, <1>6 DEF ExportsInv, ExportsTyped
  <1>8. ReadBack'
    BY <1>3, <1>5, <1>6 DEF ReadBack
  <1>9. ASSUME NEW o \in kept' PROVE IsKept(o)'
    <2>1. o \in Destinations /\ IsKept(o)
      BY <1>2, <1>9 DEF ExportsInv, ExportsTyped
    <2> QED BY <2>1, <1>5, <1>6 DEF IsKept
  <1>10. ASSUME NEW o \in Destinations PROVE Told(o)'
    <2>1. Told(o) /\ export.to = {}
      BY <1>2 DEF ExportsInv, ReadBack
    <2>2. CASE o = d
      BY <1>3, <2>2 DEF Told
    <2>3. CASE o # d
      BY <1>2, <1>3, <1>6, <2>1, <2>3 DEF Told
    <2> QED BY <2>2, <2>3
  <1> QED BY <1>7, <1>8, <1>9, <1>10 DEF ExportsInv

LEMMA NoCopyKeeps == ASSUME ExportsInv, NEW d \in Destinations, CannotCopy(d) PROVE ExportsInv'
  <1>1. /\ export.pc = "next" /\ failedAlert' = [failedAlert EXCEPT ![d] = TRUE]
        /\ export' = [export EXCEPT !.left = export.left \ {d}]
        /\ UNCHANGED <<held, exportHalf, kept>>
    BY DEF CannotCopy, Exporting
  <1>2. export' \in ExportType /\ export'.pc = "next" /\ export'.left = export.left \ {d} /\ export'.to = export.to
    BY <1>1, ExportIs DEF ExportType
  <1>3. ExportsTyped /\ ReadBack
    BY DEF ExportsInv
  <1>4. /\ failedAlert' \in [Destinations -> BOOLEAN] /\ failedAlert'[d]
        /\ \A o \in Destinations : failedAlert[o] => failedAlert'[o]
    BY <1>1, <1>3 DEF ExportsTyped
  <1>5. ReadBack'
    BY <1>1, <1>2, <1>3 DEF ReadBack
  <1> QED BY <1>1, <1>2, <1>3, <1>4, <1>5, RunMoves DEF ExportsTyped

LEMMA RefusesKeeps == ASSUME ExportsInv, NEW d \in Destinations, VerifyRefuses(d) PROVE ExportsInv'
  <1>1. /\ export.pc = "verify" /\ d \in export.to /\ failedAlert' = [failedAlert EXCEPT ![d] = TRUE]
        /\ export' = [export EXCEPT !.pc = "next", !.to = {}]
        /\ UNCHANGED <<held, exportHalf, kept>>
    BY DEF VerifyRefuses, Fails, Exporting
  <1>2. export' \in ExportType /\ export'.pc = "next" /\ export'.left = export.left /\ export'.to = {}
    BY <1>1, ExportIs DEF ExportType
  <1>3. ExportsTyped /\ ReadBack
    BY DEF ExportsInv
  <1>4. /\ failedAlert' \in [Destinations -> BOOLEAN] /\ failedAlert'[d]
        /\ \A o \in Destinations : failedAlert[o] => failedAlert'[o]
    BY <1>1, <1>3 DEF ExportsTyped
  <1>5. ReadBack'
    BY <1>2 DEF ReadBack
  <1>6. export.to = {d}
    BY <1>1, <1>3 DEF ReadBack
  <1> QED BY <1>1, <1>2, <1>3, <1>4, <1>5, <1>6, RunMoves DEF ExportsTyped

(* Only a destination whose newest bundle is whole is pruned, so that one  *)
(* stays.                                                                  *)
LEMMA AcceptsKeeps == ASSUME ExportsInv, NEW d \in Destinations, VerifyAccepts(d) PROVE ExportsInv'
  <1>1. /\ export.pc = "verify" /\ d \in export.to /\ held[d][1] = "whole"
        /\ held' = [held EXCEPT ![d] = Pruned(held[d], Retain)]
        /\ failedAlert' = [failedAlert EXCEPT ![d] = FALSE] /\ kept' = kept \cup {d}
        /\ export' = [export EXCEPT !.pc = "next", !.to = {}]
        /\ UNCHANGED exportHalf
    BY DEF VerifyAccepts, Exporting
  <1>2. export' \in ExportType /\ export'.pc = "next" /\ export'.left = export.left /\ export'.to = {}
    BY <1>1, ExportIs DEF ExportType
  <1>3. ExportsTyped /\ ReadBack
    BY DEF ExportsInv
  <1>4. export.to = {d} /\ held[d] # <<>> /\ held[d] \in Seq(Bundles)
    BY <1>1, <1>3, ExportIs DEF ReadBack
  <1>5. PICK new : new = Pruned(held[d], Retain)
    OBVIOUS
  <1>6. new \in Seq(Bundles) /\ new[1] = "whole" /\ 1 \in DOMAIN new
    BY <1>1, <1>4, <1>5, PrunedIs
  <1>7. /\ held' \in [Destinations -> Seq(Bundles)] /\ held'[d] = new
        /\ \A o \in Destinations : o # d => held'[o] = held[o]
    BY <1>1, <1>3, <1>5, <1>6 DEF ExportsTyped
  <1>8. /\ failedAlert' \in [Destinations -> BOOLEAN]
        /\ \A o \in Destinations : o # d => failedAlert'[o] = failedAlert[o]
    BY <1>1, <1>3 DEF ExportsTyped
  <1>9. ExportsTyped'
    BY <1>1, <1>2, <1>3, <1>7, <1>8 DEF ExportsTyped
  <1>10. ReadBack'
    BY <1>2 DEF ReadBack
  <1>11. ASSUME NEW o \in kept' PROVE IsKept(o)'
    <2>1. CASE o = d
      BY <1>6, <1>7, <2>1 DEF IsKept
    <2>2. CASE o # d
      <3>1. o \in Destinations /\ IsKept(o)
        BY <1>1, <1>11, <2>2 DEF ExportsInv, ExportsTyped
      <3> QED BY <1>7, <2>2, <3>1 DEF IsKept
    <2> QED BY <2>1, <2>2
  <1>12. ASSUME NEW o \in Destinations PROVE Told(o)'
    <2>1. CASE o = d
      BY <1>6, <1>7, <2>1 DEF Told
    <2>2. CASE o # d
      <3>1. Told(o)
        BY DEF ExportsInv
      <3> QED BY <1>1, <1>2, <1>4, <1>7, <1>8, <2>2, <3>1 DEF Told
    <2> QED BY <2>1, <2>2
  <1> QED BY <1>9, <1>10, <1>11, <1>12 DEF ExportsInv

LEMMA ExportsKeep == ASSUME ExportsInv, [NextExports]_exportVars PROVE ExportsInv'
  <1>1. CASE UNCHANGED exportVars
    BY <1>1 DEF exportVars, ExportsInv, ExportsTyped, ReadBack, IsKept, Told
  <1>2. CASE ExportBegins
    BY <1>2, BeginsKeeps
  <1>3. CASE BundleWritten
    BY <1>3, WrittenKeeps
  <1>4. CASE ExportPauses \/ ExportDies \/ ExportEnds
    BY <1>4, StopsKeep
  <1>5. CASE NewDay \/ ManualExport \/ ExportStopped
    BY <1>5, OthersKeepExports
  <1>6. ASSUME NEW d \in Destinations, Copies(d) PROVE ExportsInv'
    BY <1>6, CopyKeeps
  <1>7. ASSUME NEW d \in Destinations, CannotCopy(d) PROVE ExportsInv'
    BY <1>7, NoCopyKeeps
  <1>8. ASSUME NEW d \in Destinations, VerifyRefuses(d) PROVE ExportsInv'
    BY <1>8, RefusesKeeps
  <1>9. ASSUME NEW d \in Destinations, VerifyAccepts(d) PROVE ExportsInv'
    BY <1>9, AcceptsKeeps
  <1> QED BY <1>1, <1>2, <1>3, <1>4, <1>5, <1>6, <1>7, <1>8, <1>9 DEF NextExports, ExportRun

(* Pruning counts files by age and never looks inside them, and failed     *)
(* copies leave files that count: for every number of destinations, of     *)
(* bundles to keep, of stops, deaths and copies gone wrong, a destination  *)
(* that once had a verified bundle keeps a whole one, and when no run is   *)
(* under way or to be resumed one whose newest file cannot be read back    *)
(* has its alert open (export-backup.ts, pruneBundles).                    *)
THEOREM DestinationsStayHonest == ExportsSpec => []DestinationsAreHonest
  <1>1. ExportsInv => DestinationsAreHonest
    BY DEF ExportsInv, DestinationsAreHonest, IsKept, Told, Exporting
  <1> QED BY <1>1, ExportsStart, ExportsKeep, PTL DEF ExportsSpec

(* A destination has what it retains, one file more for every mishap, and  *)
(* while it is read back the bundle that just came; the data directory     *)
(* what a run leaves there, one more for every mishap and the run's own,   *)
(* unless that was cut by the stop it has already counted.                 *)
BeingRead(d) == export.pc = "verify" /\ d \in export.to /\ held[d][1] = "whole"
Fits(d) ==
  /\ Len(held[d]) <= Retain + mishaps + 1
  /\ ~BeingRead(d) => Len(held[d]) <= Retain + mishaps

StagingFits ==
  /\ Len(staging) <= StagingRetain + mishaps + 1
  /\ export.pc \in {"off", "bundle"} \/ stopExport => Len(staging) <= StagingRetain + mishaps
  /\ export.pc = "bundle" /\ stopExport => Len(staging) < StagingRetain + mishaps

Counted ==
  /\ staging \in Seq(Bundles) /\ stopExport \in BOOLEAN /\ mishaps \in 0..MaxMishaps
  /\ stopExport => export.pc # "off"
  /\ export.pc \in {"next", "verify"} /\ ~stopExport => export.bundle = "whole"
  /\ StagingFits
  /\ \A d \in Destinations : Fits(d)

LEMMA LongerByOne ==
  ASSUME NEW b \in Bundles, NEW s \in Seq(Bundles)
  PROVE  <<b>> \o s \in Seq(Bundles) /\ Len(<<b>> \o s) = Len(s) + 1 /\ (<<b>> \o s)[1] = b
  <1>1. PICK t : t = <<b>> \o s
    OBVIOUS
  <1>2. t \in Seq(Bundles) /\ Len(t) = Len(s) + 1 /\ t[1] = b
    BY <1>1
  <1> QED BY <1>1, <1>2

LEMMA PrunedFits ==
  ASSUME NEW s \in Seq(Bundles), NEW n \in Nat
  PROVE  Pruned(s, n) \in Seq(Bundles) /\ Len(Pruned(s, n)) <= n
  <1>1. PICK k : k = IF Len(s) < n THEN Len(s) ELSE n
    OBVIOUS
  <1>2. k \in 0..Len(s) /\ k <= n
    BY <1>1
  <1>3. PICK t : t = SubSeq(s, 1, k)
    OBVIOUS
  <1>4. t \in Seq(Bundles) /\ Len(t) = k
    BY <1>2, <1>3
  <1>5. Pruned(s, n) = t
    BY <1>1, <1>3, Zenon DEF Pruned
  <1> QED BY <1>2, <1>4, <1>5

LEMMA CountsAre ==
  ASSUME ExportsInv, Counted
  PROVE  /\ Len(staging) \in Nat /\ mishaps \in Nat /\ MaxMishaps \in Nat /\ Retain \in Nat
         /\ \A d \in Destinations : Len(held[d]) \in Nat
  BY ExportIs, ExportsAssumption DEF Counted

LEMMA CountedAtStart == InitExports => Counted
  <1> SUFFICES ASSUME InitExports PROVE Counted
    OBVIOUS
  <1>1. /\ staging = <<>> /\ held = [d \in Destinations |-> <<>>] /\ export.pc = "off"
        /\ ~stopExport /\ stopExport \in BOOLEAN /\ mishaps = 0
    BY DEF InitExports, NoExport
  <1>2. Len(staging) = 0 /\ \A d \in Destinations : Len(held[d]) = 0
    BY <1>1
  <1>3. StagingFits /\ mishaps \in 0..MaxMishaps
    BY <1>1, <1>2, ExportsAssumption DEF StagingFits, StagingRetain
  <1>4. \A d \in Destinations : Fits(d)
    BY <1>1, <1>2, ExportsAssumption DEF Fits
  <1> QED BY <1>1, <1>3, <1>4 DEF Counted

(* A step of the run that leaves the destinations' bundles alone: who is   *)
(* no longer read back has no room to lose, or a mishap makes it up.       *)
LEMMA RoomStays ==
  ASSUME ExportsInv, Counted, held' = held, mishaps' \in 0..MaxMishaps,
         \/ mishaps' = mishaps + 1
         \/ mishaps' = mishaps /\ \A d \in Destinations : ~BeingRead(d)
         \/ mishaps' = mishaps /\ export' = export
  PROVE  \A d \in Destinations : Fits(d)'
  <1> SUFFICES ASSUME NEW d \in Destinations PROVE Fits(d)'
    OBVIOUS
  <1>1. Fits(d)
    BY DEF Counted
  <1> QED BY <1>1, CountsAre DEF Fits, BeingRead

LEMMA RunIsCounted ==
  ASSUME ExportsInv, Counted, ExportBegins \/ BundleWritten \/ ExportPauses \/ ExportEnds
  PROVE  Counted'
  <1>1. held' = held /\ mishaps' = mishaps /\ mishaps \in 0..MaxMishaps /\ export.pc # "verify"
    BY DEF ExportBegins, BundleWritten, ExportPauses, ExportEnds, Exporting, Counted
  <1>2. \A d \in Destinations : Fits(d)'
    BY <1>1, RoomStays DEF BeingRead
  <1>3. export \in ExportType
    BY ExportIs
  <1>4. CASE ExportBegins
    <2>1. export'.pc = "bundle"
      BY <1>4 DEF ExportBegins, NoExport
    <2> QED BY <1>1, <1>2, <1>4, <2>1 DEF ExportBegins, Exporting, Counted, StagingFits
  <1>5. CASE BundleWritten
    <2>1. PICK bundle \in Bundles :
             /\ bundle = (IF stopExport THEN "cut" ELSE "whole")
             /\ staging' = <<bundle>> \o staging /\ export' = [export EXCEPT !.pc = "next", !.bundle = bundle]
      BY <1>5 DEF BundleWritten, Bundles
    <2>2. export'.pc = "next" /\ export'.bundle = bundle
      BY <1>3, <2>1 DEF ExportType
    <2>3. staging' \in Seq(Bundles) /\ Len(staging') = Len(staging) + 1
      BY <2>1, LongerByOne DEF Counted
    <2>4. export.pc = "bundle" /\ stopExport' = stopExport
      BY <1>5 DEF BundleWritten, Exporting
    <2> QED BY <1>1, <1>2, <2>1, <2>2, <2>3, <2>4, CountsAre DEF Counted, StagingFits, StagingRetain
  <1>6. CASE ExportPauses
    <2>1. export.pc = "next" /\ stopExport /\ export'.pc = "off" /\ stopExport' = FALSE /\ staging' = staging
      BY <1>6, NoExportIs DEF ExportPauses, Exporting
    <2> QED BY <1>1, <1>2, <2>1, CountsAre DEF Counted, StagingFits, StagingRetain
  <1>7. CASE ExportEnds
    <2>1. export'.pc = "off" /\ ~stopExport' /\ stopExport' \in BOOLEAN /\ staging' = Pruned(staging, StagingRetain)
      BY <1>7, NoExportIs DEF ExportEnds
    <2>2. staging' \in Seq(Bundles) /\ Len(staging') \in Nat /\ Len(staging') <= StagingRetain
      BY <2>1, PrunedFits DEF Counted, StagingRetain
    <2>3. StagingFits'
      BY <1>1, <2>1, <2>2 DEF StagingFits, StagingRetain
    <2> QED BY <1>1, <1>2, <2>1, <2>2, <2>3 DEF Counted
  <1> QED BY <1>4, <1>5, <1>6, <1>7

LEMMA OthersAreCounted ==
  ASSUME ExportsInv, Counted, NewDay \/ ManualExport \/ ExportStopped \/ ExportDies
  PROVE  Counted'
  <1>1. held' = held
    BY DEF NewDay, ManualExport, ExportStopped, ExportDies
  <1>2. mishaps' \in 0..MaxMishaps /\ (mishaps' = mishaps + 1 \/ (NewDay /\ mishaps' = mishaps))
    BY CountsAre DEF NewDay, ManualExport, ExportStopped, ExportDies, Mishap, Counted
  <1>3. NewDay => export' = export
    BY DEF NewDay
  <1>4. \A d \in Destinations : Fits(d)'
    BY <1>1, <1>2, <1>3, RoomStays
  <1>5. CASE NewDay
    BY <1>2, <1>4, <1>5, CountsAre DEF NewDay, Counted, StagingFits, StagingRetain
  <1>6. CASE ManualExport
    <2>1. staging' \in Seq(Bundles) /\ Len(staging') = Len(staging) + 1
      BY <1>6, LongerByOne DEF ManualExport, Counted, Bundles
    <2>2. UNCHANGED <<export, stopExport>> /\ mishaps' = mishaps + 1
      BY <1>6 DEF ManualExport, Mishap
    <2> QED BY <1>2, <1>4, <2>1, <2>2, CountsAre DEF Counted, StagingFits, StagingRetain
  <1>7. CASE ExportStopped
    <2>1. /\ UNCHANGED <<export, staging>> /\ mishaps' = mishaps + 1
          /\ export.pc # "off" /\ stopExport' = TRUE /\ stopExport = FALSE
      BY <1>7 DEF ExportStopped, Mishap, Exporting, Counted
    <2> QED BY <1>2, <1>4, <2>1, CountsAre DEF Counted, StagingFits, StagingRetain
  <1>8. CASE ExportDies
    <2>1. /\ export'.pc = "off" /\ ~stopExport' /\ stopExport' \in BOOLEAN /\ mishaps' = mishaps + 1
          /\ staging' = IF export.pc = "bundle" THEN <<"cut">> \o staging ELSE staging
      BY <1>8, NoExportIs DEF ExportDies, Mishap, Exporting
    <2>2. /\ staging' \in Seq(Bundles)
          /\ Len(staging') = IF export.pc = "bundle" THEN Len(staging) + 1 ELSE Len(staging)
      BY <2>1, LongerByOne DEF Counted, Bundles
    <2>3. StagingFits'
      <3>1. StagingFits /\ mishaps \in Nat /\ Len(staging) \in Nat
        BY CountsAre DEF Counted
      <3>2. CASE export.pc = "bundle"
        BY <2>1, <2>2, <3>1, <3>2 DEF StagingFits, StagingRetain
      <3>3. CASE export.pc # "bundle"
        BY <2>1, <2>2, <3>1, <3>3 DEF StagingFits, StagingRetain
      <3> QED BY <3>2, <3>3
    <2> QED BY <1>2, <1>4, <2>1, <2>2, <2>3 DEF Counted
  <1> QED BY <1>5, <1>6, <1>7, <1>8

(* A step about one destination, whose bundles fit; the others' stay.      *)
LEMMA OneIsCounted ==
  ASSUME ExportsInv, Counted, NEW d \in Destinations, NEW new \in Seq(Bundles),
         held' = [held EXCEPT ![d] = new],
         \/ Len(new) <= Retain + mishaps'
         \/ /\ export'.pc = "verify" /\ d \in export'.to /\ new[1] = "whole"
            /\ Len(new) <= Retain + mishaps' + 1,
         export.to \subseteq {d}, export.pc \in {"next", "verify"}, export'.pc \in {"next", "verify"},
         export'.bundle = export.bundle, UNCHANGED <<staging, stopExport>>,
         mishaps' \in {mishaps, mishaps + 1}, mishaps' \in 0..MaxMishaps
  PROVE  Counted'
  <1>1. held \in [Destinations -> Seq(Bundles)]
    BY DEF ExportsInv, ExportsTyped
  <1>2. held'[d] = new /\ \A o \in Destinations : o # d => held'[o] = held[o]
    BY <1>1
  <1>3. ASSUME NEW o \in Destinations PROVE Fits(o)'
    <2>1. CASE o = d
      <3>1. Len(new) \in Nat /\ Retain + mishaps' \in Nat
        BY CountsAre
      <3> QED BY <1>2, <2>1, <3>1 DEF Fits, BeingRead
    <2>2. CASE o # d
      <3>1. Fits(o) /\ ~BeingRead(o)
        BY <2>2 DEF Counted, BeingRead
      <3> QED BY <1>2, <2>2, <3>1, CountsAre DEF Fits
    <2> QED BY <2>1, <2>2
  <1>4. StagingFits'
    BY CountsAre DEF Counted, StagingFits, StagingRetain
  <1> QED BY <1>3, <1>4 DEF Counted

LEMMA DestinationsAreCounted ==
  ASSUME ExportsInv, Counted, NEW d \in Destinations,
         Copies(d) \/ CannotCopy(d) \/ VerifyRefuses(d) \/ VerifyAccepts(d)
  PROVE  Counted'
  <1>1. /\ export \in ExportType /\ export.bundle \in Bundles /\ held[d] \in Seq(Bundles)
        /\ held \in [Destinations -> Seq(Bundles)] /\ ReadBack
        /\ Fits(d) /\ mishaps \in 0..MaxMishaps
    BY ExportIs DEF ExportsInv, ExportsTyped, Counted
  <1>2. UNCHANGED <<staging, stopExport>> /\ mishaps' \in {mishaps, mishaps + 1} /\ mishaps' \in 0..MaxMishaps
    BY CountsAre DEF Copies, CannotCopy, VerifyRefuses, VerifyAccepts, Fails, Mishap, Counted
  <1>3. CASE Copies(d)
    <2>1. PICK bundle \in Bundles :
             /\ held' = [held EXCEPT ![d] = <<bundle>> \o held[d]]
             /\ bundle = "whole" \/ mishaps' = mishaps + 1
      <3>1. ~stopExport /\ export.bundle = "whole"
        BY <1>3 DEF Copies, Exporting, Counted
      <3> QED BY <1>3, <3>1 DEF Copies, Mishap, Bundles
    <2>2. /\ export.pc = "next" /\ export'.pc = "verify" /\ export'.to = {d} /\ export'.bundle = export.bundle
      BY <1>1, <1>3 DEF Copies, Exporting, ExportType
    <2>3. PICK new \in Seq(Bundles) : new = <<bundle>> \o held[d] /\ Len(new) = Len(held[d]) + 1 /\ new[1] = bundle
      BY <1>1, <2>1, LongerByOne
    <2>4. Len(held[d]) <= Retain + mishaps
      BY <1>1, <2>2 DEF Fits, BeingRead
    <2>5. Len(new) <= Retain + mishaps' + 1 /\ (new[1] = "whole" \/ Len(new) <= Retain + mishaps')
      BY <1>2, <2>1, <2>3, <2>4, CountsAre
    <2>6. d \in export'.to
      BY <2>2
    <2>7. export.to \subseteq {d}
      BY <1>1, <2>2 DEF ReadBack
    <2> QED BY <1>2, <2>1, <2>2, <2>3, <2>5, <2>6, <2>7, OneIsCounted
  <1>4. CASE CannotCopy(d)
    <2>1. /\ export.pc = "next" /\ export'.pc = "next" /\ export'.bundle = export.bundle
          /\ mishaps' = mishaps + 1 /\ held' = held
      BY <1>1, <1>4 DEF CannotCopy, Exporting, Mishap, ExportType
    <2>2. held' = [held EXCEPT ![d] = held[d]] /\ export.to \subseteq {d}
      BY <1>1, <2>1 DEF ReadBack
    <2>3. Len(held[d]) <= Retain + mishaps'
      BY <1>1, <2>1, CountsAre DEF Fits, BeingRead
    <2> QED BY <1>1, <1>2, <2>1, <2>2, <2>3, OneIsCounted
  <1>5. CASE VerifyRefuses(d)
    <2>1. /\ export.pc = "verify" /\ d \in export.to /\ held[d][1] = "cut" /\ held' = held
          /\ export'.pc = "next" /\ export'.bundle = export.bundle /\ mishaps' = mishaps
      BY <1>1, <1>5 DEF VerifyRefuses, Fails, Exporting, ExportType
    <2>2. held' = [held EXCEPT ![d] = held[d]] /\ export.to \subseteq {d}
      BY <1>1, <2>1 DEF ReadBack
    <2>3. Len(held[d]) <= Retain + mishaps'
      BY <1>1, <2>1, CountsAre DEF Fits, BeingRead
    <2> QED BY <1>1, <1>2, <2>1, <2>2, <2>3, OneIsCounted
  <1>6. CASE VerifyAccepts(d)
    <2>1. /\ export.pc = "verify" /\ d \in export.to /\ held' = [held EXCEPT ![d] = Pruned(held[d], Retain)]
          /\ export'.pc = "next" /\ export'.bundle = export.bundle /\ mishaps' = mishaps
      BY <1>1, <1>6 DEF VerifyAccepts, Exporting, ExportType
    <2>2. export.to \subseteq {d}
      BY <1>1, <2>1 DEF ReadBack
    <2>3. Pruned(held[d], Retain) \in Seq(Bundles) /\ Len(Pruned(held[d], Retain)) <= Retain
      BY <1>1, PrunedFits, CountsAre
    <2>4. Len(Pruned(held[d], Retain)) <= Retain + mishaps'
      BY <2>1, <2>3, CountsAre
    <2> QED BY <1>2, <2>1, <2>2, <2>3, <2>4, OneIsCounted
  <1> QED BY <1>3, <1>4, <1>5, <1>6

LEMMA CountedKeeps == ASSUME ExportsInv, Counted, [NextExports]_exportVars PROVE Counted'
  <1>1. CASE UNCHANGED exportVars
    BY <1>1 DEF exportVars, Counted, Fits, StagingFits, BeingRead
  <1>2. CASE ExportBegins \/ BundleWritten \/ ExportPauses \/ ExportEnds
    BY <1>2, RunIsCounted
  <1>3. CASE NewDay \/ ManualExport \/ ExportStopped \/ ExportDies
    BY <1>3, OthersAreCounted
  <1>4. ASSUME NEW d \in Destinations, Copies(d) \/ CannotCopy(d) \/ VerifyRefuses(d) \/ VerifyAccepts(d)
        PROVE  Counted'
    BY <1>4, DestinationsAreCounted
  <1> QED BY <1>1, <1>2, <1>3, <1>4 DEF NextExports, ExportRun

(* A destination never has more bundles than it retains, one for every     *)
(* copy that went wrong, stop or death, and the one that is being read     *)
(* back, though a failed copy is never pruned by itself; and the data      *)
(* directory no more than its own limit allows (export-backup.ts).         *)
THEOREM ExportsTypeCorrect == ExportsSpec => []ExportsTypeOK
  <1>1. ASSUME ExportsInv, Counted PROVE ExportsTypeOK
    <2>1. \A d \in Destinations : held[d] \in Seq(Bundles) /\ Len(held[d]) <= Retain + MaxMishaps + 1
      BY <1>1, ExportIs, CountsAre DEF Counted, Fits
    <2>2. staging \in Seq(Bundles) /\ Len(staging) <= StagingRetain + MaxMishaps + 1
      BY <1>1, CountsAre DEF Counted, StagingFits, StagingRetain
    <2> QED BY <1>1, <2>1, <2>2 DEF ExportsTypeOK, ExportsInv, ExportsTyped, ExportType, Bundles
  <1> QED BY <1>1, ExportsStart, ExportsKeep, CountedAtStart, CountedKeeps, PTL DEF ExportsSpec

-----------------------------------------------------------------------------
(* The verification of a backup.                                           *)

Entries == Expected \cup OtherEntries
VerifyType ==
  [pc : {"off", "snapshots", "list", "compare"}, listed : SUBSET Entries, toList : SUBSET Entries]

(* Nothing is listed before a snapshot is chosen, so what is still to be   *)
(* listed of it and what was listed are apart.                             *)
VerifyTyped ==
  /\ VerifyTypeOK /\ verify \in VerifyType
  /\ verify.pc \in {"off", "snapshots"} => verify.listed = {}

LEMMA NoVerifyIs == NoVerify \in VerifyType /\ NoVerify.listed = {} /\ NoVerify.toList = {}
  BY DEF NoVerify, VerifyType

LEMMA RefusedKeeps == ASSUME VerifyTyped, Refused, UNCHANGED <<present, snapshot>> PROVE VerifyTyped'
  BY NoVerifyIs DEF VerifyTyped, VerifyTypeOK, Refused, VerifyType

LEMMA VerifyRunKeeps == ASSUME VerifyTyped, VerifyRun PROVE VerifyTyped'
  <1>1. CASE VerifyBegins
    <2>1. verify' \in VerifyType /\ verify'.listed = {} /\ verify'.toList = {}
      BY <1>1, NoVerifyIs DEF VerifyBegins, VerifyType
    <2> QED BY <1>1, <2>1 DEF VerifyBegins, VerifyTyped, VerifyTypeOK, VerifyType
  <1>2. CASE FindsSnapshot
    <2>1. snapshot.has \subseteq Entries
      BY DEF VerifyTyped, VerifyTypeOK, Entries
    <2>2. verify.listed = {} /\ verify' = [verify EXCEPT !.pc = "list", !.toList = snapshot.has]
      BY <1>2 DEF FindsSnapshot, Verifying, VerifyTyped
    <2> QED BY <1>2, <2>1, <2>2 DEF FindsSnapshot, VerifyTyped, VerifyTypeOK, VerifyType, Entries
  <1>3. CASE KopiaFails
    BY <1>3, RefusedKeeps DEF KopiaFails
  <1>4. CASE ListsChunk
    <2>1. PICK f \in verify.toList : verify' = [verify EXCEPT !.listed = @ \cup {f}, !.toList = @ \ {f}]
      BY <1>4 DEF ListsChunk
    <2>2. verify \in VerifyType /\ verify.pc = "list"
      BY <1>4 DEF ListsChunk, Verifying, VerifyTyped
    <2>3. /\ verify'.pc = "list" /\ verify'.listed = verify.listed \cup {f} /\ verify'.toList = verify.toList \ {f}
          /\ verify' \in VerifyType
      BY <2>1, <2>2 DEF VerifyType
    <2> QED BY <1>4, <2>3 DEF ListsChunk, VerifyTyped, VerifyTypeOK
  <1>5. CASE ListingEnds
    BY <1>5 DEF ListingEnds, VerifyTyped, VerifyTypeOK, VerifyType
  <1>6. CASE RefusesEmpty
    BY <1>6, RefusedKeeps DEF RefusesEmpty
  <1>7. CASE Compares
    <2>1. PICK checked \in IF stopVerify THEN SUBSET present ELSE {present} :
             /\ verdict' = checked \ verify.listed /\ lostRow' = FALSE
             /\ backupAlerts' = Synced(checked \ verify.listed) \cup Aged
      BY <1>7 DEF Compares
    <2>2. checked \subseteq Expected
      BY <2>1 DEF VerifyTyped, VerifyTypeOK
    <2>3. backupAlerts' \subseteq {"missing", "stale-snapshot", "error"}
      BY <2>1 DEF Synced, Aged
    <2> QED BY <1>7, <2>1, <2>2, <2>3, NoVerifyIs DEF Compares, VerifyTyped, VerifyTypeOK, VerifyType
  <1> QED BY <1>1, <1>2, <1>3, <1>4, <1>5, <1>6, <1>7 DEF VerifyRun

(* A run lists entries of the snapshot, none of them twice, judges the     *)
(* expected files only, and leaves no other kind of alert than the three   *)
(* (backup-verify.ts).                                                     *)
THEOREM VerifyTypeCorrect == VerifySpec => []VerifyTypeOK
  <1>1. InitVerify => VerifyTyped
    <2> SUFFICES ASSUME InitVerify PROVE VerifyTyped
      OBVIOUS
    <2>1. /\ verify \in VerifyType /\ verify.listed = {} /\ verify.toList = {} /\ verify.pc = "off"
          /\ snapshot.has = Expected
      BY NoVerifyIs DEF InitVerify, NoVerify
    <2> QED BY <2>1 DEF InitVerify, VerifyTyped, VerifyTypeOK
  <1>2. ASSUME VerifyTyped, [NextVerify]_verifyVars PROVE VerifyTyped'
    <2>1. CASE VerifyRun
      BY <1>2, <2>1, VerifyRunKeeps
    <2>2. CASE VerifyStopped \/ IntervalPasses \/ CatalogChanges \/ SnapshotTaken
      BY <1>2, <2>2
      DEF VerifyStopped, IntervalPasses, CatalogChanges, SnapshotTaken, VerifyTyped, VerifyTypeOK, VerifyType, Entries
    <2>3. CASE VerifyDies
      BY <1>2, <2>3, NoVerifyIs DEF VerifyDies, VerifyTyped, VerifyTypeOK, VerifyType
    <2>4. CASE UNCHANGED verifyVars
      BY <1>2, <2>4 DEF verifyVars, VerifyTyped, VerifyTypeOK, VerifyType
    <2> QED BY <1>2, <2>1, <2>2, <2>3, <2>4 DEF NextVerify
  <1> QED BY <1>1, <1>2, PTL DEF VerifySpec, VerifyTyped

=============================================================================
