----------------------------- MODULE SelfUpdate -----------------------------
(***************************************************************************)
(* The agent replaces itself (SakuraDriveAgent.ps1 from Resolve-           *)
(* AgentUpdateState on, the distribution functions of SakuraDrive.Agent.   *)
(* psm1, agent-dist.ts).  The scheduled task runs the files it finds; a    *)
(* run settles the last update, reports, and asks the server for the       *)
(* current version.  A run can be killed at any step.  An installation is  *)
(* two files, enough for one to be new and the other old.                  *)
(***************************************************************************)
EXTENDS Naturals

CONSTANTS
    Versions,    \* what the server may ship, in the order it ships it: 1..n
    Quality,     \* of a version: "works", "throws" in its cycle, or "dies" in it
    MixedWorks,  \* the quality of files of two versions side by side
    MaxProbation, \* runs a version on probation is given; 2
    MaxFaults    \* bound: reports that fail for the network, and runs that are killed

ASSUME SelfUpdateAssumption ==
  /\ Versions \subseteq Nat \ {0} /\ 1 \in Versions
  /\ Quality \in [Versions -> {"works", "throws", "dies"}] /\ Quality[1] = "works"
  /\ MaxProbation \in Nat \ {0} /\ MaxFaults \in Nat

AgentFiles == {"script", "module"}
NoVersion == 0

VARIABLES
    shipped,   \* the version of the server's distribution
    installed, \* the version of each file in the install directory
    previous,  \* the same for .previous; NoVersion: there is none
    updateState, \* update-state.json
    agentRun,  \* the run of the scheduled task: its step and the code it loaded
    proven,    \* ghost: versions a report was accepted from
    rejected,  \* ghost: versions that were rolled back
    torn,      \* ghost: a run was killed between the first file and the state file
    hasty,     \* ghost: .previous was given up while a version was on probation
    bereft,    \* ghost: a run was killed with .previous half made, a version on probation
    faults     \* ghost: faults so far, for the bound

excuses == <<torn, hasty, bereft>>
updateVars == <<shipped, installed, previous, updateState, agentRun, proven, rejected, excuses, faults>>

StateFile(version, stage, previousVersion, blocked) ==
  [version |-> version, stage |-> stage, attempts |-> 0, previousVersion |-> previousVersion,
   blocked |-> blocked]
\* Without the file a run has no state; written as a state of no version.
NoState == StateFile(NoVersion, "confirmed", NoVersion, NoVersion)

Whole(v) == [f \in AgentFiles |-> v]
NotRunning == [pc |-> "off", code |-> Whole(NoVersion), target |-> NoVersion]
Running(pc) == agentRun.pc = pc
GoesTo(pc) == agentRun' = [agentRun EXCEPT !.pc = pc]

\* What the loaded code does when it runs its cycle.
Behaves ==
  IF \E v \in Versions : agentRun.code = Whole(v) THEN Quality[agentRun.code["script"]] ELSE MixedWorks

-----------------------------------------------------------------------------
TaskFires ==
  /\ Running("off")
  /\ agentRun' = [pc |-> "settle", code |-> installed, target |-> NoVersion]
  /\ UNCHANGED <<shipped, installed, previous, updateState, proven, rejected, excuses, faults>>

\* Resolve-AgentUpdateOutcome
Outcome ==
  IF updateState.stage # "pending" THEN "ok"
  ELSE IF updateState.attempts >= MaxProbation THEN "rollback" ELSE "verify"

OnProbation ==
  /\ Running("settle") /\ Outcome = "verify"
  /\ updateState' = [updateState EXCEPT !.attempts = @ + 1]
  /\ GoesTo("cycle")
  /\ UNCHANGED <<shipped, installed, previous, proven, rejected, excuses, faults>>

\* A version that failed goes, if .previous holds anything to put back; else
\* it stays and is asked no more.
RollsBack ==
  /\ Running("settle") /\ Outcome = "rollback"
  /\ \/ previous # Whole(NoVersion) /\ GoesTo("restore") /\ UNCHANGED updateState
     \/ /\ previous = Whole(NoVersion) /\ GoesTo("cycle")
        /\ updateState' = [updateState EXCEPT !.stage = "confirmed"]
  /\ UNCHANGED <<shipped, installed, previous, proven, rejected, excuses, faults>>

\* The files of .previous go back one by one ...
Restores ==
  /\ Running("restore")
  /\ \E f \in AgentFiles :
       /\ previous[f] \notin {NoVersion, installed[f]}
       /\ installed' = [installed EXCEPT ![f] = previous[f]]
  /\ UNCHANGED <<shipped, previous, updateState, agentRun, proven, rejected, excuses, faults>>

\* ... and the version that failed is blocked; the run goes on in the code it
\* loaded.  A rollback that was cut is done again: the state is still pending.
RestoreEnds ==
  /\ Running("restore")
  /\ \A f \in AgentFiles : previous[f] \in {NoVersion, installed[f]}
  /\ updateState' = StateFile(updateState.previousVersion, "confirmed", NoVersion, updateState.version)
  /\ rejected' = rejected \cup {updateState.version}
  /\ GoesTo("cycle")
  /\ UNCHANGED <<shipped, installed, previous, proven, excuses, faults>>

NothingToSettle ==
  /\ Running("settle") /\ Outcome = "ok"
  /\ GoesTo("cycle")
  /\ UNCHANGED <<shipped, installed, previous, updateState, proven, rejected, excuses, faults>>

\* Mutant of ReportAccepted: confirmed as soon as the cycle starts, the report refused or not.
ConfirmsAnyway ==
  /\ Running("cycle")
  /\ updateState' = IF updateState.stage = "pending" THEN [updateState EXCEPT !.stage = "confirmed", !.attempts = 0] ELSE updateState
  /\ proven' = IF Behaves = "works" THEN proven \cup {agentRun.code["script"]} ELSE proven
  /\ GoesTo(IF Behaves = "dies" THEN "off" ELSE "check")
  /\ UNCHANGED <<shipped, installed, previous, rejected, excuses, faults>>

\* A report is accepted: the running version is on probation no longer.
ReportAccepted ==
  /\ Running("cycle") /\ Behaves = "works"
  /\ updateState' = IF updateState.stage = "pending" THEN [updateState EXCEPT !.stage = "confirmed", !.attempts = 0] ELSE updateState
  /\ proven' = proven \cup {agentRun.code["script"]}
  /\ GoesTo("check")
  /\ UNCHANGED <<shipped, installed, previous, rejected, excuses, faults>>

\* The cycle throws, of itself or because the server did not answer; the
\* update check comes all the same.
CycleFails ==
  /\ Running("cycle")
  /\ \/ Behaves = "throws" /\ UNCHANGED faults
     \/ Behaves = "works" /\ faults < MaxFaults /\ faults' = faults + 1
  /\ GoesTo("check")
  /\ UNCHANGED <<shipped, installed, previous, updateState, proven, rejected, excuses>>

CycleDies ==
  /\ Running("cycle") /\ Behaves = "dies"
  /\ agentRun' = NotRunning
  /\ UNCHANGED <<shipped, installed, previous, updateState, proven, rejected, excuses, faults>>

\* The manifest: nothing new, a version that was rolled back, or files that
\* were copied in by hand and match.
NothingToInstall ==
  /\ Running("check")
  /\ shipped \in {updateState.version, updateState.blocked} \/ (updateState.version = NoVersion /\ installed = Whole(shipped))
  /\ updateState' = IF updateState.version = NoVersion /\ installed = Whole(shipped)
              THEN StateFile(shipped, "confirmed", NoVersion, NoVersion) ELSE updateState
  /\ agentRun' = NotRunning
  /\ UNCHANGED <<shipped, installed, previous, proven, rejected, excuses, faults>>

\* Every file arrives, hashes and parses: .staging may be installed.  A
\* download that fails ends the run with nothing touched.
Downloads ==
  /\ Running("check")
  /\ shipped \notin {updateState.version, updateState.blocked}
  /\ ~(updateState.version = NoVersion /\ installed = Whole(shipped))
  /\ \/ agentRun' = [agentRun EXCEPT !.pc = "aside", !.target = shipped] /\ UNCHANGED faults
     \/ faults < MaxFaults /\ faults' = faults + 1 /\ agentRun' = NotRunning
  /\ UNCHANGED <<shipped, installed, previous, updateState, proven, rejected, excuses>>

\* Save-AgentUpdate removes the .previous there is ...
RemovesAside ==
  /\ Running("aside")
  /\ \E f \in AgentFiles :
       /\ previous[f] # NoVersion
       /\ previous' = [previous EXCEPT ![f] = NoVersion]
  /\ hasty' = (hasty \/ updateState.stage = "pending")
  /\ UNCHANGED <<shipped, installed, updateState, agentRun, proven, rejected, torn, bereft, faults>>

\* Mutant of CopiesAside: the swap first, so .previous is what was installed.
CopiesAsideLate ==
  /\ Running("copy") \/ (Running("aside") /\ previous = Whole(NoVersion))
  /\ previous' = Whole(agentRun.target)
  /\ hasty' = (hasty \/ updateState.stage = "pending")
  /\ GoesTo("swap")
  /\ UNCHANGED <<shipped, installed, updateState, proven, rejected, torn, bereft, faults>>

\* ... copies the installed files there ...
CopiesAside ==
  /\ Running("copy") \/ (Running("aside") /\ previous = Whole(NoVersion))
  /\ \E f \in AgentFiles :
       /\ previous[f] = NoVersion
       /\ previous' = [previous EXCEPT ![f] = installed[f]]
       /\ GoesTo(IF \E g \in AgentFiles \ {f} : previous[g] = NoVersion THEN "copy" ELSE "swap")
  /\ hasty' = (hasty \/ updateState.stage = "pending")
  /\ UNCHANGED <<shipped, installed, updateState, proven, rejected, torn, bereft, faults>>

\* ... then the new ones in, one by one ...
Swaps ==
  /\ Running("swap")
  /\ \E f \in AgentFiles :
       /\ installed[f] # agentRun.target
       /\ installed' = [installed EXCEPT ![f] = agentRun.target]
       /\ GoesTo(IF \A g \in AgentFiles \ {f} : installed[g] = agentRun.target THEN "note" ELSE "swap")
  /\ UNCHANGED <<shipped, previous, updateState, proven, rejected, excuses, faults>>

AlreadyThere ==
  /\ Running("swap") /\ installed = Whole(agentRun.target)
  /\ GoesTo("note")
  /\ UNCHANGED <<shipped, installed, previous, updateState, proven, rejected, excuses, faults>>

\* ... and writes down that the version is on probation; the run exits.
NotesPending ==
  /\ Running("note")
  /\ updateState' = StateFile(agentRun.target, "pending", updateState.version, NoVersion)
  /\ agentRun' = NotRunning
  /\ UNCHANGED <<shipped, installed, previous, proven, rejected, excuses, faults>>

\* The host reboots, the task is stopped or a copy fails, at any step.
Killed ==
  /\ ~Running("off") /\ faults < MaxFaults
  /\ faults' = faults + 1
  /\ torn' = (torn \/ Running("swap") \/ Running("note"))
  /\ bereft' = (bereft \/ (agentRun.pc \in {"aside", "copy"} /\ hasty /\ updateState.stage = "pending"))
  /\ agentRun' = NotRunning
  /\ UNCHANGED <<shipped, installed, previous, updateState, proven, rejected, hasty>>

\* A deployment; a run keeps the manifest and the files that it has fetched.
Ships ==
  /\ shipped + 1 \in Versions
  /\ shipped' = shipped + 1
  /\ UNCHANGED <<installed, previous, updateState, agentRun, proven, rejected, excuses, faults>>

InitUpdate ==
  /\ shipped = 1 /\ installed = Whole(1) /\ previous = Whole(NoVersion)
  /\ updateState \in {NoState, StateFile(1, "confirmed", NoVersion, NoVersion)}
  /\ agentRun = NotRunning /\ proven = {1} /\ rejected = {} /\ faults = 0
  /\ torn = FALSE /\ hasty = FALSE /\ bereft = FALSE

AgentRun ==
  \/ TaskFires \/ OnProbation \/ RollsBack \/ Restores \/ RestoreEnds \/ NothingToSettle
  \/ ReportAccepted \/ CycleFails \/ CycleDies
  \/ NothingToInstall \/ Downloads \/ RemovesAside \/ CopiesAside \/ Swaps \/ AlreadyThere \/ NotesPending

NextUpdate == AgentRun \/ Killed \/ Ships

\* The scheduled task fires again and again and a run goes on.
UpdateFairness == WF_updateVars(AgentRun)

UpdateSpec == InitUpdate /\ [][NextUpdate]_updateVars /\ UpdateFairness
-----------------------------------------------------------------------------
UpdateTypeOK ==
  /\ shipped \in Versions
  /\ {installed, previous, agentRun.code} \subseteq [AgentFiles -> Versions \cup {NoVersion}]
  /\ updateState \in [version : Versions \cup {NoVersion}, stage : {"confirmed", "pending"},
                attempts : 0..MaxProbation, previousVersion : Versions \cup {NoVersion},
                blocked : Versions \cup {NoVersion}]
  /\ agentRun.pc \in {"off", "settle", "restore", "cycle", "check", "aside", "copy", "swap", "note"}
  /\ proven \subseteq Versions /\ rejected \subseteq Versions /\ {torn, hasty, bereft} \subseteq BOOLEAN

(* Undo-AgentUpdate's comment: a rollback gets back to the code that was   *)
(* working, whole files of one version that a report was accepted from,    *)
(* however often it is cut, and a version that was rolled back is not      *)
(* installed again, however long the server goes on shipping it.  Three    *)
(* exceptions, of which the comment says nothing: a swap that was cut, an  *)
(* update over a version still on probation, which .previous then holds,   *)
(* and one of those cut while it made .previous anew.                      *)
RollbackIsSafe ==
  [][~torn /\ ~bereft
       => /\ RestoreEnds /\ ~hasty => \E v \in proven : installed' = Whole(v)
          /\ \A f \in AgentFiles : installed'[f] \in rejected => installed'[f] = installed[f]]_updateVars

(* Whatever broke in between, a version that did not work or a run that    *)
(* was killed, a host ends up with the last version shipped, if that one   *)
(* works, and confirms it.  Two exceptions: a swap that was cut in two,    *)
(* and a version whose reports failed for the network until it was blocked. *)
HostCatchesUp ==
  <>[](Quality[shipped] = "works" /\ ~torn /\ shipped \notin rejected
         => installed = Whole(shipped) /\ updateState.version = shipped /\ updateState.stage = "confirmed")
=============================================================================
