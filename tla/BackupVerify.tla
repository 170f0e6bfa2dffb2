---------------------------- MODULE BackupVerify ----------------------------
(***************************************************************************)
(* Verification of a backup (backup-verify.ts, backup-service.ts, kopia-   *)
(* client.ts) for one expectation: the newest snapshot's files are listed  *)
(* into a table, chunk by chunk as Kopia prints them, and then every file  *)
(* of the catalog that the rules expect is looked up in it.  The listing   *)
(* awaits; the comparison is one synchronous step.                         *)
(***************************************************************************)
EXTENDS Naturals, Sequences, FiniteSets

CONSTANTS
    Expected,    \* files that match the expectation's globs and size
    OtherEntries, \* what else a snapshot may hold
    SnapshotDirectories, \* of those, the ones that are no files
    MaxEntries,  \* maxEntriesPerSnapshot
    MaxChanges,  \* bound: changes of the catalog and new snapshots
    MaxTroubles  \* bound: refusals of Kopia, listings cut short, stops, deaths

ASSUME VerifyAssumption ==
  /\ Expected # {} /\ Expected \cap OtherEntries = {} /\ SnapshotDirectories \subseteq OtherEntries
  /\ MaxEntries \in Nat \ {0} /\ MaxChanges \in Nat /\ MaxTroubles \in Nat

VARIABLES
    present,     \* the expected files the catalog has
    snapshot,    \* the newest snapshot: the entries it has, and its age
    verify,      \* the run: its step, what is listed and what is still to be
    verifyDue,   \* verifyIntervalHours have passed, or a run is to be resumed
    stopVerify,  \* the run was asked to stop
    verdict,     \* the missing files of the newest row of backup_runs that has a result
    lostRow,     \* a newer row was left by a run that died, with no error and no result
    backupAlerts,\* the open alerts: missing, stale-snapshot, error
    changes, troubles  \* ghost: counters for the bounds

verifyVars == <<present, snapshot, verify, verifyDue, stopVerify, verdict, lostRow, backupAlerts, changes, troubles>>

NoVerify == [pc |-> "off", listed |-> {}, toList |-> {}]
Verifying(pc) == verify.pc = pc

Trouble == troubles < MaxTroubles /\ troubles' = troubles + 1

Held == Expected \cap snapshot.has

-----------------------------------------------------------------------------
VerifyBegins ==
  /\ Verifying("off") /\ verifyDue
  /\ verify' = [NoVerify EXCEPT !.pc = "snapshots"]
  /\ UNCHANGED <<present, snapshot, verifyDue, stopVerify, verdict, lostRow, backupAlerts, changes, troubles>>

\* The catch block and what follows: the row gets the error, the other two
\* alerts are left as they are.  The next expectation's turn, or the end.
Refused ==
  /\ UNCHANGED <<verdict, lostRow>>
  /\ backupAlerts' = backupAlerts \cup {"error"}
  /\ verify' = NoVerify /\ verifyDue' = FALSE

\* kopia snapshot list: the command fails or knows no snapshot, or the newest
\* one is taken.
FindsSnapshot ==
  /\ Verifying("snapshots")
  /\ verify' = [verify EXCEPT !.pc = "list", !.toList = snapshot.has]
  /\ UNCHANGED <<present, snapshot, verifyDue, stopVerify, verdict, lostRow, backupAlerts, changes, troubles>>

KopiaFails ==
  /\ Verifying("snapshots")
  /\ Trouble /\ Refused
  /\ UNCHANGED <<present, snapshot, stopVerify, changes>>

LimitReached == Cardinality(verify.listed) >= MaxEntries

\* kopia ls streams the entries of that snapshot, files and directories.
ListsChunk ==
  /\ Verifying("list") /\ verify.toList # {} /\ ~stopVerify /\ ~LimitReached
  /\ \E f \in verify.toList :
       verify' = [verify EXCEPT !.listed = @ \cup {f}, !.toList = @ \ {f}]
  /\ UNCHANGED <<present, snapshot, verifyDue, stopVerify, verdict, lostRow, backupAlerts, changes, troubles>>

\* The stream ends: everything was printed, or a stop was noticed, or the limit
\* was reached, as it is whenever this snapshot is listed, or the program died,
\* whose exit code nobody asks for.
ListingEnds ==
  /\ Verifying("list")
  /\ \/ (verify.toList = {} \/ stopVerify \/ LimitReached) /\ UNCHANGED troubles
     \/ verify.toList # {} /\ Trouble
  /\ verify' = [verify EXCEPT !.pc = "compare", !.toList = {}]
  /\ UNCHANGED <<present, snapshot, verifyDue, stopVerify, verdict, lostRow, backupAlerts, changes>>

\* entryCount === 0: no file was listed, expected or not.
EmptyListing == Verifying("compare") /\ verify.listed \subseteq SnapshotDirectories

RefusesEmpty ==
  /\ EmptyListing
  /\ Refused
  /\ UNCHANGED <<present, snapshot, stopVerify, changes, troubles>>

\* Mutant of Synced: the alert is raised and never resolved.
SyncedUpwards(missing) ==
  IF missing # {} \/ "missing" \in backupAlerts THEN {"missing"} ELSE {}

\* syncAlert()
Synced(missing) == IF missing # {} THEN {"missing"} ELSE {}

\* The snapshot's age has an alert of its own.
Aged == IF snapshot.old THEN {"stale-snapshot"} ELSE {}

\* Every 5,000 files a stop is looked for: the rest then goes unchecked, and
\* the run ends like any other.
Compares ==
  /\ Verifying("compare") /\ ~EmptyListing
  /\ \E checked \in IF stopVerify THEN SUBSET present ELSE {present} :
       LET missing == checked \ verify.listed
       IN /\ verdict' = missing /\ lostRow' = FALSE
          /\ backupAlerts' = Synced(missing) \cup Aged
  /\ verify' = NoVerify /\ verifyDue' = FALSE /\ stopVerify' = FALSE
  /\ UNCHANGED <<present, snapshot, changes, troubles>>

VerifyStopped ==
  /\ ~Verifying("off") /\ ~stopVerify /\ Trouble
  /\ stopVerify' = TRUE
  /\ UNCHANGED <<present, snapshot, verify, verifyDue, verdict, lostRow, backupAlerts, changes>>

\* The row stays as it was written when the run began, the newest one that has
\* no error: what listIssues() and summary() then show is nothing missing.
VerifyDies ==
  /\ ~Verifying("off") /\ Trouble
  /\ verify' = NoVerify /\ stopVerify' = FALSE
  /\ UNCHANGED <<present, snapshot, verifyDue, verdict, lostRow, backupAlerts, changes>>

IntervalPasses ==
  /\ Verifying("off") /\ ~verifyDue
  /\ verifyDue' = TRUE /\ stopVerify' = FALSE
  /\ UNCHANGED <<present, snapshot, verify, verdict, lostRow, backupAlerts, changes, troubles>>

Change == changes < MaxChanges /\ changes' = changes + 1

CatalogChanges ==
  /\ Change
  /\ present' \in SUBSET Expected
  /\ UNCHANGED <<snapshot, verify, verifyDue, stopVerify, verdict, lostRow, backupAlerts, troubles>>

\* Kopia, on its own schedule; a listing under way is of the snapshot it asked for.
SnapshotTaken ==
  /\ Change /\ ~Verifying("list") /\ ~Verifying("compare")
  /\ snapshot' \in [has : SUBSET (Expected \cup OtherEntries), old : BOOLEAN]
  /\ UNCHANGED <<present, verify, verifyDue, stopVerify, verdict, lostRow, backupAlerts, troubles>>

InitVerify ==
  /\ present = Expected /\ snapshot = [has |-> Expected, old |-> FALSE]
  /\ verify = NoVerify /\ verifyDue = TRUE /\ stopVerify = FALSE
  /\ verdict = {} /\ lostRow = FALSE /\ backupAlerts = {} /\ changes = 0 /\ troubles = 0

VerifyRun ==
  \/ VerifyBegins \/ FindsSnapshot \/ KopiaFails \/ ListsChunk \/ ListingEnds \/ RefusesEmpty \/ Compares

NextVerify ==
  VerifyRun \/ VerifyStopped \/ VerifyDies \/ IntervalPasses \/ CatalogChanges \/ SnapshotTaken

VerifySpec == InitVerify /\ [][NextVerify]_verifyVars

-----------------------------------------------------------------------------
VerifyTypeOK ==
  /\ present \subseteq Expected
  /\ verify.pc \in {"off", "snapshots", "list", "compare"}
  /\ verify.listed \cap verify.toList = {}
  /\ verify.listed \cup verify.toList \cup snapshot.has \subseteq Expected \cup OtherEntries
  /\ verdict \subseteq Expected /\ lostRow \in BOOLEAN
  /\ backupAlerts \subseteq {"missing", "stale-snapshot", "error"}

(* Whatever troubles came before, once they are over and nothing changes   *)
(* any more an alert says so if the snapshot lacks an expected file, and   *)
(* the alerts tell exactly what it lacks and how old it is, if it holds a  *)
(* file and has no more entries than the limit.  Beyond the limit the      *)
(* files that were not listed count as missing, whether it has them or not.*)
VerdictCatchesUp ==
  <>[](/\ present \subseteq Held \/ backupAlerts \cap {"missing", "error"} # {}
       /\ Cardinality(snapshot.has) <= MaxEntries /\ ~(snapshot.has \subseteq SnapshotDirectories)
            => backupAlerts = (IF present \subseteq Held THEN {} ELSE {"missing"}) \cup Aged)
=============================================================================
