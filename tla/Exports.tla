------------------------------ MODULE Exports -------------------------------
(***************************************************************************)
(* The automatic export (export-backup.ts, export-service.ts): once a day  *)
(* a bundle of the whole state is written to the data directory, copied to *)
(* every destination, read back, recorded, and older bundles are pruned.   *)
(* A bundle is "whole" or "cut", which only reading it back tells.  The    *)
(* service may die and a run may be stopped between any two steps.         *)
(***************************************************************************)
EXTENDS Naturals, Sequences

CONSTANTS
    Destinations, \* the enabled destinations
    Retain,       \* bundles a destination keeps
    MaxMishaps    \* bound: copies that go wrong, stops and deaths of the service

ASSUME ExportsAssumption == Retain \in Nat \ {0} /\ MaxMishaps \in Nat

StagingRetain == 3

VARIABLES
    staging,   \* the bundles in the data directory, newest first
    held,      \* of each destination: its bundles, newest first
    export,    \* the run: its step, the destinations left, the one it reads back
    exportDue, \* the daily run is due
    exportHalf,\* a run was paused or interrupted and will be resumed
    stopExport,\* the run was asked to stop
    failedAlert,\* of each destination: export:<id>:failed is open
    kept,      \* ghost: destinations that have had a verified bundle
    mishaps    \* ghost: mishaps so far, for the bound

exportVars == <<staging, held, export, exportDue, exportHalf, stopExport, failedAlert, kept, mishaps>>

NoExport == [pc |-> "off", left |-> {}, to |-> {}, bundle |-> "cut"]
Exporting(pc) == export.pc = pc

Pruned(bundles, retain) == SubSeq(bundles, 1, IF Len(bundles) < retain THEN Len(bundles) ELSE retain)

Mishap == mishaps < MaxMishaps /\ mishaps' = mishaps + 1

-----------------------------------------------------------------------------
ExportBegins ==
  /\ Exporting("off") /\ (exportDue \/ exportHalf)
  /\ export' = [NoExport EXCEPT !.pc = "bundle", !.left = Destinations]
  /\ exportHalf' = FALSE
  /\ UNCHANGED <<staging, held, exportDue, stopExport, failedAlert, kept, mishaps>>

\* export() pages through every table.  A stop ends the stream early, and what
\* is there by then is closed as a bundle.
BundleWritten ==
  /\ Exporting("bundle")
  /\ LET bundle == IF stopExport THEN "cut" ELSE "whole"
     IN staging' = <<bundle>> \o staging /\ export' = [export EXCEPT !.pc = "next", !.bundle = bundle]
  /\ UNCHANGED <<held, exportDue, exportHalf, stopExport, failedAlert, kept, mishaps>>

ExportPauses ==
  /\ Exporting("next") /\ stopExport /\ export.left # {}
  /\ export' = NoExport /\ stopExport' = FALSE /\ exportHalf' = TRUE
  /\ UNCHANGED <<staging, held, exportDue, failedAlert, kept, mishaps>>

\* The copy arrives, whole or not, and will be read back.
Copies(d) ==
  /\ Exporting("next") /\ ~stopExport /\ d \in export.left
  /\ \/ held' = [held EXCEPT ![d] = <<export.bundle>> \o @] /\ UNCHANGED mishaps
     \/ Mishap /\ held' = [held EXCEPT ![d] = <<"cut">> \o @]
  /\ export' = [export EXCEPT !.pc = "verify", !.left = @ \ {d}, !.to = {d}]
  /\ UNCHANGED <<staging, exportDue, exportHalf, stopExport, failedAlert, kept>>

\* Mutant of Fails: pruning is done whether the copy was good or not.
FailsAndPrunes(d) ==
  /\ held' = [held EXCEPT ![d] = Pruned(@, Retain)]
  /\ failedAlert' = [failedAlert EXCEPT ![d] = TRUE]
  /\ export' = [export EXCEPT !.pc = "next", !.to = {}]
  /\ UNCHANGED <<staging, exportDue, exportHalf, stopExport, kept>>

\* The catch block: the record carries the error, the alert is raised and the
\* run goes on to the next destination.
Fails(d) ==
  /\ failedAlert' = [failedAlert EXCEPT ![d] = TRUE]
  /\ export' = [export EXCEPT !.pc = "next", !.to = {}]
  /\ UNCHANGED <<staging, held, exportDue, exportHalf, stopExport, kept>>

\* The destination is not there or is full before anything is written.
CannotCopy(d) ==
  /\ Exporting("next") /\ ~stopExport /\ d \in export.left
  /\ Mishap
  /\ failedAlert' = [failedAlert EXCEPT ![d] = TRUE]
  /\ export' = [export EXCEPT !.left = @ \ {d}]
  /\ UNCHANGED <<staging, held, exportDue, exportHalf, stopExport, kept>>

VerifyRefuses(d) ==
  /\ Exporting("verify") /\ d \in export.to /\ held[d][1] = "cut"
  /\ Fails(d)
  /\ UNCHANGED mishaps

\* Recorded as verified, older bundles pruned, the alert resolved.
VerifyAccepts(d) ==
  /\ Exporting("verify") /\ d \in export.to /\ held[d][1] = "whole"
  /\ held' = [held EXCEPT ![d] = Pruned(@, Retain)]
  /\ failedAlert' = [failedAlert EXCEPT ![d] = FALSE]
  /\ kept' = kept \cup {d}
  /\ export' = [export EXCEPT !.pc = "next", !.to = {}]
  /\ UNCHANGED <<staging, exportDue, exportHalf, stopExport, mishaps>>

\* Completed, failures or not: there is no other run that day.
ExportEnds ==
  /\ Exporting("next") /\ export.left = {}
  /\ staging' = Pruned(staging, StagingRetain)
  /\ export' = NoExport /\ stopExport' = FALSE /\ exportDue' = FALSE
  /\ UNCHANGED <<held, exportHalf, failedAlert, kept, mishaps>>

\* Bound: a run is over before the next day's is due.
NewDay ==
  /\ Exporting("off") /\ ~exportHalf /\ ~exportDue
  /\ exportDue' = TRUE
  /\ UNCHANGED <<staging, held, export, exportHalf, stopExport, failedAlert, kept, mishaps>>

\* Somebody asks for a bundle to download: it joins the data directory, where
\* the next run prunes by age.
ManualExport ==
  /\ Mishap
  /\ staging' = <<"whole">> \o staging
  /\ UNCHANGED <<held, export, exportDue, exportHalf, stopExport, failedAlert, kept>>

ExportStopped ==
  /\ ~Exporting("off") /\ ~stopExport /\ Mishap
  /\ stopExport' = TRUE
  /\ UNCHANGED <<staging, held, export, exportDue, exportHalf, failedAlert, kept>>

\* What was being written stays where it is, under its final name.
ExportDies ==
  /\ ~Exporting("off") /\ Mishap
  /\ staging' = IF Exporting("bundle") THEN <<"cut">> \o staging ELSE staging
  /\ export' = NoExport /\ stopExport' = FALSE /\ exportHalf' = TRUE
  /\ UNCHANGED <<held, exportDue, failedAlert, kept>>

InitExports ==
  /\ staging = <<>> /\ held = [d \in Destinations |-> <<>>]
  /\ export = NoExport /\ exportDue = TRUE /\ exportHalf = FALSE /\ stopExport = FALSE
  /\ failedAlert = [d \in Destinations |-> FALSE] /\ kept = {} /\ mishaps = 0

ExportRun ==
  \/ ExportBegins \/ BundleWritten \/ ExportPauses \/ ExportEnds
  \/ \E d \in Destinations : Copies(d) \/ CannotCopy(d) \/ VerifyRefuses(d) \/ VerifyAccepts(d)

NextExports == ExportRun \/ NewDay \/ ManualExport \/ ExportStopped \/ ExportDies

ExportsSpec == InitExports /\ [][NextExports]_exportVars

-----------------------------------------------------------------------------
\* A destination has no more than it retains and what a mishap left there.
ExportsTypeOK ==
  /\ \A d \in Destinations : held[d] \in Seq({"whole", "cut"}) /\ Len(held[d]) <= Retain + MaxMishaps + 1
  /\ staging \in Seq({"whole", "cut"}) /\ Len(staging) <= StagingRetain + MaxMishaps + 1
  /\ export \in [pc : {"off", "bundle", "next", "verify"}, left : SUBSET Destinations, to : SUBSET Destinations,
                 bundle : {"whole", "cut"}]
  /\ failedAlert \in [Destinations -> BOOLEAN] /\ kept \subseteq Destinations

(* Pruning counts files by age and never looks inside them, and failed     *)
(* copies leave files that count: a destination that once had a verified   *)
(* bundle has a whole one at every later moment all the same.  And when no *)
(* run is under way or to be resumed, a destination whose newest file      *)
(* cannot be read back has its alert open.                                 *)
DestinationsAreHonest ==
  /\ \A d \in kept : \E i \in DOMAIN held[d] : held[d][i] = "whole"
  /\ Exporting("off") /\ ~exportHalf
       => \A d \in Destinations : held[d] # <<>> /\ held[d][1] = "cut" => failedAlert[d]
=============================================================================
