----------------------------- MODULE MCServices -----------------------------
(* The components that share no state with the engine or the scans, each   *)
(* on its own: a behaviour picks one of them and the others stand still,   *)
(* the ones with several initial states in one of those.                   *)
EXTENDS ScanRoots, Reports, Delivery, SelfUpdate, Exports, BackupVerify,
        Benchmark, PoolFigures, CatalogHistory, PoolMembers, Configuration, Schedule

CONSTANTS d1, d2  \* the disks of ScanRoots, of which d1 is a member of the pool

VARIABLE component  \* the one that moves

MCRoots == {d1, d2}
MCSettled == {<<d1, d2>>}
MCLeaving == {<<d1, "late">>}

MCObserved == {{Attribute, Temperature, Latency}, {Latency, Uncached}, {Attribute, FreeSpace, Dirty},
               {PoolSpace, PartMissing, Stale}, {FreeSpace, PartMissing, Unreadable}}
MCWatched == {Attribute}
MCBenches == <<"b1", "b2", "b3">>
MCMayMeasure == [b \in {"b1", "b2", "b3"} |-> IF b = "b1" THEN {"fast", "slow", "error", "skipped"} ELSE {"fast"}]
MCPoolParts == <<"r1", "r2">>
MCDeviceReported == [r \in {"r1", "r2"} |-> "disk"]
MCFirstRows == <<{"r1", "r2"}, {"r1"}>>
MCCopiesAsked == <<1, 2>>
MCDiskOfMember == [m \in {"m1", "m2", "m3"} |-> IF m = "m3" THEN "diskB" ELSE "diskA"]
MCFirstHeld == [m \in {"m1", "m2", "m3"} |-> IF m = "m3" THEN {} ELSE {"p"}]
MCFolders == {<<>>, <<"a">>, <<"a", "b">>, <<"a", "b", "c">>, <<"d">>}
MCFirstLevels == [f \in MCFolders |-> IF f = <<>> THEN 1 ELSE IF f = <<"a">> THEN 2 ELSE 0]
MCQuality == <<"works", "throws", "dies", "works">>
MCEndOfNight == [d \in 0..1 |-> 3 - d]

InitServices ==
  /\ component \in {"roots", "reports", "delivery", "update", "exports", "verify", "bench",
                   "figures", "history", "members", "settings", "schedule"}
  /\ Init /\ InitReports /\ InitDelivery /\ InitUpdate /\ InitExports /\ InitVerify /\ InitBench
     /\ InitFigures /\ InitHistory /\ InitMembers /\ InitConfiguration /\ InitSchedule
  /\ component # "reports" => AlertKeys = {Attribute, FreeSpace, Dirty}
  /\ component # "update" => updateState.version = 1
  /\ component # "members" => \A d \in PoolDisks : poolDisks[d].letter

\* One component moves, the others stand still.
NextServices ==
  \/ /\ component = "roots" /\ Next
     /\ UNCHANGED <<component, reportVars, deliveryVars, updateVars, exportVars, verifyVars,
                   benchVars, figureVars, historyVars, memberVars, configVars, scheduleVars>>
  \/ /\ component = "reports" /\ NextReports
     /\ UNCHANGED <<component, vars, deliveryVars, updateVars, exportVars, verifyVars, benchVars,
                   figureVars, historyVars, memberVars, configVars, scheduleVars>>
  \/ /\ component = "delivery" /\ NextDelivery
     /\ UNCHANGED <<component, vars, reportVars, updateVars, exportVars, verifyVars, benchVars,
                   figureVars, historyVars, memberVars, configVars, scheduleVars>>
  \/ /\ component = "update" /\ NextUpdate
     /\ UNCHANGED <<component, vars, reportVars, deliveryVars, exportVars, verifyVars, benchVars,
                   figureVars, historyVars, memberVars, configVars, scheduleVars>>
  \/ /\ component = "exports" /\ NextExports
     /\ UNCHANGED <<component, vars, reportVars, deliveryVars, updateVars, verifyVars, benchVars,
                   figureVars, historyVars, memberVars, configVars, scheduleVars>>
  \/ /\ component = "verify" /\ NextVerify
     /\ UNCHANGED <<component, vars, reportVars, deliveryVars, updateVars, exportVars, benchVars,
                   figureVars, historyVars, memberVars, configVars, scheduleVars>>
  \/ /\ component = "bench" /\ NextBench
     /\ UNCHANGED <<component, vars, reportVars, deliveryVars, updateVars, exportVars, verifyVars,
                   figureVars, historyVars, memberVars, configVars, scheduleVars>>
  \/ /\ component = "figures" /\ NextFigures
     /\ UNCHANGED <<component, vars, reportVars, deliveryVars, updateVars, exportVars, verifyVars,
                   benchVars, historyVars, memberVars, configVars, scheduleVars>>
  \/ /\ component = "history" /\ NextHistory
     /\ UNCHANGED <<component, vars, reportVars, deliveryVars, updateVars, exportVars, verifyVars,
                   benchVars, figureVars, memberVars, configVars, scheduleVars>>
  \/ /\ component = "members" /\ NextMembers
     /\ UNCHANGED <<component, vars, reportVars, deliveryVars, updateVars, exportVars, verifyVars,
                   benchVars, figureVars, historyVars, configVars, scheduleVars>>
  \/ /\ component = "settings" /\ NextConfiguration
     /\ UNCHANGED <<component, vars, reportVars, deliveryVars, updateVars, exportVars, verifyVars,
                   benchVars, figureVars, historyVars, memberVars, scheduleVars>>
  \/ /\ component = "schedule" /\ NextSchedule
     /\ UNCHANGED <<component, vars, reportVars, deliveryVars, updateVars, exportVars, verifyVars,
                   benchVars, figureVars, historyVars, memberVars, configVars>>

\* The fairness of each component, of its own steps.
ServicesFairness ==
  /\ WF_updateVars(component = "update" /\ AgentRun)
  /\ WF_verifyVars(component = "verify" /\ VerifyRun)
  /\ WF_verifyVars(component = "verify" /\ IntervalPasses)
  /\ WF_deliveryVars(component = "delivery" /\ FlushBegins)
  /\ WF_deliveryVars(component = "delivery" /\ (\E f \in flights : FlushSent(f) \/ MarkRetry(f)))
  /\ \A i \in 1..MaxRows : WF_deliveryVars(component = "delivery" /\ i \in DOMAIN outbox /\ BecomesDue(i))

servicesVars ==
  <<component, vars, reportVars, deliveryVars, updateVars, exportVars, verifyVars, benchVars,
    figureVars, historyVars, memberVars, configVars, scheduleVars>>

ServicesSpec == InitServices /\ [][NextServices]_servicesVars /\ ServicesFairness
-----------------------------------------------------------------------------
(* The state of every component is of its type.                            *)
ServicesTypeOK ==
  /\ TypeOK /\ ReportsTypeOK /\ DeliveryTypeOK /\ UpdateTypeOK
  /\ ExportsTypeOK /\ VerifyTypeOK /\ BenchTypeOK /\ FiguresTypeOK
  /\ HistoryTypeOK /\ MembersTypeOK /\ ConfigurationTypeOK /\ ScheduleTypeOK
=============================================================================
