------------------------------ MODULE Reports -------------------------------
(***************************************************************************)
(* What the agent's reports say and which alerts follow                    *)
(* (agent-service.ts, smart-rules.ts, the report route, maintenance-prune. *)
(* ts): one drive, one volume on it, one pool with one part, one agent.    *)
(* Every handler is synchronous, so an action is a whole request; what     *)
(* interleaves is the order of reports, checks, switches and the operator. *)
(* A section a collector could not fill is missing from the report.        *)
(***************************************************************************)
EXTENDS Alerts, Sequences, Functions

CONSTANTS
    Observed,    \* bound: sets of keys, one of which is kept track of
    Watched,     \* bound: the keys an operator acknowledges
    Missing,     \* what is not in a report, its collector having failed
    Gone,        \* a volume that is not in a report, the disk being off the host
    Unreported   \* a value that is not known

ConditionKey(category, entity, condition) == [category |-> category, entity |-> entity, condition |-> condition]
Attribute   == ConditionKey("smart", "drive", "attr")
Temperature == ConditionKey("smart", "drive", "temperature")
Latency     == ConditionKey("performance", "drive", "latency")
Uncached    == ConditionKey("performance", "uncached", "volume")
FreeSpace   == ConditionKey("volume", "volume", "free-space")
Dirty       == ConditionKey("volume", "volume", "dirty")
PoolSpace   == ConditionKey("pool", "pool", "free-space")
PartMissing == ConditionKey("pool", "pool", "missing")
Stale       == ConditionKey("agent", "host", "stale")
Unreadable  == ConditionKey("catalog", "root", "unreadable")

ReportKeys == {Attribute, Temperature, Latency, Uncached, FreeSpace, Dirty, PoolSpace,
               PartMissing, Stale, Unreadable}

ASSUME ReportsAssumption == Observed \subseteq SUBSET ReportKeys /\ Unreported \notin BOOLEAN

VARIABLES
    alerts,    \* the rows of the keys under observation
    raw,       \* the attribute in the drive's latest smart_snapshots row
    samples,   \* the drive's latest performance_samples: was each a slow one?
    volumeRow, \* whether the volume has a row, which it keeps for good
    partMissing,\* pool_parts.missing of the pool's part
    switches,  \* settings: free-space alerts muted, performance checks, pool space alerts
    reported,  \* the agent's last report is recent
    said,      \* ghost: the severity in the last word about each condition
    unread     \* ghost: bad conditions whose alert a report without the value cleared

AlertKeys == DOMAIN alerts

reportVars == <<alerts, raw, samples, volumeRow, partMissing, switches, reported, said, unread>>

MaxRaw == 2  \* bound: raw values of the attribute
LatencyWindow == 2  \* consecutiveSamples

AtWorst(a, b) == IF a > b THEN a ELSE b

-----------------------------------------------------------------------------
(* The rules.  0 is no finding.                                            *)

\* An attribute above its limits, or that rose since the stored reading.
AttributeLevel(new, old) ==
  IF new = Unreported THEN NoFinding
  ELSE AtWorst(IF new > 1 THEN Critical ELSE NoFinding,
               IF old # Unreported /\ new > old THEN Warning ELSE NoFinding)

\* Free space against two limits; an amount that is not known counts as none.
SpaceLevel(free) ==
  CASE free \in {"none", Unreported} -> Critical [] free = "low" -> Warning [] OTHER -> NoFinding

FreeSpaceLevel(free) == IF switches.muted THEN NoFinding ELSE SpaceLevel(free)
PoolSpaceLevel(free) == IF switches.poolSpace THEN SpaceLevel(free) ELSE NoFinding

\* A breach counts when every one of the last samples is bad.
LatencyLevel(taken) ==
  IF Len(taken) = LatencyWindow /\ \A i \in DOMAIN taken : taken[i] THEN Warning ELSE NoFinding

-----------------------------------------------------------------------------
(* One report.                                                             *)

\* What a collector makes of its corner of the host.  smartctl first; a disk it
\* did not read is filled in from Windows' counters, which have no attribute
\* table and may lack the temperature; a disk neither reads is left out.
SmartSection(disk) ==
  CASE disk.by = "smartctl" -> [raw |-> disk.raw, hot |-> disk.hot]
    [] disk.by = "storage-reliability" -> [raw |-> Unreported, hot |-> disk.counted]
    [] OTHER -> Missing

\* Get-Volume fails as a whole, or lists what is attached; fsutil may not tell
\* the dirty bit of one.
VolumeSection(host) ==
  CASE ~host.listed   -> Missing
    [] ~host.attached -> Gone
    [] OTHER          -> [free |-> host.free, dirty |-> host.dirty]

\* Without dpcmd, or without the volumes to try it on, there are no pools.
PoolSection(host) ==
  IF host.dpcmd THEN [free |-> host.free, missing |-> ~host.attached] ELSE Missing

\* The counters of the disk, if Windows delivers them.
SampleSection(host) == IF host.counters THEN host.slow ELSE Missing

\* rxpcc does not run beside its own window; then PrimoCache is unavailable.
CacheSection(host) == IF host.window THEN Missing ELSE host.cached

Amounts  == {"none", "low", "enough", Unreported}
SmartSections == {SmartSection(d) : d \in [by : {"smartctl", "storage-reliability", "nobody"}, raw : 0..MaxRaw, hot : BOOLEAN, counted : BOOLEAN \cup {Unreported}]}
VolumeSections  == {VolumeSection(h) : h \in [listed : BOOLEAN, attached : BOOLEAN, free : Amounts, dirty : BOOLEAN \cup {Unreported}]}
PoolSections    == {PoolSection(h) : h \in [dpcmd : BOOLEAN, free : {"low", "enough"}, attached : BOOLEAN]}
SampleSections  == {SampleSection(h) : h \in [counters : BOOLEAN, slow : BOOLEAN]}
CacheSections == {CacheSection(h) : h \in [window : BOOLEAN, cached : BOOLEAN]}

\* Bound: a report has the sections of the keys that are kept track of.
About(k, section) == IF k \in AlertKeys THEN section ELSE {Missing}
AllReports == [smart : About(Attribute, SmartSections), volume : About(FreeSpace, VolumeSections),
               pool : About(PoolSpace, PoolSections), sample : About(Latency, SampleSections), cache : About(Uncached, CacheSections)]

\* Pools are looked for on the volumes that were listed, and a disk that is
\* off the host is missed by both.
OneHost(r) ==
  /\ FreeSpace \in AlertKeys /\ r.volume = Missing => r.pool = Missing
  /\ r.volume = Gone /\ r.pool # Missing => r.pool.missing

Stored(r) == IF r.smart = Missing THEN raw ELSE r.smart.raw

Sampled(r) ==
  IF r.sample = Missing THEN samples
  ELSE LET all == Append(samples, r.sample)
       IN SubSeq(all, 1 + Len(all) - (IF Len(all) > LatencyWindow THEN LatencyWindow ELSE Len(all)), Len(all))

\* A value that is not reported is no word about its condition, good or bad.
SmartFindings(r) ==
  IF r.smart = Missing THEN {}
  ELSE (IF r.smart.raw = Unreported THEN {} ELSE {<<Attribute, AttributeLevel(r.smart.raw, raw)>>})
       \cup (IF r.smart.hot = Unreported THEN {}
             ELSE {<<Temperature, IF r.smart.hot THEN Warning ELSE NoFinding>>})

VolumeFindings(r) ==
  IF r.volume \in {Missing, Gone} THEN {}
  ELSE (IF r.volume.dirty = Unreported THEN {}
        ELSE {<<Dirty, IF r.volume.dirty THEN Critical ELSE NoFinding>>})
       \cup {<<FreeSpace, FreeSpaceLevel(r.volume.free)>>}

PerformanceFindings(r) ==
  IF r.sample = Missing \/ ~switches.performance THEN {} ELSE {<<Latency, LatencyLevel(Sampled(r))>>}

PoolFindings(r) ==
  IF r.pool = Missing THEN {}
  ELSE {<<PoolSpace, PoolSpaceLevel(r.pool.free)>>,
        <<PartMissing, IF r.pool.missing THEN Critical ELSE NoFinding>>}

\* Which alerts the report may clear: one scope per entity it covered, with
\* the conditions of the entity for which it has no value.
ReconcileScopes(r) ==
  {s \in [category : {"smart"}, entity : {"drive"}] : r.smart # Missing}
  \cup {s \in [category : {"volume"}, entity : {"volume"}] : r.volume \notin {Missing, Gone}}
  \cup {s \in [category : {"performance"}, entity : {"drive"}] : r.sample # Missing /\ switches.performance}

PoolScopes(r) == {s \in [category : {"pool"}, entity : {"pool"}] : r.pool # Missing}

\* After the report the route compares the pool's members with PrimoCache's
\* tasks; r.cache is Missing when PrimoCache said nothing.
CacheFindings(r) == IF r.cache = Missing THEN {} ELSE {<<Uncached, IF r.cache THEN NoFinding ELSE Warning>>}
\* Mutant of CacheScopes: reconcile without the bench:uncached: prefix.
AllOfPerformance(r) == {s \in [category : {"performance"}, entity : {AnyEntity}] : r.cache # Missing}

CacheScopes(r) == {s \in [category : {"performance"}, entity : {"uncached"}] : r.cache # Missing}

FindingsOf(r) ==
  SmartFindings(r) \cup VolumeFindings(r) \cup PerformanceFindings(r) \cup PoolFindings(r) \cup CacheFindings(r)

SeverityOf(pairs, k) == (CHOOSE p \in pairs : p[1] = k)[2]
RaisedBy(pairs) ==
  [k \in {p[1] : p \in {q \in pairs : q[2] # NoFinding}} |-> SeverityOf(pairs, k)]
\* ghost: a word about a condition, good or bad.
Says(pairs) == [k \in AlertKeys |-> IF \E p \in pairs : p[1] = k THEN SeverityOf(pairs, k) ELSE said[k]]

\* ghost: a condition was bad, and nothing has been said of it since a report
\* covered the entity without its value.
Unlooked(r) ==
  {k \in {Attribute} : r.smart # Missing /\ r.smart.raw = Unreported}
  \cup {k \in {Temperature} : r.smart # Missing /\ r.smart.hot = Unreported}
  \cup {k \in {Dirty} : r.volume \notin {Missing, Gone} /\ r.volume.dirty = Unreported}

UnreadAfter(r) ==
  {k \in AlertKeys : /\ said[k] # NoFinding
                     /\ \/ k \in Unlooked(r)
                        \/ k \in unread /\ ~\E p \in FindingsOf(r) : p[1] = k}

Ingest(r) ==
  /\ OneHost(r)
  /\ raw' = Stored(r)
  /\ samples' = Sampled(r)
  /\ volumeRow' = IF r.volume \in {Missing, Gone} THEN volumeRow ELSE TRUE
  /\ partMissing' = IF r.pool = Missing THEN partMissing ELSE r.pool.missing
  /\ alerts' = Collected(alerts, RaisedBy(FindingsOf(r)), ReconcileScopes(r) \cup PoolScopes(r) \cup CacheScopes(r))
  /\ reported' = TRUE
  /\ said' = Says(FindingsOf(r))
  /\ unread' = UnreadAfter(r)
  /\ UNCHANGED switches

-----------------------------------------------------------------------------
\* Maintenance: the one place that looks at the age of the last report, and a
\* whole category is reconciled.  Before the first report there is no agent.
StaleFinding == {<<Stale, IF reported = FALSE THEN Warning ELSE NoFinding>>}

\* Maintenance: is the configured root a part that is there, or on a volume
\* that was ever reported?
Reachable == partMissing = FALSE \/ (partMissing = Unreported /\ volumeRow)

RootFinding ==
  IF reported = Unreported THEN {}
  ELSE {<<Unreadable, IF Reachable THEN NoFinding ELSE Critical>>}

Maintenance ==
  LET pairs == (IF reported = Unreported THEN {} ELSE StaleFinding) \cup RootFinding
  IN /\ alerts' = Collected(alerts, RaisedBy(pairs),
                       {[category |-> "agent", entity |-> AnyEntity]}
                       \cup {s \in [category : {"catalog"}, entity : {"root"}] : RootFinding # {}})
     /\ said' = Says(pairs)
     /\ UNCHANGED <<raw, samples, volumeRow, partMissing, switches, reported, unread>>

\* Muting a volume takes its open alert away; arming it waits for a report.
SetLowSpaceAlerts(muted) ==
  /\ volumeRow /\ FreeSpace \in AlertKeys
  /\ switches' = [switches EXCEPT !.muted = muted]
  /\ alerts' = IF muted THEN [alerts EXCEPT ![FreeSpace] = Resolved(alerts[FreeSpace])] ELSE alerts
  /\ said' = IF muted THEN [said EXCEPT ![FreeSpace] = NoFinding] ELSE said
  /\ UNCHANGED <<raw, samples, volumeRow, partMissing, reported, unread>>

\* Bound: a switch that no key under observation depends on stays on.
SaveSettings ==
  /\ \E performance \in {TRUE, Latency \notin AlertKeys}, poolSpace \in {TRUE, PoolSpace \notin AlertKeys} :
       switches' = [switches EXCEPT !.performance = performance, !.poolSpace = poolSpace]
  /\ UNCHANGED <<alerts, raw, samples, volumeRow, partMissing, reported, said, unread>>

\* agentStaleMinutes pass without a report.
GoesQuiet ==
  /\ reported = TRUE
  /\ reported' = FALSE
  /\ UNCHANGED <<alerts, raw, samples, volumeRow, partMissing, switches, said, unread>>

Operator ==
  /\ \E k \in Watched \cap AlertKeys :
       alerts' \in {[alerts EXCEPT ![k] = Acknowledged(@)], [alerts EXCEPT ![k] = Unacknowledged(@)]}
  /\ UNCHANGED <<raw, samples, volumeRow, partMissing, switches, reported, said, unread>>

InitReports ==
  /\ \E keys \in Observed : alerts = [k \in keys |-> NoAlert]
  /\ raw = Unreported
  /\ samples = <<>>
  /\ volumeRow = FALSE
  /\ partMissing = Unreported
  /\ switches = [muted |-> FALSE, performance |-> TRUE, poolSpace |-> TRUE]
  /\ reported = Unreported
  /\ said = [k \in DOMAIN alerts |-> NoFinding] /\ unread = {}

NextReports ==
  \/ \E r \in AllReports : Ingest(r)
  \/ Maintenance
  \/ \E muted \in BOOLEAN : SetLowSpaceAlerts(muted)
  \/ SaveSettings
  \/ GoesQuiet
  \/ Operator

ReportsSpec == InitReports /\ [][NextReports]_reportVars
-----------------------------------------------------------------------------
ReportsTypeOK ==
  /\ AlertKeys \in Observed /\ alerts \in [AlertKeys -> AlertRows]
  /\ raw \in 0..MaxRaw \cup {Unreported}
  /\ samples \in Seq(BOOLEAN) /\ Len(samples) <= LatencyWindow
  /\ partMissing \in BOOLEAN \cup {Unreported}
  /\ volumeRow \in BOOLEAN
  /\ switches \in [muted : BOOLEAN, performance : BOOLEAN, poolSpace : BOOLEAN]
  /\ reported \in BOOLEAN \cup {Unreported}
  /\ said \in [AlertKeys -> NoFinding..Critical] /\ unread \subseteq AlertKeys

(* An alert is unresolved exactly while the last word about its condition  *)
(* was bad, and at the severity of that word: a report that covers one     *)
(* entity neither clears nor keeps the alerts of another, the two pool     *)
(* conditions do not resolve each other, two collectors of one category    *)
(* stay apart, and muting takes effect at once.  Excepted are the alerts   *)
(* that a report cleared which covered the entity and had no value for the *)
(* condition: the attributes and the temperature of a drive that smartctl  *)
(* did not read, filled in from Windows' counters, and an unknown dirty    *)
(* bit.  A drive not in the report at all keeps what it has.               *)
AlertsFollowTheLastWord ==
  \A k \in AlertKeys \ unread :
    /\ Unresolved(alerts[k]) <=> said[k] # NoFinding
    /\ said[k] # NoFinding => alerts[k].severity = said[k]
=============================================================================
