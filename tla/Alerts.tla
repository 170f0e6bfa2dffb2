------------------------------- MODULE Alerts -------------------------------
(***************************************************************************)
(* The alert store (alert-service.ts): one row per deduplication key, kept *)
(* as a condition and not as an event.  A collector raises what it sees    *)
(* and reconciles the scope it is entitled to speak about; an operator     *)
(* acknowledges.  A key is a record [category, entity, condition]: the     *)
(* code joins the three with colons and matches `category' exactly and     *)
(* `entity' as a prefix.  Severities keep the order of severityRank; 0 is  *)
(* the absence of a finding.                                               *)
(***************************************************************************)
EXTENDS Naturals, FiniteSets

NoFinding == 0
Info      == 1
Warning   == 2
Critical  == 3

NoAlert == [state |-> "absent", severity |-> Info, notified |-> "never", notifiedSeverity |-> Info]

Unresolved(row) == row.state \in {"open", "acknowledged"}

\* raise() emits `raised' for a new row, a row that comes back and one that gets worse.
IsAnnounced(row, severity) == ~Unresolved(row) \/ severity > row.severity

Raised(row, severity) ==
  [row EXCEPT !.severity = severity,
              !.state = IF ~Unresolved(row) \/ severity > row.severity THEN "open" ELSE @]

Resolved(row) == IF Unresolved(row) THEN [row EXCEPT !.state = "resolved"] ELSE row

\* What one collector's pass leaves: `found' is raised, and in the scopes it
\* reconciled whatever it did not find is resolved.  AnyEntity is a reconcile
\* without a prefix, which clears the whole category.
AnyEntity == "any entity"

InScope(k, scopes) ==
  \E s \in scopes : s.category = k.category /\ s.entity \in {k.entity, AnyEntity}

Collected(store, found, scopes) ==
  [k \in DOMAIN store |->
     IF k \in DOMAIN found THEN Raised(store[k], found[k])
     ELSE IF InScope(k, scopes) THEN Resolved(store[k]) ELSE store[k]]

Acknowledged(row) == IF row.state = "open" THEN [row EXCEPT !.state = "acknowledged"] ELSE row

Unacknowledged(row) == IF row.state = "acknowledged" THEN [row EXCEPT !.state = "open"] ELSE row

\* Maintenance deletes a row that has been resolved for the retention period,
\* and with it what it knew of the last notification.
Forgotten(row) == IF row.state = "resolved" THEN NoAlert ELSE row

AlertRows == [state : {"absent", "open", "acknowledged", "resolved"}, severity : Info..Critical,
              notified : {"never", "recent", "past"}, notifiedSeverity : Info..Critical]
=============================================================================
