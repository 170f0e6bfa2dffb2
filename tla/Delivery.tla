------------------------------ MODULE Delivery ------------------------------
(***************************************************************************)
(* From an alert to Discord (alert-service.ts, discord-notifier.ts): the   *)
(* outbox table, the flush that a ten-second timer starts without waiting  *)
(* for the one before, retries, restarts and the monthly deletion.  The    *)
(* emitter is synchronous, so raising an alert and queueing its message    *)
(* are one step; a flush is two, around the webhook.                       *)
(***************************************************************************)
EXTENDS Alerts, Sequences

CONSTANTS
    Conditions,     \* the deduplication keys
    Severities,     \* bound: those collectors report
    MinSeverity,    \* notifications.discord.minSeverity
    Batch,          \* LIMIT of a flush; 25
    Embeds,         \* rows a message shows, the others it only counts; 9
    MaxAttempts,    \* failed posts before a message is given up; 8
    Outage,         \* bound: posts that Discord or the network refuses
    MaxFlights,     \* bound: flushes waiting for the webhook at once
    MaxRaises,      \* bound: times a collector raises or resolves
    MaxRows,        \* bound: rows of the outbox
    MaxRestarts     \* bound: restarts of the service

ASSUME DeliveryAssumption ==
  /\ Severities \subseteq Info..Critical /\ MinSeverity \in Info..Critical
  /\ {Batch, Embeds, MaxAttempts, MaxFlights, MaxRows} \subseteq Nat \ {0}
  /\ {Outage, MaxRaises, MaxRestarts} \subseteq Nat

VARIABLES
    store,     \* the alerts table, by key
    outbox,    \* the notifications table, by id
    flights,   \* flush() calls that await the webhook: the rows each selected
    refusals,  \* ghost: posts refused so far, for the bound
    raises,    \* ghost: words of collectors so far, for the bound
    restarts,  \* ghost: restarts so far, for the bound
    heard,     \* ghost: the words that Discord has been shown, by alert
    counted    \* ghost: the words that were among the "more alerts" of a message

telling == <<heard, counted>>
deliveryVars == <<store, outbox, flights, refusals, raises, restarts, telling>>

Row(k, kind) == [alert |-> k, kind |-> kind, status |-> "waiting", attempts |-> 0]

\* "waiting" and "due" are both 'pending', before and after send_after.
Pending(row) == row.status \in {"waiting", "due"}

-----------------------------------------------------------------------------
(* A repeat is suppressed within renotifyAfterHours ("recent") unless it   *)
(* is more severe than what was announced.                                 *)
Suppressed(row, severity) == row.notified = "recent" /\ severity <= row.notifiedSeverity

IsQueued(row, severity) ==
  IsAnnounced(row, severity) /\ severity >= MinSeverity /\ ~Suppressed(row, severity)

Marked(row, severity) == [row EXCEPT !.notified = "recent", !.notifiedSeverity = severity]

Raise(k, severity) ==
  /\ raises < MaxRaises /\ Len(outbox) < MaxRows
  /\ raises' = raises + 1
  /\ LET after == Raised(store[k], severity)
     IN IF IsQueued(store[k], severity)
        THEN /\ store' = [store EXCEPT ![k] = Marked(after, severity)]
             /\ outbox' = Append(outbox, Row(k, "alert"))
        ELSE /\ store' = [store EXCEPT ![k] = after]
             /\ UNCHANGED outbox
  /\ UNCHANGED <<flights, refusals, restarts, telling>>

\* Only what was announced is announced as cleared.
Resolve(k) ==
  /\ raises < MaxRaises /\ Len(outbox) < MaxRows
  /\ raises' = raises + 1
  /\ Unresolved(store[k])
  /\ store' = [store EXCEPT ![k] = Resolved(@)]
  /\ outbox' = IF store[k].notified # "never"
               THEN Append(outbox, Row(k, "resolved")) ELSE outbox
  /\ UNCHANGED <<flights, refusals, restarts, telling>>

NotificationAges(k) ==
  /\ store[k].notified = "recent"
  /\ store' = [store EXCEPT ![k].notified = "past"]
  /\ UNCHANGED <<outbox, flights, refusals, raises, restarts, telling>>

\* An operator acknowledges; maintenance deletes old resolved rows.
Attended ==
  /\ \E k \in Conditions :
       store' \in {[store EXCEPT ![k] = Acknowledged(@)], [store EXCEPT ![k] = Forgotten(@)]}
  /\ UNCHANGED <<outbox, flights, refusals, raises, restarts, telling>>

-----------------------------------------------------------------------------
\* batchWindowSeconds after the message was queued, or a retry's delay, pass.
BecomesDue(i) ==
  /\ outbox[i].status = "waiting"
  /\ outbox' = [outbox EXCEPT ![i].status = "due"]
  /\ UNCHANGED <<store, flights, refusals, raises, restarts, telling>>

DueRows == {i \in DOMAIN outbox : outbox[i].status = "due"}
FirstDue == {i \in DueRows : Cardinality({j \in DueRows : j < i}) < Batch}

\* The flush selects its rows and posts them as one message.
FlushBegins ==
  /\ Cardinality(flights) < MaxFlights
  /\ DueRows # {}
  /\ \E f \in 1..MaxFlights \ {g.id : g \in flights} :
       flights' = flights \cup {[id |-> f, rows |-> FirstDue]}
  /\ UNCHANGED <<store, outbox, refusals, raises, restarts, telling>>

\* The message shows its first rows and says how many more there are.
ShownOf(rows) == {i \in rows : Cardinality({j \in rows : j < i}) < Embeds}
Words(rows, k) == {outbox[i].kind : i \in {j \in rows : outbox[j].alert = k}}

Arrives(rows) ==
  /\ heard' = [k \in Conditions |-> heard[k] \cup Words(ShownOf(rows), k)]
  /\ counted' = [k \in Conditions |-> counted[k] \cup Words(rows \ ShownOf(rows), k)]

\* Every row of it counts as sent, those that were not shown as well.
FlushSent(f) ==
  /\ outbox' = [i \in DOMAIN outbox |->
       IF i \in f.rows THEN [outbox[i] EXCEPT !.status = "sent", !.attempts = @ + 1] ELSE outbox[i]]
  /\ Arrives(f.rows)
  /\ flights' = flights \ {f}
  /\ UNCHANGED <<store, refusals, raises, restarts>>

\* Mutant of MarkRetry: a rate limit counts as delivered.
MarkSentOnRefusal(f) ==
  /\ refusals < Outage
  /\ refusals' = refusals + 1
  /\ outbox' = [i \in DOMAIN outbox |->
       IF i \in f.rows THEN [outbox[i] EXCEPT !.status = "sent"] ELSE outbox[i]]
  /\ flights' = flights \ {f}
  /\ UNCHANGED <<store, raises, restarts, telling>>

\* Mutant of MarkRetry: given up one attempt early.
GivesUpEarly(f) ==
  /\ refusals < Outage
  /\ refusals' = refusals + 1
  /\ outbox' = [i \in DOMAIN outbox |->
       IF i \in f.rows
       THEN [outbox[i] EXCEPT !.attempts = @ + 1,
                              !.status = IF outbox[i].attempts + 1 >= MaxAttempts - 1 THEN "failed" ELSE "waiting"]
       ELSE outbox[i]]
  /\ Arrives(f.rows) \/ UNCHANGED telling
  /\ flights' = flights \ {f}
  /\ UNCHANGED <<store, raises, restarts>>

\* Mutant of MarkRetry: a status that no flush selects.
PutBackElsewhere(f) ==
  /\ refusals < Outage
  /\ refusals' = refusals + 1
  /\ outbox' = [i \in DOMAIN outbox |->
       IF i \in f.rows THEN [outbox[i] EXCEPT !.attempts = @ + 1, !.status = "pending"] ELSE outbox[i]]
  /\ Arrives(f.rows) \/ UNCHANGED telling
  /\ flights' = flights \ {f}
  /\ UNCHANGED <<store, raises, restarts>>

\* A rate limit, an error or no answer; the message may have arrived all the same.
MarkRetry(f) ==
  /\ refusals < Outage
  /\ refusals' = refusals + 1
  /\ outbox' = [i \in DOMAIN outbox |->
       IF i \in f.rows
       THEN [outbox[i] EXCEPT !.attempts = @ + 1,
                              !.status = IF outbox[i].attempts + 1 >= MaxAttempts THEN "failed" ELSE "waiting"]
       ELSE outbox[i]]
  /\ Arrives(f.rows) \/ UNCHANGED telling
  /\ flights' = flights \ {f}
  /\ UNCHANGED <<store, raises, restarts>>

\* Maintenance deletes rows a month after they were sent or given up, long
\* after any flush that selected them.
PruneNotifications ==
  /\ flights = {} /\ outbox # <<>>
  /\ Head(outbox).status \in {"sent", "failed"}
  /\ outbox' = Tail(outbox)
  /\ UNCHANGED <<store, flights, refusals, raises, restarts, telling>>

\* The tables stay, a flush under way is forgotten; Discord may have it.
RestartService ==
  /\ restarts < MaxRestarts
  /\ restarts' = restarts + 1
  /\ flights' = {}
  /\ (\E f \in flights : Arrives(f.rows)) \/ UNCHANGED telling
  /\ UNCHANGED <<store, outbox, refusals, raises>>

InitDelivery ==
  /\ store = [k \in Conditions |-> NoAlert]
  /\ outbox = <<>> /\ flights = {}
  /\ refusals = 0 /\ raises = 0 /\ restarts = 0
  /\ heard = [k \in Conditions |-> {}] /\ counted = heard

NextDelivery ==
  \/ \E k \in Conditions : (\E s \in Severities : Raise(k, s)) \/ Resolve(k) \/ NotificationAges(k)
  \/ Attended
  \/ \E i \in DOMAIN outbox : BecomesDue(i)
  \/ FlushBegins
  \/ \E f \in flights : FlushSent(f) \/ MarkRetry(f)
  \/ PruneNotifications
  \/ RestartService

(* The clock moves, the timer fires, and a post is answered.               *)
Deliveries ==
  /\ \A i \in 1..MaxRows : WF_deliveryVars(i \in DOMAIN outbox /\ BecomesDue(i))
  /\ WF_deliveryVars(FlushBegins)
  /\ WF_deliveryVars(\E f \in flights : FlushSent(f) \/ MarkRetry(f))

DeliverySpec == InitDelivery /\ [][NextDelivery]_deliveryVars /\ Deliveries
-----------------------------------------------------------------------------
DeliveryTypeOK ==
  /\ store \in [Conditions -> AlertRows]
  /\ outbox \in Seq([alert : Conditions, kind : {"alert", "resolved"},
                     status : {"waiting", "due", "sent", "failed"}, attempts : Nat])
  /\ \A f \in flights : f.id \in 1..MaxFlights /\ f.rows \subseteq DOMAIN outbox
  /\ {heard, counted} \subseteq [Conditions -> SUBSET {"alert", "resolved"}]

(* Discord has had the word, by name or as one of so many more. *)
Told(k) == heard[k] \cup counted[k]

(* A message counts as sent only when Discord has had it, with two flushes *)
(* of the same rows in the air, a refusal and a restart in between.  What  *)
(* it has had of the tenth row of a message and those after it is their    *)
(* number and where to look for them; they count as sent like the others.  *)
SentWasHeard ==
  \A i \in DOMAIN outbox : outbox[i].status = "sent" => outbox[i].kind \in Told(outbox[i].alert)

(* An alert the store believes announced has been told of, or its message  *)
(* is still to go out: suppression never hides an alert of which Discord   *)
(* has not even had the count, while an outage stays shorter than the      *)
(* retries cover.                                                          *)
AnnouncedOrQueued ==
  \A k \in Conditions :
    store[k].notified # "never" =>
      \/ "alert" \in Told(k)
      \/ \E i \in DOMAIN outbox : outbox[i].alert = k /\ outbox[i].kind = "alert" /\ Pending(outbox[i])

(* What the two tables say of a notification is so.                        *)
OutboxTellsTheTruth == SentWasHeard /\ AnnouncedOrQueued

(* An outage shorter than the retries cover delays the messages and drops  *)
(* none: with nothing new raised, everything queued reaches Discord, shown *)
(* or counted, and the outbox comes to rest, although flushes overlap and  *)
(* one may put back or give up what another has sent.                      *)
OutboxDrains ==
  <>[](\A i \in DOMAIN outbox : ~Pending(outbox[i]) /\ outbox[i].kind \in Told(outbox[i].alert))
=============================================================================
