---------------------------- MODULE AlertsProofs ----------------------------
(***************************************************************************)
(* What TLAPS proves of the alerts, for every number of messages, flushes, *)
(* refusals and restarts, and for every set of conditions kept track of:   *)
(* the outbox and the alerts table tell the truth about what Discord was   *)
(* shown or given the count of (Delivery), and an alert is open exactly    *)
(* while the last word of the reports was bad (Reports).                   *)
(***************************************************************************)
EXTENDS Delivery, Reports, SequenceTheorems, TLAPS

-----------------------------------------------------------------------------
(* The outbox: types.                                                      *)

Rows == [alert : Conditions, kind : {"alert", "resolved"},
         status : {"waiting", "due", "sent", "failed"}, attempts : Nat]

Tables ==
  /\ store \in [Conditions -> AlertRows]
  /\ outbox \in Seq(Rows)
  /\ \A f \in flights : f.id \in 1..MaxFlights /\ f.rows \subseteq DOMAIN outbox
  /\ heard \in [Conditions -> SUBSET {"alert", "resolved"}]
  /\ counted \in [Conditions -> SUBSET {"alert", "resolved"}]
  /\ refusals \in Nat

LEMMA TablesAreTyped == Tables => DeliveryTypeOK
  BY DEF Tables, DeliveryTypeOK, Rows

LEMMA FunctionIsSeq ==
  ASSUME NEW S, NEW n \in Nat, NEW f \in [1..n -> S]
  PROVE  f \in Seq(S) /\ Len(f) = n /\ DOMAIN f = 1..n
  <1>1. f \in Seq(S)
    BY SeqDef
  <1> QED BY <1>1, LenProperties

(* What an edit makes of a row of either table, field by field. *)
LEMMA RowIsAlertRow ==
  ASSUME NEW row \in AlertRows, NEW severity \in Info..Critical
  PROVE  /\ Raised(row, severity) \in AlertRows
         /\ Raised(row, severity).severity = severity
         /\ Unresolved(Raised(row, severity))
         /\ Raised(row, severity).notified = row.notified
         /\ Marked(Raised(row, severity), severity) \in AlertRows
         /\ Resolved(row) \in AlertRows /\ ~Unresolved(Resolved(row))
         /\ Resolved(row).severity = row.severity /\ Resolved(row).notified = row.notified
         /\ Acknowledged(row) \in AlertRows /\ Unacknowledged(row) \in AlertRows
         /\ Acknowledged(row).notified = row.notified
         /\ Forgotten(row) \in AlertRows
         /\ Forgotten(row) = row \/ Forgotten(row).notified = "never"
  <1>1. /\ Raised(row, severity) \in AlertRows
        /\ Raised(row, severity).severity = severity
        /\ Unresolved(Raised(row, severity))
        /\ Raised(row, severity).notified = row.notified
    BY DEF Raised, AlertRows, Unresolved
  <1>2. \A r \in AlertRows : [r EXCEPT !.notified = "recent", !.notifiedSeverity = severity] \in AlertRows
    BY DEF AlertRows
  <1>3. /\ Resolved(row) \in AlertRows /\ ~Unresolved(Resolved(row))
        /\ Resolved(row).severity = row.severity /\ Resolved(row).notified = row.notified
    BY DEF Resolved, AlertRows, Unresolved
  <1>4. /\ Acknowledged(row) \in AlertRows /\ Unacknowledged(row) \in AlertRows
        /\ Acknowledged(row).notified = row.notified
    BY DEF Acknowledged, Unacknowledged, AlertRows
  <1>5. NoAlert \in AlertRows /\ NoAlert.notified = "never"
    BY DEF NoAlert, AlertRows, Info, Critical
  <1>6. /\ Forgotten(row) \in AlertRows
        /\ Forgotten(row) = row \/ Forgotten(row).notified = "never"
    BY <1>5 DEF Forgotten
  <1> QED BY <1>1, <1>2, <1>3, <1>4, <1>6 DEF Marked

Answered(row, status, new) ==
  \/ new = [row EXCEPT !.attempts = @ + 1, !.status = status]
  \/ new = [row EXCEPT !.status = status, !.attempts = @ + 1]

LEMMA RowIsRow ==
  ASSUME NEW row \in Rows, NEW status \in {"waiting", "due", "sent", "failed"},
         NEW new, Answered(row, status, new)
  PROVE  /\ new \in Rows
         /\ new.alert = row.alert /\ new.kind = row.kind
         /\ new.status = status /\ new.attempts = row.attempts + 1
  <1>1. row.attempts + 1 \in Nat
    BY DEF Rows
  <1>2. \/ new = [row EXCEPT !.attempts = row.attempts + 1, !.status = status]
        \/ new = [row EXCEPT !.status = status, !.attempts = row.attempts + 1]
    BY DEF Rows, Answered
  <1>3. PICK n \in Nat : n = row.attempts + 1
    BY <1>1
  <1>4. \/ new = [row EXCEPT !.attempts = n, !.status = status]
        \/ new = [row EXCEPT !.status = status, !.attempts = n]
    BY <1>2, <1>3
  <1>5. /\ new \in Rows /\ new.alert = row.alert /\ new.kind = row.kind
        /\ new.status = status /\ new.attempts = n
    BY <1>4 DEF Rows
  <1> QED BY <1>3, <1>5

LEMMA OutboxIs ==
  ASSUME Tables
  PROVE  /\ outbox \in Seq(Rows) /\ Len(outbox) \in Nat /\ DOMAIN outbox = 1..Len(outbox)
         /\ outbox \in [1..Len(outbox) -> Rows]
         /\ \A i \in DOMAIN outbox : /\ outbox[i] \in Rows /\ outbox[i].alert \in Conditions
                                     /\ outbox[i].kind \in {"alert", "resolved"}
  <1>1. outbox \in Seq(Rows)
    BY DEF Tables
  <1>2. Len(outbox) \in Nat /\ DOMAIN outbox = 1..Len(outbox) /\ outbox \in [1..Len(outbox) -> Rows]
    BY <1>1, LenProperties
  <1>3. \A i \in DOMAIN outbox : outbox[i] \in Rows
    BY <1>2
  <1> QED BY <1>1, <1>2, <1>3 DEF Rows

WordsAreKept ==
  /\ heard' \in [Conditions -> SUBSET {"alert", "resolved"}]
  /\ counted' \in [Conditions -> SUBSET {"alert", "resolved"}]
  /\ \A k \in Conditions : heard[k] \subseteq heard'[k] /\ counted[k] \subseteq counted'[k]

(* A post that arrives takes no word back, and shows or counts each of its *)
(* rows.                                                                   *)
LEMMA ArrivesTells ==
  ASSUME Tables, NEW rows, rows \subseteq DOMAIN outbox, Arrives(rows)
  PROVE  /\ WordsAreKept
         /\ \A i \in rows : outbox[i].kind \in heard'[outbox[i].alert] \cup counted'[outbox[i].alert]
  <1>1. /\ heard \in [Conditions -> SUBSET {"alert", "resolved"}]
        /\ counted \in [Conditions -> SUBSET {"alert", "resolved"}]
    BY DEF Tables
  <1>2. \A i \in rows : outbox[i].kind \in {"alert", "resolved"} /\ outbox[i].alert \in Conditions
    BY OutboxIs
  <1>3. PICK shown \in SUBSET rows : shown = ShownOf(rows)
    BY DEF ShownOf
  <1>4. ASSUME NEW some \in SUBSET rows, NEW k
        PROVE  /\ Words(some, k) \in SUBSET {"alert", "resolved"}
               /\ \A i \in some : outbox[i].alert = k => outbox[i].kind \in Words(some, k)
    BY <1>2 DEF Words
  <1>5. /\ heard' = [k \in Conditions |-> heard[k] \cup Words(shown, k)]
        /\ counted' = [k \in Conditions |-> counted[k] \cup Words(rows \ shown, k)]
    BY <1>3 DEF Arrives
  <1>6. rows \ shown \in SUBSET rows
    OBVIOUS
  <1>7. WordsAreKept
    BY <1>1, <1>4, <1>5, <1>6 DEF WordsAreKept
  <1>8. ASSUME NEW i \in rows
        PROVE  outbox[i].kind \in heard'[outbox[i].alert] \cup counted'[outbox[i].alert]
    <2>1. PICK k \in Conditions : k = outbox[i].alert
      BY <1>2
    <2>2. heard'[k] = heard[k] \cup Words(shown, k) /\ counted'[k] = counted[k] \cup Words(rows \ shown, k)
      BY <1>5
    <2>3. outbox[i].kind \in Words(shown, k) \cup Words(rows \ shown, k)
      BY <1>4, <1>6, <2>1
    <2> QED BY <2>1, <2>2, <2>3
  <1> QED BY <1>7, <1>8

(* How a row comes out of a flush: sent, and told of, or refused. *)
Refused(i) ==
  /\ refusals < Outage /\ refusals' = refusals + 1
  /\ outbox'[i].status = IF outbox[i].attempts + 1 >= MaxAttempts THEN "failed" ELSE "waiting"

Delivered(i) == outbox[i].kind \in heard[outbox[i].alert] \cup counted[outbox[i].alert]

SameMessages ==
  /\ outbox' \in Seq(Rows) /\ DOMAIN outbox' = DOMAIN outbox
  /\ \A i \in DOMAIN outbox : outbox'[i].alert = outbox[i].alert /\ outbox'[i].kind = outbox[i].kind

LEMMA AnswerIs ==
  ASSUME Tables, NEW f \in flights, FlushSent(f) \/ MarkRetry(f)
  PROVE  /\ SameMessages /\ WordsAreKept
         /\ \A i \in DOMAIN outbox : i \notin f.rows => outbox'[i] = outbox[i]
         /\ \A i \in f.rows : /\ i \in DOMAIN outbox /\ outbox'[i].attempts = outbox[i].attempts + 1
                              /\ (outbox'[i].status = "sent" /\ Delivered(i)') \/ Refused(i)
         /\ flights' \subseteq flights /\ store' = store
         /\ refusals' \in {refusals, refusals + 1}
  <1> DEFINE given(i) == IF outbox[i].attempts + 1 >= MaxAttempts THEN "failed" ELSE "waiting"
  <1>a. /\ f.rows \subseteq DOMAIN outbox /\ Len(outbox) \in Nat /\ DOMAIN outbox = 1..Len(outbox)
        /\ \A i \in DOMAIN outbox : outbox[i] \in Rows
    BY OutboxIs DEF Tables
  <1>b. ASSUME Arrives(f.rows)
        PROVE  /\ WordsAreKept
               /\ \A i \in f.rows : outbox[i].kind \in heard'[outbox[i].alert] \cup counted'[outbox[i].alert]
    BY <1>a, <1>b, ArrivesTells
  <1>c. UNCHANGED telling => WordsAreKept
    BY DEF telling, WordsAreKept, Tables
  <1>s. ASSUME \A i \in DOMAIN outbox : /\ outbox'[i] \in Rows
                                        /\ outbox'[i].alert = outbox[i].alert /\ outbox'[i].kind = outbox[i].kind,
               outbox' \in [DOMAIN outbox -> Rows]
        PROVE  SameMessages
    <2>1. outbox' \in [1..Len(outbox) -> Rows]
      BY <1>a, <1>s
    <2> QED BY <2>1, <1>a, <1>s, FunctionIsSeq DEF SameMessages
  <1>1. CASE FlushSent(f)
    <2>1. outbox' = [i \in DOMAIN outbox |->
             IF i \in f.rows THEN [outbox[i] EXCEPT !.status = "sent", !.attempts = @ + 1] ELSE outbox[i]]
      BY <1>1 DEF FlushSent
    <2>2. Arrives(f.rows) /\ flights' = flights \ {f} /\ UNCHANGED <<store, refusals>>
      BY <1>1 DEF FlushSent
    <2>3. \A i \in DOMAIN outbox : i \notin f.rows => outbox'[i] = outbox[i]
      BY <2>1
    <2>4. ASSUME NEW i \in f.rows
          PROVE  /\ i \in DOMAIN outbox /\ outbox'[i] \in Rows
                 /\ outbox'[i].alert = outbox[i].alert /\ outbox'[i].kind = outbox[i].kind
                 /\ outbox'[i].status = "sent" /\ outbox'[i].attempts = outbox[i].attempts + 1
      <3>1. i \in DOMAIN outbox /\ outbox'[i] = [outbox[i] EXCEPT !.status = "sent", !.attempts = @ + 1]
        BY <2>1, <1>a
      <3>2. Answered(outbox[i], "sent", outbox'[i])
        BY <3>1 DEF Answered
      <3> QED BY <3>1, <3>2, <1>a, RowIsRow
    <2>5. SameMessages
      <3>0. \A i \in DOMAIN outbox : outbox'[i] \in Rows
        BY <2>3, <2>4, <1>a
      <3>1. outbox' \in [DOMAIN outbox -> Rows]
        <4> DEFINE answer(i) == IF i \in f.rows THEN [outbox[i] EXCEPT !.status = "sent", !.attempts = @ + 1] ELSE outbox[i]
        <4>1. outbox' = [i \in DOMAIN outbox |-> answer(i)]
          BY <2>1
        <4>2. \A i \in DOMAIN outbox : outbox'[i] = answer(i)
          BY <4>1
        <4> HIDE DEF answer
        <4> QED BY <4>1, <4>2, <3>0
      <3> QED BY <3>1, <2>3, <2>4, <1>a, <1>s
    <2>6. \A i \in f.rows : Delivered(i)'
      BY <2>2, <2>4, <1>b DEF Delivered
    <2>7. WordsAreKept
      BY <2>2, <1>b
    <2> QED BY <2>2, <2>3, <2>4, <2>5, <2>6, <2>7
  <1>2. CASE MarkRetry(f)
    <2>1. outbox' = [i \in DOMAIN outbox |->
             IF i \in f.rows THEN [outbox[i] EXCEPT !.attempts = @ + 1, !.status = given(i)] ELSE outbox[i]]
      BY <1>2 DEF MarkRetry
    <2>2. /\ Arrives(f.rows) \/ UNCHANGED telling
          /\ flights' = flights \ {f} /\ UNCHANGED store
          /\ refusals < Outage /\ refusals' = refusals + 1
      BY <1>2 DEF MarkRetry
    <2>3. \A i \in DOMAIN outbox : i \notin f.rows => outbox'[i] = outbox[i]
      BY <2>1
    <2>4. ASSUME NEW i \in f.rows
          PROVE  /\ i \in DOMAIN outbox /\ outbox'[i] \in Rows
                 /\ outbox'[i].alert = outbox[i].alert /\ outbox'[i].kind = outbox[i].kind
                 /\ outbox'[i].status = given(i) /\ outbox'[i].attempts = outbox[i].attempts + 1
      <3>1. i \in DOMAIN outbox /\ outbox'[i] = [outbox[i] EXCEPT !.attempts = @ + 1, !.status = given(i)]
        BY <2>1, <1>a
      <3>2. given(i) \in {"waiting", "due", "sent", "failed"}
        OBVIOUS
      <3> HIDE DEF given
      <3>3. Answered(outbox[i], given(i), outbox'[i])
        BY <3>1 DEF Answered
      <3> QED BY <3>1, <3>2, <3>3, <1>a, RowIsRow
    <2>5. SameMessages
      <3>0. \A i \in DOMAIN outbox : outbox'[i] \in Rows
        BY <2>3, <2>4, <1>a
      <3>1. outbox' \in [DOMAIN outbox -> Rows]
        <4> DEFINE answer(i) == IF i \in f.rows THEN [outbox[i] EXCEPT !.attempts = @ + 1, !.status = given(i)] ELSE outbox[i]
        <4>1. outbox' = [i \in DOMAIN outbox |-> answer(i)]
          BY <2>1
        <4>2. \A i \in DOMAIN outbox : outbox'[i] = answer(i)
          BY <4>1
        <4> HIDE DEF answer
        <4> QED BY <4>1, <4>2, <3>0
      <3> QED BY <3>1, <2>3, <2>4, <1>a, <1>s
    <2>6. \A i \in f.rows : Refused(i)
      BY <2>2, <2>4 DEF Refused
    <2>7. WordsAreKept
      BY <2>2, <1>b, <1>c
    <2> QED BY <2>2, <2>3, <2>4, <2>5, <2>6, <2>7
  <1> QED BY <1>1, <1>2

-----------------------------------------------------------------------------
(* The outbox: what holds of it.                                           *)

(* A row that Discord has not been told of will still be posted, and has been  *)
(* refused as often as Discord refused anything, at most.                  *)
StillToCome ==
  \A i \in DOMAIN outbox :
    Delivered(i) \/ (Pending(outbox[i]) /\ outbox[i].attempts <= refusals)

(* An alert that counts as announced has been told of or has a row.       *)
Noticed ==
  \A k \in Conditions :
    store[k].notified # "never" =>
      "alert" \in Told(k) \/ \E i \in DOMAIN outbox : outbox[i].alert = k /\ outbox[i].kind = "alert"

(* Discord refuses fewer posts than a message has attempts.                *)
OutageIsShort == Outage < MaxAttempts

LEMMA AppendedIs ==
  ASSUME Tables, NEW k \in Conditions, NEW kind \in {"alert", "resolved"},
         outbox' = Append(outbox, Row(k, kind))
  PROVE  /\ outbox' \in Seq(Rows) /\ Len(outbox') = Len(outbox) + 1
         /\ DOMAIN outbox' = 1..(Len(outbox) + 1)
         /\ \A i \in DOMAIN outbox : i \in DOMAIN outbox' /\ outbox'[i] = outbox[i]
         /\ \A i \in DOMAIN outbox' : i \notin DOMAIN outbox =>
              /\ outbox'[i].alert = k /\ outbox'[i].kind = kind
              /\ outbox'[i].status = "waiting" /\ outbox'[i].attempts = 0
         /\ \E i \in DOMAIN outbox' : outbox'[i].alert = k /\ outbox'[i].kind = kind
  <1>1. Row(k, kind) \in Rows
    BY DEF Row, Rows
  <1>2. /\ Row(k, kind).alert = k /\ Row(k, kind).kind = kind
        /\ Row(k, kind).status = "waiting" /\ Row(k, kind).attempts = 0
    BY DEF Row
  <1>3. /\ outbox' \in Seq(Rows) /\ Len(outbox') = Len(outbox) + 1
        /\ \A i \in 1..Len(outbox) : outbox'[i] = outbox[i]
        /\ outbox'[Len(outbox) + 1] = Row(k, kind)
    BY <1>1, OutboxIs, AppendProperties
  <1>4. DOMAIN outbox' = 1..Len(outbox') /\ DOMAIN outbox = 1..Len(outbox) /\ Len(outbox) \in Nat
    BY <1>3, OutboxIs, LenProperties
  <1> QED BY <1>2, <1>3, <1>4

(* The three invariants after a step that appends a row or leaves the      *)
(* outbox alone, and touches one row of the other table.                   *)
LEMMA RowTouched ==
  ASSUME Tables, NEW k \in Conditions, NEW new \in AlertRows, store' = [store EXCEPT ![k] = new],
         UNCHANGED <<flights, refusals, heard, counted>>,
         \/ UNCHANGED outbox /\ (new.notified = "never" \/ store[k].notified # "never")
         \/ /\ outbox' = Append(outbox, Row(k, "alert"))
         \/ /\ outbox' = Append(outbox, Row(k, "resolved"))
            /\ new.notified = "never" \/ store[k].notified # "never"
  PROVE  /\ Tables' /\ (SentWasHeard => SentWasHeard')
         /\ (StillToCome => StillToCome') /\ (Noticed => Noticed')
  <1>a. /\ store \in [Conditions -> AlertRows]
        /\ heard \in [Conditions -> SUBSET {"alert", "resolved"}]
        /\ counted \in [Conditions -> SUBSET {"alert", "resolved"}]
        /\ \A f \in flights : f.id \in 1..MaxFlights /\ f.rows \subseteq DOMAIN outbox
        /\ refusals \in Nat /\ outbox \in Seq(Rows)
    BY DEF Tables
  <1>b. store' \in [Conditions -> AlertRows] /\ store'[k] = new /\ \A q \in Conditions : q # k => store'[q] = store[q]
    BY <1>a
  <1>1. /\ outbox' \in Seq(Rows)
        /\ \A i \in DOMAIN outbox : i \in DOMAIN outbox' /\ outbox'[i] = outbox[i]
        /\ \A i \in DOMAIN outbox' : i \notin DOMAIN outbox =>
              outbox'[i].status = "waiting" /\ outbox'[i].attempts = 0
        /\ \/ new.notified = "never" \/ store[k].notified # "never"
           \/ \E i \in DOMAIN outbox' : outbox'[i].alert = k /\ outbox'[i].kind = "alert"
    <2>1. CASE UNCHANGED outbox /\ (new.notified = "never" \/ store[k].notified # "never")
      BY <2>1, <1>a
    <2>2. CASE outbox' = Append(outbox, Row(k, "alert"))
      <3>1. "alert" \in {"alert", "resolved"}
        OBVIOUS
      <3> QED BY <3>1, <2>2, AppendedIs
    <2>3. CASE /\ outbox' = Append(outbox, Row(k, "resolved"))
               /\ new.notified = "never" \/ store[k].notified # "never"
      <3>1. "resolved" \in {"alert", "resolved"}
        OBVIOUS
      <3> QED BY <3>1, <2>3, AppendedIs
    <2> QED BY <2>1, <2>2, <2>3
  <1>2. Tables'
    BY <1>a, <1>b, <1>1 DEF Tables
  <1>3. SentWasHeard => SentWasHeard'
    BY <1>1 DEF SentWasHeard, Told
  <1>4. StillToCome => StillToCome'
    <2> SUFFICES ASSUME StillToCome, NEW i \in DOMAIN outbox'
                 PROVE  Delivered(i)' \/ (Pending(outbox[i])' /\ outbox'[i].attempts <= refusals)
      BY DEF StillToCome
    <2>1. CASE i \in DOMAIN outbox
      BY <2>1, <1>1 DEF StillToCome, Delivered, Pending
    <2>2. CASE i \notin DOMAIN outbox
      BY <2>2, <1>1, <1>a DEF Pending
    <2> QED BY <2>1, <2>2
  <1>5. Noticed => Noticed'
    <2> SUFFICES ASSUME Noticed, NEW q \in Conditions, store'[q].notified # "never", "alert" \notin Told(q)
                 PROVE  \E i \in DOMAIN outbox' : outbox'[i].alert = q /\ outbox'[i].kind = "alert"
      BY DEF Noticed, Told
    <2>1. CASE store[q].notified # "never"
      BY <2>1, <1>1 DEF Noticed, Told
    <2>2. CASE store[q].notified = "never"
      BY <2>2, <1>1, <1>b
    <2> QED BY <2>1, <2>2
  <1> QED BY <1>2, <1>3, <1>4, <1>5

LEMMA RaiseKeeps ==
  ASSUME Tables, NEW k \in Conditions, NEW severity \in Severities, Raise(k, severity)
  PROVE  /\ Tables' /\ (SentWasHeard => SentWasHeard')
         /\ (StillToCome => StillToCome') /\ (Noticed => Noticed')
  <1>1. store[k] \in AlertRows /\ severity \in Info..Critical
    BY DeliveryAssumption DEF Tables
  <1>2. /\ Raised(store[k], severity) \in AlertRows /\ Marked(Raised(store[k], severity), severity) \in AlertRows
        /\ Raised(store[k], severity).notified = store[k].notified
    BY <1>1, RowIsAlertRow
  <1>3. UNCHANGED <<flights, refusals, heard, counted>>
    BY DEF Raise, telling
  <1>4. CASE IsQueued(store[k], severity)
    <2>1. /\ store' = [store EXCEPT ![k] = Marked(Raised(store[k], severity), severity)]
          /\ outbox' = Append(outbox, Row(k, "alert"))
      BY <1>4 DEF Raise
    <2> QED BY <2>1, <1>2, <1>3, RowTouched
  <1>5. CASE ~IsQueued(store[k], severity)
    <2>1. store' = [store EXCEPT ![k] = Raised(store[k], severity)] /\ UNCHANGED outbox
      BY <1>5 DEF Raise
    <2>2. Raised(store[k], severity).notified = "never" \/ store[k].notified # "never"
      BY <1>2
    <2> QED BY <2>1, <2>2, <1>2, <1>3, RowTouched
  <1> QED BY <1>4, <1>5

LEMMA ResolveKeeps ==
  ASSUME Tables, NEW k \in Conditions, Resolve(k)
  PROVE  /\ Tables' /\ (SentWasHeard => SentWasHeard')
         /\ (StillToCome => StillToCome') /\ (Noticed => Noticed')
  <1>1. store[k] \in AlertRows /\ store' = [store EXCEPT ![k] = Resolved(store[k])]
    BY DEF Resolve, Tables
  <1>2. Resolved(store[k]) \in AlertRows /\ Resolved(store[k]).notified = store[k].notified
    <2>1. Info \in Info..Critical
      BY DEF Info, Critical
    <2> QED BY <2>1, <1>1, RowIsAlertRow
  <1>3. UNCHANGED <<flights, refusals, heard, counted>>
    BY DEF Resolve, telling
  <1>4. Resolved(store[k]).notified = "never" \/ store[k].notified # "never"
    BY <1>2
  <1>5. outbox' = Append(outbox, Row(k, "resolved")) \/ UNCHANGED outbox
    BY DEF Resolve
  <1> QED BY <1>1, <1>2, <1>3, <1>4, <1>5, RowTouched

LEMMA AttentionKeeps ==
  ASSUME Tables, Attended \/ \E k \in Conditions : NotificationAges(k)
  PROVE  /\ Tables' /\ (SentWasHeard => SentWasHeard')
         /\ (StillToCome => StillToCome') /\ (Noticed => Noticed')
  <1>1. UNCHANGED <<outbox, flights, refusals, heard, counted>>
    BY DEF Attended, NotificationAges, telling
  <1>2. \A row \in AlertRows : row.notified # "never" => [row EXCEPT !.notified = "past"] \in AlertRows
    BY DEF AlertRows
  <1>3. PICK k, new :
           /\ k \in Conditions
           /\ store' = [store EXCEPT ![k] = new]
           /\ \/ new = Acknowledged(store[k]) \/ new = Forgotten(store[k])
              \/ store[k].notified # "never" /\ new = [store[k] EXCEPT !.notified = "past"]
    <2>1. CASE Attended
      <3>1. PICK k \in Conditions :
               store' \in {[store EXCEPT ![k] = Acknowledged(@)], [store EXCEPT ![k] = Forgotten(@)]}
        BY <2>1 DEF Attended
      <3>2. store \in [Conditions -> AlertRows]
        BY DEF Tables
      <3>3. \/ store' = [store EXCEPT ![k] = Acknowledged(store[k])]
            \/ store' = [store EXCEPT ![k] = Forgotten(store[k])]
        BY <3>1, <3>2
      <3> QED BY <3>3
    <2>2. ASSUME NEW k \in Conditions, NotificationAges(k)
          PROVE  \E new : /\ store' = [store EXCEPT ![k] = new]
                          /\ store[k].notified # "never" /\ new = [store[k] EXCEPT !.notified = "past"]
      <3>1. store' = [store EXCEPT ![k].notified = "past"] /\ store[k].notified = "recent"
        BY <2>2 DEF NotificationAges
      <3>2. store' = [store EXCEPT ![k] = [store[k] EXCEPT !.notified = "past"]]
        BY <3>1
      <3> QED BY <3>1, <3>2
    <2> QED BY <2>1, <2>2
  <1>4. k \in Conditions /\ store[k] \in AlertRows
    BY <1>3 DEF Tables
  <1>5. new \in AlertRows /\ (new.notified = "never" \/ store[k].notified # "never")
    <2>1. Info \in Info..Critical
      BY DEF Info, Critical
    <2>2. /\ Acknowledged(store[k]) \in AlertRows /\ Acknowledged(store[k]).notified = store[k].notified
          /\ Forgotten(store[k]) \in AlertRows
          /\ Forgotten(store[k]) = store[k] \/ Forgotten(store[k]).notified = "never"
      BY <1>4, <2>1, RowIsAlertRow
    <2> QED BY <1>2, <1>3, <1>4, <2>2
  <1> QED BY <1>1, <1>3, <1>4, <1>5, RowTouched

LEMMA DueKeeps ==
  ASSUME Tables, NEW i \in DOMAIN outbox, BecomesDue(i)
  PROVE  /\ Tables' /\ (SentWasHeard => SentWasHeard')
         /\ (StillToCome => StillToCome') /\ (Noticed => Noticed')
  <1>a. /\ outbox[i].status = "waiting" /\ UNCHANGED <<store, flights, refusals, heard, counted>>
        /\ outbox[i] \in Rows /\ outbox \in Seq(Rows) /\ i \in 1..Len(outbox)
    BY OutboxIs DEF BecomesDue, telling
  <1>1. outbox' = [outbox EXCEPT ![i] = [outbox[i] EXCEPT !.status = "due"]]
    BY DEF BecomesDue
  <1>2. PICK new : new = [outbox[i] EXCEPT !.status = "due"]
    OBVIOUS
  <1>3. /\ new \in Rows /\ new.alert = outbox[i].alert /\ new.kind = outbox[i].kind
        /\ new.status = "due" /\ new.attempts = outbox[i].attempts
    BY <1>2, <1>a DEF Rows
  <1>4. outbox' = [outbox EXCEPT ![i] = new]
    BY <1>1, <1>2
  <1>5. /\ outbox' \in Seq(Rows) /\ Len(outbox') = Len(outbox)
        /\ \A j \in 1..Len(outbox) : outbox'[j] = IF j = i THEN new ELSE outbox[j]
    BY <1>3, <1>4, <1>a, ExceptSeq
  <1>6. DOMAIN outbox' = DOMAIN outbox /\ DOMAIN outbox = 1..Len(outbox)
    BY <1>5, OutboxIs, LenProperties
  <1>7. Tables'
    BY <1>a, <1>5, <1>6 DEF Tables
  <1>8. \A j \in DOMAIN outbox :
           /\ outbox'[j].alert = outbox[j].alert /\ outbox'[j].kind = outbox[j].kind
           /\ outbox'[j].attempts = outbox[j].attempts
           /\ outbox'[j].status = outbox[j].status \/ (outbox'[j].status = "due" /\ outbox[j].status = "waiting")
    BY <1>a, <1>3, <1>5, <1>6
  <1>9. SentWasHeard => SentWasHeard'
    BY <1>a, <1>6, <1>8 DEF SentWasHeard, Told
  <1>10. StillToCome => StillToCome'
    BY <1>a, <1>6, <1>8 DEF StillToCome, Delivered, Pending
  <1>11. Noticed => Noticed'
    BY <1>a, <1>6, <1>8 DEF Noticed, Told
  <1> QED BY <1>7, <1>9, <1>10, <1>11

LEMMA BeginKeeps ==
  ASSUME Tables, FlushBegins
  PROVE  /\ Tables' /\ (SentWasHeard => SentWasHeard')
         /\ (StillToCome => StillToCome') /\ (Noticed => Noticed')
  <1>1. PICK f \in 1..MaxFlights : flights' = flights \cup {[id |-> f, rows |-> FirstDue]}
    BY DEF FlushBegins
  <1>2. UNCHANGED <<store, outbox, refusals, heard, counted>>
    BY DEF FlushBegins, telling
  <1>3. FirstDue \subseteq DOMAIN outbox
    BY DEF FirstDue, DueRows
  <1>4. Tables'
    BY <1>1, <1>2, <1>3 DEF Tables
  <1> QED BY <1>2, <1>4 DEF SentWasHeard, StillToCome, Delivered, Noticed, Pending, Told

(* Two flushes of the same rows may end one after the other: what one sent *)
(* has been told of, whatever the other makes of the row.                  *)
LEMMA AnswerKeeps ==
  ASSUME Tables, NEW f \in flights, FlushSent(f) \/ MarkRetry(f)
  PROVE  /\ Tables' /\ (SentWasHeard => SentWasHeard')
         /\ (OutageIsShort /\ StillToCome => StillToCome') /\ (Noticed => Noticed')
  <1>a. /\ SameMessages /\ WordsAreKept
        /\ \A i \in DOMAIN outbox : i \notin f.rows => outbox'[i] = outbox[i]
        /\ \A i \in f.rows : /\ i \in DOMAIN outbox /\ outbox'[i].attempts = outbox[i].attempts + 1
                             /\ (outbox'[i].status = "sent" /\ Delivered(i)') \/ Refused(i)
        /\ flights' \subseteq flights /\ store' = store
        /\ refusals' \in {refusals, refusals + 1}
    BY AnswerIs
  <1>b. /\ \A i \in DOMAIN outbox : outbox[i].alert \in Conditions /\ outbox[i] \in Rows
        /\ heard \in [Conditions -> SUBSET {"alert", "resolved"}]
        /\ counted \in [Conditions -> SUBSET {"alert", "resolved"}]
        /\ refusals \in Nat
    BY OutboxIs DEF Tables
  <1>c. \A i \in DOMAIN outbox : Delivered(i) => Delivered(i)'
    BY <1>a, <1>b DEF Delivered, SameMessages, WordsAreKept
  <1>1. Tables'
    BY <1>a, <1>b DEF Tables, SameMessages, WordsAreKept
  <1>2. SentWasHeard => SentWasHeard'
    <2> SUFFICES ASSUME SentWasHeard, NEW i \in DOMAIN outbox', outbox'[i].status = "sent" PROVE Delivered(i)'
      BY DEF SentWasHeard, Delivered, Told
    <2>1. i \in DOMAIN outbox
      BY <1>a DEF SameMessages
    <2>2. CASE i \in f.rows
      BY <2>2, <1>a DEF Refused
    <2>3. CASE i \notin f.rows
      BY <2>1, <2>3, <1>a, <1>c DEF SentWasHeard, Delivered, Told
    <2> QED BY <2>2, <2>3
  <1>3. OutageIsShort /\ StillToCome => StillToCome'
    <2> SUFFICES ASSUME OutageIsShort, StillToCome, NEW i \in DOMAIN outbox', ~Delivered(i)'
                 PROVE  Pending(outbox[i])' /\ outbox'[i].attempts <= refusals'
      BY DEF StillToCome
    <2>1. i \in DOMAIN outbox
      BY <1>a DEF SameMessages
    <2>2. ~Delivered(i)
      BY <2>1, <1>c
    <2>3. Pending(outbox[i]) /\ outbox[i].attempts <= refusals /\ outbox[i].attempts \in Nat
      BY <2>1, <2>2, <1>b DEF StillToCome, Rows
    <2>4. CASE i \in f.rows
      <3>1. Refused(i) /\ outbox'[i].attempts = outbox[i].attempts + 1
        BY <2>4, <1>a
      <3>2. outbox[i].attempts + 1 < MaxAttempts
        BY <3>1, <2>3, <1>b, DeliveryAssumption DEF Refused, OutageIsShort
      <3>3. outbox'[i].status = "waiting"
        BY <3>1, <3>2, <2>3, DeliveryAssumption DEF Refused
      <3> QED BY <3>1, <3>3, <2>3, <1>b DEF Refused, Pending
    <2>5. CASE i \notin f.rows
      <3>1. outbox'[i] = outbox[i]
        BY <2>1, <2>5, <1>a
      <3> QED BY <3>1, <2>3, <1>a, <1>b DEF Pending
    <2> QED BY <2>4, <2>5
  <1>4. Noticed => Noticed'
    BY <1>a, <1>b DEF Noticed, SameMessages, WordsAreKept, Told
  <1> QED BY <1>1, <1>2, <1>3, <1>4

LEMMA PruneKeeps ==
  ASSUME Tables, PruneNotifications
  PROVE  /\ Tables' /\ (SentWasHeard => SentWasHeard')
         /\ (StillToCome => StillToCome') /\ (StillToCome /\ Noticed => Noticed')
  <1>a. /\ flights = {} /\ outbox # <<>> /\ Head(outbox).status \in {"sent", "failed"}
        /\ outbox' = Tail(outbox) /\ UNCHANGED <<store, flights, refusals, heard, counted>>
        /\ outbox \in Seq(Rows) /\ Len(outbox) \in Nat /\ DOMAIN outbox = 1..Len(outbox)
    BY OutboxIs DEF PruneNotifications, telling
  <1>1. /\ outbox' \in Seq(Rows) /\ Len(outbox') = Len(outbox) - 1
        /\ \A i \in 1..Len(outbox') : outbox'[i] = outbox[i + 1]
        /\ Len(outbox) > 0 /\ Head(outbox) = outbox[1]
    BY <1>a, HeadTailProperties, EmptySeq
  <1>2. DOMAIN outbox' = 1..(Len(outbox) - 1)
    BY <1>1, LenProperties
  <1>3. \A i \in DOMAIN outbox' : i + 1 \in DOMAIN outbox /\ outbox'[i] = outbox[i + 1]
    BY <1>a, <1>1, <1>2
  <1>4. Tables'
    BY <1>a, <1>1 DEF Tables
  <1>5. (SentWasHeard => SentWasHeard') /\ (StillToCome => StillToCome')
    BY <1>a, <1>3 DEF SentWasHeard, StillToCome, Delivered, Pending, Told
  <1>6. StillToCome /\ Noticed => Noticed'
    <2> SUFFICES ASSUME StillToCome, Noticed, NEW k \in Conditions, store[k].notified # "never",
                        "alert" \notin Told(k)
                 PROVE  \E i \in DOMAIN outbox' : outbox'[i].alert = k /\ outbox'[i].kind = "alert"
      BY <1>a DEF Noticed, Told
    <2>1. PICK i \in DOMAIN outbox : outbox[i].alert = k /\ outbox[i].kind = "alert"
      BY DEF Noticed, Told
    <2>2. ~Delivered(i)
      BY <2>1 DEF Delivered, Told
    <2>3. i # 1
      BY <2>2, <1>a, <1>1 DEF StillToCome, Pending
    <2>4. i - 1 \in DOMAIN outbox' /\ outbox'[i - 1] = outbox[i]
      BY <2>3, <1>a, <1>1, <1>2
    <2> QED BY <2>1, <2>4
  <1> QED BY <1>4, <1>5, <1>6

LEMMA ServiceRestartKeeps ==
  ASSUME Tables, RestartService
  PROVE  /\ Tables' /\ (SentWasHeard => SentWasHeard')
         /\ (StillToCome => StillToCome') /\ (Noticed => Noticed')
  <1>a. /\ flights' = {} /\ UNCHANGED <<store, outbox, refusals>>
        /\ UNCHANGED telling \/ \E f \in flights : Arrives(f.rows)
    BY DEF RestartService
  <1>b. /\ heard \in [Conditions -> SUBSET {"alert", "resolved"}]
        /\ counted \in [Conditions -> SUBSET {"alert", "resolved"}]
        /\ \A f \in flights : f.rows \subseteq DOMAIN outbox
        /\ \A i \in DOMAIN outbox : outbox[i].alert \in Conditions
    BY OutboxIs DEF Tables
  <1>1. WordsAreKept
    <2>1. CASE UNCHANGED telling
      BY <2>1, <1>b DEF WordsAreKept, telling
    <2>2. ASSUME NEW f \in flights, Arrives(f.rows) PROVE WordsAreKept
      BY <2>2, <1>b, ArrivesTells
    <2> QED BY <2>1, <2>2, <1>a
  <1>2. Tables'
    BY <1>1, <1>a DEF Tables, WordsAreKept
  <1>3. \A i \in DOMAIN outbox : Delivered(i) => Delivered(i)'
    BY <1>1, <1>a, <1>b DEF Delivered, WordsAreKept
  <1>4. (SentWasHeard => SentWasHeard') /\ (StillToCome => StillToCome')
    BY <1>3, <1>a DEF SentWasHeard, StillToCome, Delivered, Pending, Told
  <1>5. Noticed => Noticed'
    BY <1>1, <1>a DEF Noticed, WordsAreKept, Told
  <1> QED BY <1>2, <1>4, <1>5

LEMMA DeliveryStarts == InitDelivery => Tables /\ SentWasHeard /\ StillToCome /\ Noticed
  <1> SUFFICES ASSUME InitDelivery PROVE Tables /\ SentWasHeard /\ StillToCome /\ Noticed
    OBVIOUS
  <1>1. NoAlert \in AlertRows /\ NoAlert.notified = "never"
    BY DEF NoAlert, AlertRows, Info, Critical
  <1>2. outbox \in Seq(Rows) /\ DOMAIN outbox = {}
    BY EmptySeq DEF InitDelivery
  <1>3. Tables
    BY <1>1, <1>2 DEF InitDelivery, Tables
  <1> QED BY <1>1, <1>2, <1>3 DEF InitDelivery, SentWasHeard, StillToCome, Noticed, Told

LEMMA DeliverySteps ==
  Tables /\ [NextDelivery]_deliveryVars =>
    /\ Tables' /\ (SentWasHeard => SentWasHeard')
    /\ (OutageIsShort /\ StillToCome /\ Noticed => (StillToCome /\ Noticed)')
  <1> SUFFICES ASSUME Tables, [NextDelivery]_deliveryVars
               PROVE  /\ Tables' /\ (SentWasHeard => SentWasHeard')
                      /\ (OutageIsShort /\ StillToCome /\ Noticed => (StillToCome /\ Noticed)')
    OBVIOUS
  <1>1. CASE UNCHANGED deliveryVars
    BY <1>1 DEF deliveryVars, telling, Tables, SentWasHeard, StillToCome, Noticed, Delivered, Pending, Told
  <1> QED
    BY <1>1, RaiseKeeps, ResolveKeeps, AttentionKeeps, DueKeeps, BeginKeeps, AnswerKeeps, PruneKeeps,
       ServiceRestartKeeps DEF NextDelivery

(* Every table and every flush stays in its type.                          *)
THEOREM DeliveryTypeCorrect == DeliverySpec => []DeliveryTypeOK
  <1>1. InitDelivery => Tables
    BY DeliveryStarts
  <1>2. Tables /\ [NextDelivery]_deliveryVars => Tables'
    BY DeliverySteps
  <1> QED BY <1>1, <1>2, TablesAreTyped, PTL DEF DeliverySpec

(* A message that counts as sent has been shown, or been one of the "more  *)
(* alerts" of a message that arrived, however long an outage lasts and     *)
(* however the flushes overlap (flush() and buildDiscordMessage() of       *)
(* discord-notifier.ts).                                                   *)
THEOREM SentMeansHeard == DeliverySpec => []SentWasHeard
  <1>1. InitDelivery => Tables /\ SentWasHeard
    BY DeliveryStarts
  <1>2. Tables /\ SentWasHeard /\ [NextDelivery]_deliveryVars => (Tables /\ SentWasHeard)'
    BY DeliverySteps
  <1> QED BY <1>1, <1>2, PTL DEF DeliverySpec

(* While outages stay shorter than the retries cover, an alert that counts *)
(* as announced has been shown or counted or is on its way: the            *)
(* suppression of repeats in discord-notifier.ts hides no alert of which   *)
(* the operator has not had at least the count.                            *)
THEOREM OutboxIsTruthful == ASSUME OutageIsShort PROVE DeliverySpec => []OutboxTellsTheTruth
  <1>1. InitDelivery => Tables /\ SentWasHeard /\ StillToCome /\ Noticed
    BY DeliveryStarts
  <1>2. Tables /\ SentWasHeard /\ StillToCome /\ Noticed /\ [NextDelivery]_deliveryVars
          => (Tables /\ SentWasHeard /\ StillToCome /\ Noticed)'
    BY DeliverySteps
  <1>3. SentWasHeard /\ StillToCome /\ Noticed => OutboxTellsTheTruth
    BY DEF OutboxTellsTheTruth, AnnouncedOrQueued, StillToCome, Noticed, Delivered, Told
  <1> QED BY <1>1, <1>2, <1>3, PTL DEF DeliverySpec

-----------------------------------------------------------------------------
(* The reports: keys, findings and scopes.                                 *)

LEMMA KeysAre ==
  /\ Attribute.category = "smart" /\ Attribute.entity = "drive" /\ Attribute.condition = "attr"
  /\ Temperature.category = "smart" /\ Temperature.entity = "drive" /\ Temperature.condition = "temperature"
  /\ Latency.category = "performance" /\ Latency.entity = "drive"
  /\ Uncached.category = "performance" /\ Uncached.entity = "uncached"
  /\ FreeSpace.category = "volume" /\ FreeSpace.entity = "volume" /\ FreeSpace.condition = "free-space"
  /\ Dirty.category = "volume" /\ Dirty.entity = "volume" /\ Dirty.condition = "dirty"
  /\ PoolSpace.category = "pool" /\ PoolSpace.entity = "pool" /\ PoolSpace.condition = "free-space"
  /\ PartMissing.category = "pool" /\ PartMissing.entity = "pool" /\ PartMissing.condition = "missing"
  /\ Stale.category = "agent" /\ Stale.entity = "host"
  /\ Unreadable.category = "catalog" /\ Unreadable.entity = "root"
  BY DEF Attribute, Temperature, Latency, Uncached, FreeSpace, Dirty, PoolSpace, PartMissing, Stale, Unreadable,
         ConditionKey

(* A set of findings says one thing of each condition it covers.           *)
Findings(pairs) ==
  /\ \A p \in pairs : p[1] \in ReportKeys /\ p[2] \in NoFinding..Critical
  /\ \A p, q \in pairs : p[1] = q[1] => p[2] = q[2]

Covers(pairs, k) == \E p \in pairs : p[1] = k

LEMMA LevelsAre ==
  ASSUME NEW r
  PROVE  /\ \A new, old : AttributeLevel(new, old) \in NoFinding..Critical
         /\ \A free : FreeSpaceLevel(free) \in NoFinding..Critical /\ PoolSpaceLevel(free) \in NoFinding..Critical
         /\ \A taken : LatencyLevel(taken) \in NoFinding..Critical
         /\ NoFinding \in NoFinding..Critical /\ Warning \in NoFinding..Critical /\ Critical \in NoFinding..Critical
  BY DEF AttributeLevel, AtWorst, FreeSpaceLevel, PoolSpaceLevel, SpaceLevel, LatencyLevel,
         NoFinding, Warning, Critical

LEMMA FindingsAre ==
  ASSUME NEW r
  PROVE  Findings(FindingsOf(r))
  <1>1. \A p \in SmartFindings(r) : p[1] \in {Attribute, Temperature} /\ p[2] \in NoFinding..Critical
    BY LevelsAre DEF SmartFindings
  <1>2. \A p \in VolumeFindings(r) : p[1] \in {Dirty, FreeSpace} /\ p[2] \in NoFinding..Critical
    BY LevelsAre DEF VolumeFindings
  <1>3. \A p \in PerformanceFindings(r) : p[1] = Latency /\ p[2] \in NoFinding..Critical
    BY LevelsAre DEF PerformanceFindings
  <1>4. \A p \in PoolFindings(r) : p[1] \in {PoolSpace, PartMissing} /\ p[2] \in NoFinding..Critical
    BY LevelsAre DEF PoolFindings
  <1>5. \A p \in CacheFindings(r) : p[1] = Uncached /\ p[2] \in NoFinding..Critical
    BY LevelsAre DEF CacheFindings
  <1>6. \A p, q \in SmartFindings(r) : p[1] = q[1] => p[2] = q[2]
    BY KeysAre DEF SmartFindings
  <1>7. \A p, q \in VolumeFindings(r) : p[1] = q[1] => p[2] = q[2]
    BY KeysAre DEF VolumeFindings
  <1>8. \A p, q \in PerformanceFindings(r) : p[1] = q[1] => p[2] = q[2]
    BY DEF PerformanceFindings
  <1>9. \A p, q \in PoolFindings(r) : p[1] = q[1] => p[2] = q[2]
    BY KeysAre DEF PoolFindings
  <1>10. \A p, q \in CacheFindings(r) : p[1] = q[1] => p[2] = q[2]
    BY DEF CacheFindings
  <1>11. \A p \in FindingsOf(r) : p[1] \in ReportKeys /\ p[2] \in NoFinding..Critical
    BY <1>1, <1>2, <1>3, <1>4, <1>5 DEF FindingsOf, ReportKeys
  <1>12. ASSUME NEW p \in FindingsOf(r), NEW q \in FindingsOf(r), p[1] = q[1]
         PROVE  p[2] = q[2]
    <2>1. CASE p \in SmartFindings(r)
      <3>1. q \in SmartFindings(r)
        BY <2>1, <1>12, <1>1, <1>2, <1>3, <1>4, <1>5, KeysAre DEF FindingsOf
      <3> QED BY <3>1, <2>1, <1>6, <1>12
    <2>2. CASE p \in VolumeFindings(r)
      <3>1. q \in VolumeFindings(r)
        BY <2>2, <1>12, <1>1, <1>2, <1>3, <1>4, <1>5, KeysAre DEF FindingsOf
      <3> QED BY <3>1, <2>2, <1>7, <1>12
    <2>3. CASE p \in PerformanceFindings(r)
      <3>1. q \in PerformanceFindings(r)
        BY <2>3, <1>12, <1>1, <1>2, <1>3, <1>4, <1>5, KeysAre DEF FindingsOf
      <3> QED BY <3>1, <2>3, <1>8, <1>12
    <2>4. CASE p \in PoolFindings(r)
      <3>1. q \in PoolFindings(r)
        BY <2>4, <1>12, <1>1, <1>2, <1>3, <1>4, <1>5, KeysAre DEF FindingsOf
      <3> QED BY <3>1, <2>4, <1>9, <1>12
    <2>5. CASE p \in CacheFindings(r)
      <3>1. q \in CacheFindings(r)
        BY <2>5, <1>12, <1>1, <1>2, <1>3, <1>4, <1>5, KeysAre DEF FindingsOf
      <3> QED BY <3>1, <2>5, <1>10, <1>12
    <2> QED BY <2>1, <2>2, <2>3, <2>4, <2>5, <1>12 DEF FindingsOf
  <1> QED BY <1>11, <1>12 DEF Findings

ScopesOf(r) == ReconcileScopes(r) \cup PoolScopes(r) \cup CacheScopes(r)

(* A report may clear the conditions it speaks about, those of the same    *)
(* entity for which it has no value, and no others: the entity prefix of   *)
(* each scope keeps two collectors of one category apart.                  *)
LEMMA ScopesAre ==
  ASSUME NEW r, NEW k \in ReportKeys
  PROVE  /\ InScope(k, ScopesOf(r)) <=> Covers(FindingsOf(r), k) \/ k \in Unlooked(r)
         /\ k \in Unlooked(r) => ~Covers(FindingsOf(r), k) /\ k \in {Attribute, Temperature, Dirty}
  <1> DEFINE smart == r.smart # Missing
  <1> DEFINE volume == r.volume \notin {Missing, Gone}
  <1> DEFINE perf == r.sample # Missing /\ switches.performance
  <1> DEFINE pool == r.pool # Missing
  <1> DEFINE cache == r.cache # Missing
  <1> DEFINE attr == r.smart.raw # Unreported
  <1> DEFINE temp == r.smart.hot # Unreported
  <1> DEFINE dirty == r.volume.dirty # Unreported
  <1>1. InScope(k, ScopesOf(r)) <=>
           \/ smart /\ k.category = "smart" /\ k.entity = "drive"
           \/ volume /\ k.category = "volume" /\ k.entity = "volume"
           \/ perf /\ k.category = "performance" /\ k.entity = "drive"
           \/ pool /\ k.category = "pool" /\ k.entity = "pool"
           \/ cache /\ k.category = "performance" /\ k.entity = "uncached"
    <2> DEFINE is(s, c, e) == s.category = c /\ s.entity = e
    <2>1. \A s : s \in ScopesOf(r) =>
             \/ smart /\ is(s, "smart", "drive")
             \/ volume /\ is(s, "volume", "volume")
             \/ perf /\ is(s, "performance", "drive")
             \/ pool /\ is(s, "pool", "pool")
             \/ cache /\ is(s, "performance", "uncached")
      BY DEF ScopesOf, ReconcileScopes, PoolScopes, CacheScopes
    <2>2. /\ smart => [category |-> "smart", entity |-> "drive"] \in ScopesOf(r)
          /\ volume => [category |-> "volume", entity |-> "volume"] \in ScopesOf(r)
          /\ perf => [category |-> "performance", entity |-> "drive"] \in ScopesOf(r)
          /\ pool => [category |-> "pool", entity |-> "pool"] \in ScopesOf(r)
          /\ cache => [category |-> "performance", entity |-> "uncached"] \in ScopesOf(r)
      BY DEF ScopesOf, ReconcileScopes, PoolScopes, CacheScopes
    <2> HIDE DEF smart, volume, perf, pool, cache
    <2> QED BY <2>1, <2>2 DEF InScope, AnyEntity
  <1>2. Covers(FindingsOf(r), k) <=>
           \/ smart /\ attr /\ k = Attribute
           \/ smart /\ temp /\ k = Temperature
           \/ volume /\ dirty /\ k = Dirty
           \/ volume /\ k = FreeSpace
           \/ perf /\ k = Latency
           \/ pool /\ k \in {PoolSpace, PartMissing}
           \/ cache /\ k = Uncached
    <2>1. \A p : p \in FindingsOf(r) =>
             \/ smart /\ attr /\ p[1] = Attribute
             \/ smart /\ temp /\ p[1] = Temperature
             \/ volume /\ dirty /\ p[1] = Dirty
             \/ volume /\ p[1] = FreeSpace
             \/ perf /\ p[1] = Latency
             \/ pool /\ p[1] \in {PoolSpace, PartMissing}
             \/ cache /\ p[1] = Uncached
      BY DEF FindingsOf, SmartFindings, VolumeFindings, PerformanceFindings, PoolFindings, CacheFindings
    <2>2. /\ smart /\ attr => Covers(FindingsOf(r), Attribute)
          /\ smart /\ temp => Covers(FindingsOf(r), Temperature)
      <3>1. \A x : <<Attribute, x>>[1] = Attribute /\ <<Temperature, x>>[1] = Temperature
        OBVIOUS
      <3>2. /\ smart /\ attr => \E x : <<Attribute, x>> \in SmartFindings(r)
            /\ smart /\ temp => \E x : <<Temperature, x>> \in SmartFindings(r)
        BY Zenon DEF SmartFindings
      <3> HIDE DEF smart, attr, temp
      <3> QED BY <3>1, <3>2 DEF Covers, FindingsOf
    <2>3. /\ volume /\ dirty => Covers(FindingsOf(r), Dirty)
          /\ volume => Covers(FindingsOf(r), FreeSpace)
      <3>1. \A x : <<Dirty, x>>[1] = Dirty /\ <<FreeSpace, x>>[1] = FreeSpace
        OBVIOUS
      <3>2. /\ volume /\ dirty => \E x : <<Dirty, x>> \in VolumeFindings(r)
            /\ volume => \E x : <<FreeSpace, x>> \in VolumeFindings(r)
        BY Zenon DEF VolumeFindings
      <3> HIDE DEF volume, dirty
      <3> QED BY <3>1, <3>2 DEF Covers, FindingsOf
    <2>4. perf => Covers(FindingsOf(r), Latency)
      <3>1. perf => \E p \in PerformanceFindings(r) : p[1] = Latency
        BY DEF PerformanceFindings
      <3> QED BY <3>1 DEF Covers, FindingsOf
    <2>5. pool => Covers(FindingsOf(r), PoolSpace) /\ Covers(FindingsOf(r), PartMissing)
      <3>1. pool => /\ \E p \in PoolFindings(r) : p[1] = PoolSpace
                    /\ \E p \in PoolFindings(r) : p[1] = PartMissing
        BY DEF PoolFindings
      <3> QED BY <3>1 DEF Covers, FindingsOf
    <2>6. cache => Covers(FindingsOf(r), Uncached)
      <3>1. cache => \E p \in CacheFindings(r) : p[1] = Uncached
        BY DEF CacheFindings
      <3> QED BY <3>1 DEF Covers, FindingsOf
    <2> HIDE DEF smart, volume, perf, pool, cache, attr, temp, dirty
    <2> QED BY <2>1, <2>2, <2>3, <2>4, <2>5, <2>6 DEF Covers
  <1>3. k \in Unlooked(r) <=>
           \/ smart /\ ~attr /\ k = Attribute
           \/ smart /\ ~temp /\ k = Temperature
           \/ volume /\ ~dirty /\ k = Dirty
    BY DEF Unlooked
  <1> HIDE DEF smart, volume, perf, pool, cache, attr, temp, dirty
  <1> QED BY <1>1, <1>2, <1>3, KeysAre DEF ReportKeys

(* The alerts and the ghost of the last words, of any of the sets of keys. *)
Kept ==
  /\ AlertKeys \in Observed
  /\ alerts \in [AlertKeys -> AlertRows]
  /\ said \in [AlertKeys -> NoFinding..Critical]

(* One collector's pass: what it raises and clears is what it says.        *)
LEMMA CollectedFollows ==
  ASSUME Kept, AlertsFollowTheLastWord, NEW pairs, Findings(pairs), NEW scopes,
         \A k \in AlertKeys : Covers(pairs, k) => InScope(k, scopes),
         \A k \in AlertKeys \ unread' : InScope(k, scopes) /\ ~Covers(pairs, k) => said[k] = NoFinding,
         \A k \in AlertKeys \ unread' : ~InScope(k, scopes) => k \notin unread,
         alerts' = Collected(alerts, RaisedBy(pairs), scopes), said' = Says(pairs)
  PROVE  Kept' /\ AlertsFollowTheLastWord' /\ DOMAIN alerts' = AlertKeys
  <1> DEFINE found == RaisedBy(pairs)
  <1>1. /\ DOMAIN found = {p[1] : p \in {q \in pairs : q[2] # NoFinding}}
        /\ \A k \in DOMAIN found : found[k] = SeverityOf(pairs, k)
    BY DEF RaisedBy
  <1>2. \A p \in pairs : SeverityOf(pairs, p[1]) = p[2]
    <2> SUFFICES ASSUME NEW p \in pairs PROVE SeverityOf(pairs, p[1]) = p[2]
      OBVIOUS
    <2>1. PICK q : q = CHOOSE x \in pairs : x[1] = p[1]
      OBVIOUS
    <2>2. q \in pairs /\ q[1] = p[1]
      BY <2>1
    <2>3. SeverityOf(pairs, p[1]) = q[2]
      BY <2>1 DEF SeverityOf
    <2> QED BY <2>2, <2>3 DEF Findings
  <1>3. alerts' = [k \in AlertKeys |->
            IF k \in DOMAIN found THEN Raised(alerts[k], found[k])
            ELSE IF InScope(k, scopes) THEN Resolved(alerts[k]) ELSE alerts[k]]
    BY DEF Collected, AlertKeys
  <1>4. said' = [k \in AlertKeys |-> IF Covers(pairs, k) THEN SeverityOf(pairs, k) ELSE said[k]]
    BY DEF Says, Covers
  <1>5. DOMAIN alerts' = AlertKeys
    BY <1>3
  <1>6. ASSUME NEW k \in AlertKeys
        PROVE  /\ alerts'[k] \in AlertRows /\ said'[k] \in NoFinding..Critical
               /\ k \notin unread' => (Unresolved(alerts'[k]) <=> said'[k] # NoFinding)
               /\ k \notin unread' /\ said'[k] # NoFinding => alerts'[k].severity = said'[k]
    <2>a. /\ alerts[k] \in AlertRows /\ said[k] \in NoFinding..Critical
          /\ k \notin unread => (Unresolved(alerts[k]) <=> said[k] # NoFinding)
          /\ k \notin unread /\ said[k] # NoFinding => alerts[k].severity = said[k]
      BY DEF Kept, AlertsFollowTheLastWord
    <2>b. said'[k] = IF Covers(pairs, k) THEN SeverityOf(pairs, k) ELSE said[k]
      BY <1>4
    <2>1. CASE k \in DOMAIN found
      <3>1. PICK p \in pairs : p[1] = k /\ p[2] # NoFinding
        BY <2>1, <1>1
      <3>2. found[k] = p[2] /\ said'[k] = p[2] /\ p[2] \in Info..Critical
        BY <3>1, <2>1, <2>b, <1>1, <1>2 DEF Findings, Covers, NoFinding, Info, Critical
      <3>3. alerts'[k] = Raised(alerts[k], p[2])
        BY <2>1, <3>2, <1>3
      <3>4. Raised(alerts[k], p[2]) \in AlertRows /\ Raised(alerts[k], p[2]).severity = p[2]
            /\ Unresolved(Raised(alerts[k], p[2]))
        BY <3>2, <2>a, RowIsAlertRow
      <3> QED BY <3>1, <3>2, <3>3, <3>4 DEF Findings
    <2>2. CASE k \notin DOMAIN found /\ InScope(k, scopes)
      <3>1. alerts'[k] = Resolved(alerts[k])
        BY <2>2, <1>3
      <3>2. k \notin unread' => said'[k] = NoFinding
        <4>1. CASE Covers(pairs, k)
          <5>1. PICK p \in pairs : p[1] = k
            BY <4>1 DEF Covers
          <5>2. p[2] = NoFinding
            BY <5>1, <2>2, <1>1
          <5> QED BY <5>1, <5>2, <4>1, <2>b, <1>2
        <4>2. CASE ~Covers(pairs, k)
          BY <4>2, <2>2, <2>b
        <4> QED BY <4>1, <4>2
      <3>3. Info \in Info..Critical /\ NoFinding \in NoFinding..Critical
        BY DEF Info, Critical, NoFinding
      <3>4. Resolved(alerts[k]) \in AlertRows /\ ~Unresolved(Resolved(alerts[k]))
        BY <3>3, <2>a, RowIsAlertRow
      <3>5. said'[k] \in NoFinding..Critical
        <4>1. \A p \in pairs : p[1] = k => said'[k] = p[2] /\ p[2] \in NoFinding..Critical
          BY <2>b, <1>2 DEF Covers, Findings
        <4> QED BY <4>1, <2>a, <2>b DEF Covers
      <3> QED BY <3>1, <3>2, <3>4, <3>5
    <2>3. CASE k \notin DOMAIN found /\ ~InScope(k, scopes)
      BY <2>3, <2>a, <2>b, <1>3
    <2> QED BY <2>1, <2>2, <2>3
  <1>7. AlertKeys' = AlertKeys
    BY <1>5 DEF AlertKeys
  <1>8. alerts' \in [AlertKeys -> AlertRows] /\ said' \in [AlertKeys -> NoFinding..Critical]
    <2>1. DOMAIN said' = AlertKeys /\ \A k \in AlertKeys : said'[k] \in NoFinding..Critical
      BY <1>4, <1>6
    <2>2. \A k \in AlertKeys : alerts'[k] \in AlertRows
      BY <1>6
    <2> HIDE DEF found
    <2> QED BY <1>3, <1>4, <2>1, <2>2
  <1> QED BY <1>5, <1>6, <1>7, <1>8 DEF Kept, AlertsFollowTheLastWord

(* No word about the silence of an agent that has never reported.          *)
NotYetStale == reported = Unreported /\ Stale \in AlertKeys => said[Stale] = NoFinding

(* A condition of which the value went missing was bad when it was last    *)
(* seen, and is one that a report may have no value for.                   *)
UnreadIsBad ==
  unread \subseteq {Attribute, Temperature, Dirty} \cap AlertKeys /\ \A k \in unread : said[k] # NoFinding

Followed == Kept /\ AlertsFollowTheLastWord /\ UnreadIsBad /\ NotYetStale

LEMMA KeysAreKnown == Kept => AlertKeys \subseteq ReportKeys
  BY ReportsAssumption DEF Kept

LEMMA IngestFollows == ASSUME Followed, NEW r, Ingest(r) PROVE Followed'
  <1>1. /\ alerts' = Collected(alerts, RaisedBy(FindingsOf(r)), ScopesOf(r))
        /\ said' = Says(FindingsOf(r)) /\ reported' = TRUE /\ unread' = UnreadAfter(r)
    BY DEF Ingest, ScopesOf
  <1>2. \A k \in AlertKeys :
           /\ InScope(k, ScopesOf(r)) <=> Covers(FindingsOf(r), k) \/ k \in Unlooked(r)
           /\ k \in Unlooked(r) => ~Covers(FindingsOf(r), k) /\ k \in {Attribute, Temperature, Dirty}
    BY ScopesAre, KeysAreKnown DEF Followed
  <1>3. \A k \in AlertKeys :
           k \in unread' <=> said[k] # NoFinding /\ (k \in Unlooked(r) \/ (k \in unread /\ ~Covers(FindingsOf(r), k)))
    BY <1>1 DEF UnreadAfter, Covers
  <1>4. \A k \in AlertKeys \ unread' : InScope(k, ScopesOf(r)) /\ ~Covers(FindingsOf(r), k) => said[k] = NoFinding
    BY <1>2, <1>3
  <1>5. \A k \in AlertKeys \ unread' : ~InScope(k, ScopesOf(r)) => k \notin unread
    BY <1>2, <1>3 DEF Followed, UnreadIsBad
  <1>6. Kept' /\ AlertsFollowTheLastWord' /\ DOMAIN alerts' = AlertKeys
    BY <1>1, <1>2, <1>4, <1>5, FindingsAre, CollectedFollows DEF Followed
  <1>7. UnreadIsBad'
    <2>1. unread' \subseteq AlertKeys /\ AlertKeys' = AlertKeys
      BY <1>1, <1>6 DEF UnreadAfter, AlertKeys
    <2>2. ASSUME NEW k \in unread' PROVE k \in {Attribute, Temperature, Dirty} /\ said'[k] # NoFinding
      <3>1. ~Covers(FindingsOf(r), k) /\ said[k] # NoFinding /\ k \in {Attribute, Temperature, Dirty}
        BY <2>1, <1>2, <1>3 DEF Followed, UnreadIsBad
      <3>2. said'[k] = said[k]
        BY <3>1, <2>1, <1>1 DEF Says, Covers
      <3> QED BY <3>1, <3>2
    <2> QED BY <2>1, <2>2 DEF UnreadIsBad
  <1>8. NotYetStale'
    BY <1>1, ReportsAssumption DEF NotYetStale
  <1> QED BY <1>6, <1>7, <1>8 DEF Followed

LEMMA MaintenanceFollows == ASSUME Followed, Maintenance PROVE Followed'
  <1> DEFINE pairs == (IF reported = Unreported THEN {} ELSE StaleFinding) \cup RootFinding
  <1> DEFINE scopes == {[category |-> "agent", entity |-> AnyEntity]}
                       \cup {s \in [category : {"catalog"}, entity : {"root"}] : RootFinding # {}}
  <1>1. /\ alerts' = Collected(alerts, RaisedBy(pairs), scopes) /\ said' = Says(pairs)
        /\ reported' = reported /\ unread' = unread
    BY DEF Maintenance
  <1>2. PICK stale \in NoFinding..Critical : StaleFinding = {<<Stale, stale>>}
    BY DEF StaleFinding, NoFinding, Warning, Critical
  <1>3. PICK root \in NoFinding..Critical :
           RootFinding = IF reported = Unreported THEN {} ELSE {<<Unreadable, root>>}
    BY DEF RootFinding, NoFinding, Critical
  <1>4. pairs = IF reported = Unreported THEN {} ELSE {<<Stale, stale>>, <<Unreadable, root>>}
    BY <1>2, <1>3
  <1>5. Findings(pairs)
    BY <1>4, KeysAre DEF Findings, ReportKeys
  <1>6. \A k \in AlertKeys :
           InScope(k, scopes) <=> k = Stale \/ (k = Unreadable /\ reported # Unreported)
    <2> SUFFICES ASSUME NEW k \in ReportKeys
                 PROVE  InScope(k, scopes) <=> k = Stale \/ (k = Unreadable /\ reported # Unreported)
      BY KeysAreKnown DEF Followed
    <2>1. \A s : s \in scopes =>
             \/ s.category = "agent" /\ s.entity = AnyEntity
             \/ s.category = "catalog" /\ s.entity = "root" /\ reported # Unreported
      BY <1>3
    <2>2. /\ [category |-> "agent", entity |-> AnyEntity] \in scopes
          /\ reported # Unreported => [category |-> "catalog", entity |-> "root"] \in scopes
      BY <1>3
    <2> HIDE DEF scopes
    <2>3. InScope(k, scopes) <=>
             \/ k.category = "agent"
             \/ k.category = "catalog" /\ k.entity = "root" /\ reported # Unreported
      BY <2>1, <2>2 DEF InScope, AnyEntity
    <2> QED BY <2>3, KeysAre DEF ReportKeys
  <1>7. \A k : Covers(pairs, k) <=> reported # Unreported /\ k \in {Stale, Unreadable}
    <2>1. \A p : p \in pairs <=> reported # Unreported /\ (p = <<Stale, stale>> \/ p = <<Unreadable, root>>)
      BY <1>4
    <2> HIDE DEF pairs
    <2>2. <<Stale, stale>>[1] = Stale /\ <<Unreadable, root>>[1] = Unreadable
      OBVIOUS
    <2>3. reported # Unreported => <<Stale, stale>> \in pairs /\ <<Unreadable, root>> \in pairs
      BY <2>1
    <2>4. \A p \in pairs : reported # Unreported /\ p[1] \in {Stale, Unreadable}
      BY <2>1, <2>2
    <2>5. reported # Unreported => Covers(pairs, Stale) /\ Covers(pairs, Unreadable)
      BY <2>2, <2>3 DEF Covers
    <2> QED BY <2>4, <2>5 DEF Covers
  <1> HIDE DEF pairs, scopes
  <1>8. \A k \in AlertKeys : Covers(pairs, k) => InScope(k, scopes)
    BY <1>6, <1>7
  <1>9. \A k \in AlertKeys : InScope(k, scopes) /\ ~Covers(pairs, k) => said[k] = NoFinding
    BY <1>6, <1>7 DEF Followed, NotYetStale
  <1>10. Kept' /\ AlertsFollowTheLastWord' /\ DOMAIN alerts' = AlertKeys
    BY <1>1, <1>5, <1>8, <1>9, CollectedFollows DEF Followed
  <1>12. UnreadIsBad'
    <2>1. AlertKeys' = AlertKeys
      BY <1>10 DEF AlertKeys
    <2>2. ASSUME NEW k \in unread PROVE said'[k] = said[k]
      <3>1. k \in AlertKeys /\ k \in {Attribute, Temperature, Dirty}
        BY DEF Followed, UnreadIsBad
      <3>2. ~Covers(pairs, k)
        BY <3>1, <1>7, KeysAre
      <3> QED BY <3>1, <3>2, <1>1 DEF Says, Covers
    <2> QED BY <2>1, <2>2, <1>1 DEF Followed, UnreadIsBad
  <1>11. NotYetStale'
    <2> SUFFICES ASSUME reported = Unreported, Stale \in AlertKeys PROVE said'[Stale] = NoFinding
      BY <1>1, <1>10 DEF NotYetStale, AlertKeys
    <2>1. said'[Stale] = said[Stale]
      BY <1>1, <1>7 DEF Says, Covers
    <2> QED BY <2>1 DEF Followed, NotYetStale
  <1> QED BY <1>10, <1>11, <1>12 DEF Followed

LEMMA OperatorLeaves ==
  ASSUME NEW row \in AlertRows, NEW new \in {Acknowledged(row), Unacknowledged(row)}
  PROVE  new \in AlertRows /\ (Unresolved(new) <=> Unresolved(row)) /\ new.severity = row.severity
  BY DEF Acknowledged, Unacknowledged, AlertRows, Unresolved

LEMMA OperatorFollows == ASSUME Followed, Operator PROVE Followed'
  <1>1. UNCHANGED <<reported, said, unread>>
    BY DEF Operator
  <1>2. alerts \in [AlertKeys -> AlertRows]
    BY DEF Followed, Kept
  <1>3. PICK k, new :
           /\ k \in AlertKeys
           /\ new \in {Acknowledged(alerts[k]), Unacknowledged(alerts[k])}
           /\ alerts' = [alerts EXCEPT ![k] = new]
    <2>1. PICK k \in AlertKeys :
             alerts' \in {[alerts EXCEPT ![k] = Acknowledged(@)], [alerts EXCEPT ![k] = Unacknowledged(@)]}
      BY DEF Operator
    <2>2. \/ alerts' = [alerts EXCEPT ![k] = Acknowledged(alerts[k])]
          \/ alerts' = [alerts EXCEPT ![k] = Unacknowledged(alerts[k])]
      BY <1>2, <2>1
    <2> QED BY <2>2
  <1>4. new \in AlertRows /\ (Unresolved(new) <=> Unresolved(alerts[k])) /\ new.severity = alerts[k].severity
    BY <1>2, <1>3, OperatorLeaves
  <1>5. /\ alerts' \in [AlertKeys -> AlertRows] /\ DOMAIN alerts' = AlertKeys
        /\ \A q \in AlertKeys : alerts'[q] = IF q = k THEN new ELSE alerts[q]
    BY <1>2, <1>3, <1>4
  <1>6. AlertKeys' = AlertKeys
    BY <1>5 DEF AlertKeys
  <1> QED BY <1>1, <1>3, <1>4, <1>5, <1>6 DEF Followed, Kept, AlertsFollowTheLastWord, UnreadIsBad, NotYetStale

(* Muting a volume takes its word and its alert away in the same step.     *)
LEMMA MutingFollows == ASSUME Followed, NEW muted \in BOOLEAN, SetLowSpaceAlerts(muted) PROVE Followed'
  <1>a. reported' = reported /\ FreeSpace \in AlertKeys /\ unread' = unread
    BY DEF SetLowSpaceAlerts
  <1>b. alerts \in [AlertKeys -> AlertRows] /\ said \in [AlertKeys -> NoFinding..Critical]
    BY DEF Followed, Kept
  <1>1. CASE ~muted
    <2>1. UNCHANGED <<alerts, said>>
      BY <1>1 DEF SetLowSpaceAlerts
    <2> QED BY <2>1, <1>a DEF Followed, Kept, AlertsFollowTheLastWord, UnreadIsBad, NotYetStale, AlertKeys
  <1>2. CASE muted
    <2>0. Info \in Info..Critical /\ NoFinding \in NoFinding..Critical
      BY DEF Info, Critical, NoFinding
    <2>1. PICK new : new = Resolved(alerts[FreeSpace])
      OBVIOUS
    <2>2. new \in AlertRows /\ ~Unresolved(new)
      BY <2>0, <2>1, <1>a, <1>b, RowIsAlertRow
    <2>3. alerts' = [alerts EXCEPT ![FreeSpace] = new] /\ said' = [said EXCEPT ![FreeSpace] = NoFinding]
      BY <2>1, <1>2 DEF SetLowSpaceAlerts
    <2>4. /\ alerts' \in [AlertKeys -> AlertRows] /\ DOMAIN alerts' = AlertKeys
          /\ said' \in [AlertKeys -> NoFinding..Critical]
          /\ \A q \in AlertKeys : /\ alerts'[q] = IF q = FreeSpace THEN new ELSE alerts[q]
                                  /\ said'[q] = IF q = FreeSpace THEN NoFinding ELSE said[q]
      BY <2>0, <2>2, <2>3, <1>a, <1>b
    <2>5. AlertKeys' = AlertKeys
      BY <2>4 DEF AlertKeys
    <2>6. FreeSpace \notin unread
      BY KeysAre DEF Followed, UnreadIsBad
    <2> QED BY <2>2, <2>4, <2>5, <2>6, <1>a DEF Followed, Kept, AlertsFollowTheLastWord, UnreadIsBad, NotYetStale
  <1> QED BY <1>1, <1>2

LEMMA FollowedAtStart == InitReports => Followed
  <1> SUFFICES ASSUME InitReports PROVE Followed
    OBVIOUS
  <1>1. PICK keys \in Observed : alerts = [k \in keys |-> NoAlert]
    BY DEF InitReports
  <1>2. AlertKeys = keys /\ unread = {} /\ \A k \in AlertKeys : alerts[k] = NoAlert /\ said[k] = NoFinding
    BY <1>1 DEF InitReports, AlertKeys
  <1>3. NoAlert \in AlertRows /\ ~Unresolved(NoAlert) /\ NoFinding \in NoFinding..Critical
    BY DEF NoAlert, AlertRows, Unresolved, Info, Critical, NoFinding
  <1>4. alerts \in [AlertKeys -> AlertRows] /\ said \in [AlertKeys -> NoFinding..Critical]
    BY <1>1, <1>2, <1>3 DEF InitReports
  <1> QED BY <1>2, <1>3, <1>4 DEF Followed, Kept, AlertsFollowTheLastWord, UnreadIsBad, NotYetStale

LEMMA FollowedKeeps == ASSUME Followed, [NextReports]_reportVars PROVE Followed'
  <1>1. CASE SaveSettings
    BY <1>1 DEF SaveSettings, Followed, Kept, AlertsFollowTheLastWord, UnreadIsBad, NotYetStale, AlertKeys
  <1>2. CASE GoesQuiet
    BY <1>2, ReportsAssumption DEF GoesQuiet, Followed, Kept, AlertsFollowTheLastWord, UnreadIsBad, NotYetStale, AlertKeys
  <1>3. CASE UNCHANGED reportVars
    BY <1>3 DEF reportVars, Followed, Kept, AlertsFollowTheLastWord, UnreadIsBad, NotYetStale, AlertKeys
  <1> QED BY <1>1, <1>2, <1>3, IngestFollows, MaintenanceFollows, MutingFollows, OperatorFollows DEF NextReports

(* An alert is unresolved exactly while the last word about its condition  *)
(* was bad, and at that severity, for every set of conditions under        *)
(* observation: no report, check, switch or click parts the two, other     *)
(* than a report that covers the entity without the value of the condition *)
(* (reconcile() of alert-service.ts, ingest() of agent-service.ts).        *)
THEOREM AlertsAreCurrent == ReportsSpec => []AlertsFollowTheLastWord
  <1>1. Followed => AlertsFollowTheLastWord
    BY DEF Followed
  <1> QED BY <1>1, FollowedAtStart, FollowedKeeps, PTL DEF ReportsSpec

(* What a report leaves behind, besides the alerts.                        *)
RowsTyped ==
  /\ raw \in 0..MaxRaw \cup {Unreported}
  /\ samples \in Seq(BOOLEAN) /\ Len(samples) <= LatencyWindow
  /\ partMissing \in BOOLEAN \cup {Unreported}
  /\ volumeRow \in BOOLEAN
  /\ switches \in [muted : BOOLEAN, performance : BOOLEAN, poolSpace : BOOLEAN]
  /\ reported \in BOOLEAN \cup {Unreported}

LEMMA SectionsAre ==
  ASSUME NEW r \in AllReports
  PROVE  /\ r.smart # Missing => r.smart.raw \in 0..MaxRaw \cup {Unreported}
         /\ r.pool # Missing => r.pool.missing \in BOOLEAN
         /\ r.sample # Missing => r.sample \in BOOLEAN
  <1>1. /\ r.smart \in SmartSections \cup {Missing} /\ r.pool \in PoolSections \cup {Missing}
        /\ r.sample \in SampleSections \cup {Missing}
    BY DEF AllReports, About
  <1>2. ASSUME r.smart # Missing PROVE r.smart.raw \in 0..MaxRaw \cup {Unreported}
    <2>1. PICK d \in [by : {"smartctl", "storage-reliability", "nobody"}, raw : 0..MaxRaw, hot : BOOLEAN,
                       counted : BOOLEAN \cup {Unreported}] : r.smart = SmartSection(d)
      BY <1>1, <1>2 DEF SmartSections
    <2>2. r.smart = [raw |-> d.raw, hot |-> d.hot] \/ r.smart = [raw |-> Unreported, hot |-> d.counted]
      BY <1>2, <2>1 DEF SmartSection
    <2> QED BY <2>2
  <1>3. ASSUME r.pool # Missing PROVE r.pool.missing \in BOOLEAN
    <2>1. PICK h \in [dpcmd : BOOLEAN, free : {"low", "enough"}, attached : BOOLEAN] : r.pool = PoolSection(h)
      BY <1>1, <1>3 DEF PoolSections
    <2>2. r.pool = [free |-> h.free, missing |-> ~h.attached]
      BY <1>3, <2>1 DEF PoolSection
    <2> QED BY <2>2
  <1>4. ASSUME r.sample # Missing PROVE r.sample \in BOOLEAN
    BY <1>1, <1>4 DEF SampleSections, SampleSection
  <1> QED BY <1>2, <1>3, <1>4

(* At most as many samples are looked at as the check needs.               *)
LEMMA SampledFits ==
  ASSUME RowsTyped, NEW r \in AllReports
  PROVE  Sampled(r) \in Seq(BOOLEAN) /\ Len(Sampled(r)) <= LatencyWindow
  <1>1. CASE r.sample = Missing
    BY <1>1 DEF Sampled, RowsTyped
  <1>2. CASE r.sample # Missing
    <2>1. PICK all : all = Append(samples, r.sample)
      OBVIOUS
    <2>2. all \in Seq(BOOLEAN) /\ Len(all) \in Nat \ {0}
      BY <1>2, <2>1, SectionsAre DEF RowsTyped
    <2>3. PICK n : n = IF Len(all) > LatencyWindow THEN LatencyWindow ELSE Len(all)
      OBVIOUS
    <2>4. n \in 1..Len(all) /\ n <= LatencyWindow
      BY <2>2, <2>3 DEF LatencyWindow
    <2>5. PICK last : last = SubSeq(all, 1 + Len(all) - n, Len(all))
      OBVIOUS
    <2>6. last \in Seq(BOOLEAN) /\ Len(last) = n
      BY <2>2, <2>4, <2>5
    <2>7. Sampled(r) = last
      BY <1>2, <2>1, <2>3, <2>5, Zenon DEF Sampled
    <2> QED BY <2>4, <2>6, <2>7
  <1> QED BY <1>1, <1>2

LEMMA RowsStayTyped == ASSUME RowsTyped, [NextReports]_reportVars PROVE RowsTyped'
  <1>1. ASSUME NEW r \in AllReports, Ingest(r) PROVE RowsTyped'
    <2>1. raw' \in 0..MaxRaw \cup {Unreported} /\ partMissing' \in BOOLEAN \cup {Unreported}
      BY <1>1, SectionsAre DEF Ingest, Stored, RowsTyped
    <2>2. samples' \in Seq(BOOLEAN) /\ Len(samples') <= LatencyWindow
      BY <1>1, SampledFits DEF Ingest
    <2> QED BY <1>1, <2>1, <2>2 DEF Ingest, RowsTyped
  <1>2. CASE Maintenance
    BY <1>2 DEF Maintenance, RowsTyped
  <1>3. ASSUME NEW muted \in BOOLEAN, SetLowSpaceAlerts(muted) PROVE RowsTyped'
    BY <1>3 DEF SetLowSpaceAlerts, RowsTyped
  <1>4. CASE SaveSettings
    <2>1. PICK performance \in BOOLEAN, poolSpace \in BOOLEAN :
             switches' = [switches EXCEPT !.performance = performance, !.poolSpace = poolSpace]
      BY <1>4 DEF SaveSettings
    <2> QED BY <1>4, <2>1 DEF SaveSettings, RowsTyped
  <1>5. CASE GoesQuiet
    BY <1>5 DEF GoesQuiet, RowsTyped
  <1>6. CASE Operator
    BY <1>6 DEF Operator, RowsTyped
  <1>7. CASE UNCHANGED reportVars
    BY <1>7 DEF reportVars, RowsTyped
  <1> QED BY <1>1, <1>2, <1>3, <1>4, <1>5, <1>6, <1>7 DEF NextReports

(* What is stored of the reports is what they may say: a section that is   *)
(* missing stores nothing, and no more samples are kept than are looked at *)
(* (ingest() of agent-service.ts).                                         *)
THEOREM ReportsTypeCorrect == ReportsSpec => []ReportsTypeOK
  <1>1. InitReports => RowsTyped
    <2> SUFFICES ASSUME InitReports PROVE RowsTyped
      OBVIOUS
    <2>1. samples = <<>> /\ switches = [muted |-> FALSE, performance |-> TRUE, poolSpace |-> TRUE]
      BY DEF InitReports
    <2>2. samples \in Seq(BOOLEAN) /\ Len(samples) <= LatencyWindow
      BY <2>1 DEF LatencyWindow
    <2>3. switches \in [muted : BOOLEAN, performance : BOOLEAN, poolSpace : BOOLEAN]
      BY <2>1
    <2> QED BY <2>2, <2>3 DEF InitReports, RowsTyped
  <1>2. Followed /\ RowsTyped => ReportsTypeOK
    BY DEF Followed, Kept, UnreadIsBad, RowsTyped, ReportsTypeOK
  <1> QED BY <1>1, <1>2, FollowedAtStart, FollowedKeeps, RowsStayTyped, PTL DEF ReportsSpec

=============================================================================
