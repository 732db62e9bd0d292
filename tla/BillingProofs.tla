---------------------------- MODULE BillingProofs ----------------------------
(***************************************************************************)
(* What the webhook endpoint guarantees for every set of providers, event  *)
(* ids and bodies and any number of deliveries in flight.                  *)
(*                                                                         *)
(* The invariant that carries the proof says what a delivery may be taken  *)
(* to know: one that a provider signed is about an event it emitted, only  *)
(* such a one gets past verification, and an answer that acknowledges an   *)
(* event was given with its row in place.  No row ever leaves, so all of   *)
(* this stays true.                                                        *)
(***************************************************************************)
EXTENDS Billing, TLAPS

USE BillingAssumption

\* A signed delivery is about an emitted event, and past verification all are signed.
Signed(q, events) ==
    /\ q.key # None => q.key \in events
    /\ q.key # None /\ q.pc = "verify" => q.digest \in Digests
    /\ q.pc = "record" => q.key \in events /\ q.digest \in Digests

\* An event is acknowledged only with its row in place.
Acknowledged(q, rows) ==
    q.answer \in Acks => q.pc = "reply" /\ q.key \in Keys /\ rows[q.key] # None

IInv ==
    /\ TypeOK
    /\ \A d \in Deliveries : Signed(delivery[d], emitted) /\ Acknowledged(delivery[d], ledger)
    /\ OneFirstSight

----------------------------------------------------------------------------
LEMMA FreeFacts ==
  /\ Free \in DeliveryType
  /\ Free.pc = "free" /\ Free.answer = None /\ Free.key = None
  /\ Signed(Free, emitted) /\ Acknowledged(Free, ledger)
  BY DEF Free, At, DeliveryType, Signed, Acknowledged, Acks, Outcomes

LEMMA DeliveryFacts ==
  ASSUME IInv, NEW d \in Deliveries
  PROVE  /\ delivery[d] \in DeliveryType
         /\ Signed(delivery[d], emitted) /\ Acknowledged(delivery[d], ledger)
  BY DEF IInv, TypeOK

\* Delivery d goes on as q while the ledger and the events told only grow.
LEMMA DeliveryMoves ==
  ASSUME IInv, NEW d \in Deliveries, NEW q \in DeliveryType,
         delivery' = [delivery EXCEPT ![d] = q],
         Signed(q, emitted'), Acknowledged(q, ledger'),
         \A k \in Keys : ledger[k] # None => ledger'[k] # None,
         emitted' = emitted
  PROVE  /\ delivery' \in [Deliveries -> DeliveryType]
         /\ \A c \in Deliveries : Signed(delivery'[c], emitted') /\ Acknowledged(delivery'[c], ledger')
  <1>1. delivery \in [Deliveries -> DeliveryType]
    BY DEF IInv, TypeOK
  <1>2. \A c \in Deliveries : delivery'[c] = IF c = d THEN q ELSE delivery[c]
    BY <1>1
  <1>3. ASSUME NEW c \in Deliveries, c # d
        PROVE  Signed(delivery'[c], emitted') /\ Acknowledged(delivery'[c], ledger')
    <2>1. delivery'[c] = delivery[c]
      BY <1>2, <1>3
    <2> QED
      BY <2>1, DeliveryFacts DEF Signed, Acknowledged
  <1> QED
    BY <1>1, <1>2, <1>3

\* What an answer leaves of a delivery.
LEMMA AnswerFacts ==
  ASSUME IInv, NEW d \in Deliveries, NEW a \in Outcomes, Answers(d, a),
         a \in Acks => delivery[d].key \in emitted /\ ledger'[delivery[d].key] # None,
         \A k \in Keys : ledger[k] # None => ledger'[k] # None,
         emitted' = emitted
  PROVE  /\ delivery' \in [Deliveries -> DeliveryType]
         /\ \A c \in Deliveries : Signed(delivery'[c], emitted') /\ Acknowledged(delivery'[c], ledger')
  <1> DEFINE about == IF a \in Acks THEN delivery[d].key ELSE None
             q == [pc |-> "reply", key |-> about, digest |-> None, answer |-> a]
  <1>1. emitted \subseteq Keys
    BY DEF IInv, TypeOK
  <1>2. q \in DeliveryType
    BY <1>1 DEF DeliveryType
  <1>3. Signed(q, emitted') /\ Acknowledged(q, ledger')
    BY <1>1 DEF Signed, Acknowledged
  <1>4. delivery' = [delivery EXCEPT ![d] = q]
    BY DEF Answers, At
  <1> HIDE DEF q
  <1> QED
    BY <1>2, <1>3, <1>4, DeliveryMoves

LEMMA InitHolds == Init => IInv
  <1> SUFFICES ASSUME Init PROVE IInv
    OBVIOUS
  <1>1. TypeOK
    BY FreeFacts DEF Init, TypeOK
  <1>2. OneFirstSight
    BY DEF Init, OneFirstSight
  <1> QED
    BY <1>1, <1>2, FreeFacts DEF Init, IInv

\* The row of the delivery's event is there once the statement was committed.
LEMMA RowStays ==
  ASSUME IInv, NEW k \in Keys, NEW digest \in Digests, ledger[k] = None,
         ledger' = [ledger EXCEPT ![k] = digest]
  PROVE  /\ ledger' \in [Keys -> Digests \cup {None}]
         /\ ledger'[k] # None
         /\ \A j \in Keys : ledger[j] # None => ledger'[j] # None
  BY DEF IInv, TypeOK

LEMMA RefuseKeeps == ASSUME IInv, NEW d \in Deliveries, Refuse(d) PROVE IInv'
  <1>1. "refused" \in Outcomes /\ "refused" \notin Acks
    BY DEF Outcomes, Acks
  <1> QED
    BY <1>1, AnswerFacts DEF IInv, TypeOK, OneFirstSight, Refuse

LEMMA VerifyKeeps == ASSUME IInv, NEW d \in Deliveries, Verify(d) PROVE IInv'
  <1> DEFINE q == [delivery[d] EXCEPT !.pc = "record"]
  <1>1. delivery[d] \in DeliveryType
    BY DeliveryFacts
  <1>2. q \in DeliveryType
    BY <1>1 DEF DeliveryType
  <1>3. /\ q.pc = "record" /\ q.answer = delivery[d].answer
        /\ q.key = delivery[d].key /\ q.digest = delivery[d].digest
    BY <1>1 DEF DeliveryType
  <1>4. delivery' = [delivery EXCEPT ![d] = q]
    BY DEF Verify
  <1> HIDE DEF q
  <1>5. Signed(q, emitted') /\ Acknowledged(q, ledger')
    BY <1>3, DeliveryFacts DEF Signed, Acknowledged, Verify
  <1> QED
    BY <1>2, <1>4, <1>5, DeliveryMoves DEF IInv, TypeOK, OneFirstSight, Verify

LEMMA RecordKeeps == ASSUME IInv, NEW d \in Deliveries, Record(d) PROVE IInv'
  <1> DEFINE k == delivery[d].key
  <1>1. k \in Keys /\ k \in emitted /\ delivery[d].digest \in Digests
    BY DeliveryFacts DEF Record, Signed, IInv, TypeOK
  <1>2. {"recorded", "deduped"} \subseteq Outcomes
    BY DEF Outcomes
  <1>3. firstSights \in [Keys -> Nat] /\ OneFirstSight
    BY DEF IInv, TypeOK
  <1>4. CASE /\ ~Seen(k)
             /\ ledger' = [ledger EXCEPT ![k] = delivery[d].digest]
             /\ firstSights' = [firstSights EXCEPT ![k] = @ + 1]
             /\ Answers(d, "recorded")
    <2>1. /\ ledger' \in [Keys -> Digests \cup {None}]
          /\ ledger'[k] # None
          /\ \A j \in Keys : ledger[j] # None => ledger'[j] # None
      BY <1>1, <1>4, RowStays DEF Seen
    <2>2. /\ delivery' \in [Deliveries -> DeliveryType]
          /\ \A c \in Deliveries : Signed(delivery'[c], emitted') /\ Acknowledged(delivery'[c], ledger')
      BY <1>1, <1>2, <1>4, <2>1, AnswerFacts DEF Record
    <2>3. firstSights' \in [Keys -> Nat] /\ firstSights'[k] = firstSights[k] + 1
          /\ \A j \in Keys \ {k} : firstSights'[j] = firstSights[j]
      BY <1>1, <1>3, <1>4
    <2>4. firstSights[k] = 0
      BY <1>1, <1>3, <1>4 DEF OneFirstSight, Seen
    <2>5. OneFirstSight'
      BY <1>3, <2>1, <2>3, <2>4 DEF OneFirstSight, Record
    <2> QED
      BY <2>1, <2>2, <2>3, <2>5 DEF IInv, TypeOK, Record
  <1>5. CASE Seen(k) /\ UNCHANGED <<ledger, firstSights>> /\ Answers(d, "deduped")
    <2>1. /\ delivery' \in [Deliveries -> DeliveryType]
          /\ \A c \in Deliveries : Signed(delivery'[c], emitted') /\ Acknowledged(delivery'[c], ledger')
      BY <1>1, <1>2, <1>5, AnswerFacts DEF Record, Seen
    <2> QED
      BY <1>5, <2>1 DEF IInv, TypeOK, OneFirstSight, Record
  <1> QED
    BY <1>4, <1>5 DEF Record

LEMMA RecordFailsKeeps == ASSUME IInv, NEW d \in Deliveries, RecordFails(d) PROVE IInv'
  <1>1. delivery[d].key \in Keys /\ delivery[d].digest \in Digests
    BY DeliveryFacts DEF RecordFails, Signed, IInv, TypeOK
  <1>2. "failed" \in Outcomes /\ "failed" \notin Acks
    BY DEF Outcomes, Acks
  <1>3. /\ ledger' \in [Keys -> Digests \cup {None}]
        /\ \A j \in Keys : ledger[j] # None => ledger'[j] # None
    BY <1>1, RowStays DEF IInv, TypeOK, RecordFails, Seen
  <1>4. /\ delivery' \in [Deliveries -> DeliveryType]
        /\ \A c \in Deliveries : Signed(delivery'[c], emitted') /\ Acknowledged(delivery'[c], ledger')
    BY <1>2, <1>3, AnswerFacts DEF RecordFails
  <1> QED
    BY <1>3, <1>4 DEF IInv, TypeOK, OneFirstSight, RecordFails

\* A new delivery, signed or not.
LEMMA StartKeeps ==
  ASSUME IInv, NEW d \in Deliveries,
         (\E k \in Keys, digest \in Digests : Send(d, k, digest)) \/ Forge(d)
  PROVE  IInv'
  <1>1. PICK key \in Keys \cup {None}, digest \in Digests \cup {None} :
           /\ delivery' = [delivery EXCEPT ![d] = [pc |-> "verify", key |-> key,
                                                  digest |-> digest, answer |-> None]]
           /\ key # None => key \in emitted /\ digest \in Digests
    BY DEF Send, Forge, At
  <1> DEFINE q == [pc |-> "verify", key |-> key, digest |-> digest, answer |-> None]
  <1>2. UNCHANGED <<configured, emitted, settled, ledger, firstSights>>
    BY DEF Send, Forge
  <1>3. q \in DeliveryType
    BY DEF DeliveryType
  <1>4. Signed(q, emitted') /\ Acknowledged(q, ledger')
    BY <1>1, <1>2 DEF Signed, Acknowledged, Acks, Outcomes
  <1> HIDE DEF q
  <1> QED
    BY <1>1, <1>2, <1>3, <1>4, DeliveryMoves DEF IInv, TypeOK, OneFirstSight, q

LEMMA FreeMoves ==
  ASSUME IInv, NEW d \in Deliveries, delivery' = [delivery EXCEPT ![d] = Free],
         UNCHANGED <<ledger, emitted>>
  PROVE  /\ delivery' \in [Deliveries -> DeliveryType]
         /\ \A c \in Deliveries : Signed(delivery'[c], emitted') /\ Acknowledged(delivery'[c], ledger')
  BY FreeFacts, DeliveryMoves

LEMMA DeliverKeeps == ASSUME IInv, NEW d \in Deliveries, Deliver(d) PROVE IInv'
  <1>1. settled' \subseteq Keys /\ \A k \in settled' : ledger[k] # None
    BY DeliveryFacts DEF IInv, TypeOK, OneFirstSight, Acknowledged, Deliver
  <1> QED
    BY <1>1, FreeMoves DEF IInv, TypeOK, OneFirstSight, Deliver

LEMMA LoseKeeps == ASSUME IInv, NEW d \in Deliveries, Lose(d) PROVE IInv'
  BY FreeMoves DEF IInv, TypeOK, OneFirstSight, Lose

LEMMA EmitKeeps == ASSUME IInv, NEW k \in Keys, Emit(k) PROVE IInv'
  BY DEF IInv, TypeOK, Signed, Acknowledged, OneFirstSight, Emit

LEMMA NextKeeps == IInv /\ [Next]_vars => IInv'
  <1> SUFFICES ASSUME IInv, [Next]_vars PROVE IInv'
    OBVIOUS
  <1>1. ASSUME NEW secrets \in Configurations, Deploy(secrets) PROVE IInv'
    BY <1>1 DEF IInv, TypeOK, Signed, Acknowledged, OneFirstSight, Deploy
  <1>2. CASE UNCHANGED vars
    BY <1>2 DEF IInv, TypeOK, Signed, Acknowledged, OneFirstSight, vars
  <1> QED
    BY <1>1, <1>2, RefuseKeeps, VerifyKeeps, RecordKeeps, RecordFailsKeeps, StartKeeps,
       DeliverKeeps, LoseKeeps, EmitKeeps
    DEF Next

\* The inductive invariant holds in every reachable state.
THEOREM IInvInvariant == Spec => []IInv
  BY InitHolds, NextKeeps, PTL DEF Spec

\* The variables keep their types.
THEOREM TypeCorrect == Spec => []TypeOK
  <1>1. IInv => TypeOK
    BY DEF IInv
  <1> QED
    BY <1>1, IInvInvariant, PTL

\* At most one delivery of an event is told that it was the first, and the
\* provider is released only with the row in place.
THEOREM FirstSightOnce == Spec => []OneFirstSight
  <1>1. IInv => OneFirstSight
    BY DEF IInv
  <1> QED
    BY <1>1, IInvInvariant, PTL

----------------------------------------------------------------------------
\* Each step of the endpoint and its callers is a step of the ledger or a stutter.
LEMMA StepImplements ==
  IInv /\ [Next]_vars => [Ledger!Next]_<<emitted, ledger, settled>>
  <1> SUFFICES ASSUME IInv, Next PROVE Ledger!Next \/ UNCHANGED <<emitted, ledger, settled>>
    BY DEF vars
  <1>1. ASSUME NEW d \in Deliveries, Record(d) \/ RecordFails(d)
        PROVE  Ledger!Next \/ UNCHANGED <<emitted, ledger, settled>>
    <2>2. /\ delivery[d].key \in Keys /\ delivery[d].digest \in Digests
          /\ delivery[d].key \in emitted
      BY <1>1, DeliveryFacts DEF IInv, TypeOK, Signed, Record, RecordFails
    <2>3. \/ UNCHANGED <<emitted, ledger, settled>>
          \/ Ledger!Record(delivery[d].key, delivery[d].digest)
      BY <1>1, <2>2 DEF Record, RecordFails, Seen, Ledger!Record
    <2> QED
      BY <2>2, <2>3 DEF Ledger!Next
  <1>2. ASSUME NEW d \in Deliveries, Deliver(d)
        PROVE  Ledger!Next \/ UNCHANGED <<emitted, ledger, settled>>
    <2>1. CASE delivery[d].answer \in Acks
      <3>1. delivery[d].key \in Keys /\ Ledger!Settle(delivery[d].key)
        BY <1>2, <2>1, DeliveryFacts DEF Acknowledged, Deliver, Ledger!Settle
      <3> QED
        BY <3>1 DEF Ledger!Next
    <2> QED
      BY <1>2, <2>1 DEF Deliver
  <1>3. ASSUME NEW k \in Keys, Emit(k) PROVE Ledger!Next
    BY <1>3 DEF Emit, Ledger!Emit, Ledger!Next
  <1>4. ASSUME NEW d \in Deliveries, Refuse(d) \/ Verify(d) \/ Lose(d) \/ Forge(d)
        PROVE  UNCHANGED <<emitted, ledger, settled>>
    BY <1>4 DEF Refuse, Verify, Lose, Forge
  <1>5. ASSUME NEW d \in Deliveries, NEW k \in Keys,
               NEW digest \in Digests, Send(d, k, digest)
        PROVE  UNCHANGED <<emitted, ledger, settled>>
    BY <1>5 DEF Send
  <1>6. ASSUME NEW secrets \in Configurations, Deploy(secrets)
        PROVE  UNCHANGED <<emitted, ledger, settled>>
    BY <1>6 DEF Deploy
  <1> QED
    BY <1>1, <1>2, <1>3, <1>4, <1>5, <1>6 DEF Next

\* The endpoint implements the ledger it promises.
THEOREM Implements == Spec => LedgerImplemented
  <1>1. Init => Ledger!Init
    BY DEF Init, Ledger!Init
  <1> QED
    BY <1>1, StepImplements, IInvInvariant, PTL DEF Spec, LedgerImplemented, Ledger!Spec
=============================================================================
