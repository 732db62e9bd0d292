------------------------------- MODULE Billing -------------------------------
(***************************************************************************)
(* The billing webhook endpoint (src/billing.rs) and the providers that    *)
(* call it: at-least-once deliveries, several of one event at a time, over *)
(* a network that loses answers, into a ledger whose unique key of         *)
(* (provider, provider_event_id) is the only thing that serialises them.   *)
(*                                                                         *)
(* The providers, and what makes a signature verify, are modelled from how *)
(* this code uses them.  Why a delivery is refused (a header missing, the  *)
(* certificate out of reach, the signature stale or wrong) makes no        *)
(* difference to the ledger and is one action.  Replicas may differ for a  *)
(* while in the secrets they were started with.                            *)
(***************************************************************************)
EXTENDS Naturals, FiniteSets

CONSTANTS
    Providers,      \* stripe, paypal
    EventIds,       \* provider_event_id; two providers may use the same one
    Digests,        \* payload_sha256 of the bodies an event is delivered with
    Deliveries,     \* deliveries in flight at once (bound)
    Configurations, \* the sets of providers whose secrets a replica is started with
    None

Outcomes == {"recorded", "deduped", "refused", "failed"}

ASSUME BillingAssumption ==
    /\ None \notin Digests \cup Outcomes
    /\ Configurations \subseteq SUBSET Providers

Keys == Providers \X EventIds

VARIABLES
    configured, \* the providers whose secret the replica at work has
    emitted,    \* provider: the events it has to tell
    settled,    \* provider: the events it has seen answered by a 2xx
    ledger,     \* billing_webhook_events: the digest each event was recorded with
    delivery,   \* the deliveries in flight
    firstSights \* history: per event, the deliveries answered deduped: false

vars == <<configured, emitted, settled, ledger, delivery, firstSights>>

----------------------------------------------------------------------------
At(pc, key, digest, answer) == [pc |-> pc, key |-> key, digest |-> digest, answer |-> answer]

Free == At("free", None, None, None)

DeliveryType ==
    [pc : {"free", "verify", "record", "reply"}, key : Keys \cup {None},
     digest : Digests \cup {None}, answer : Outcomes \cup {None}]

Busy(d) == delivery[d].pc # "free"

TypeOK ==
    /\ configured \in Configurations
    /\ emitted \subseteq Keys
    /\ settled \subseteq Keys
    /\ ledger \in [Keys -> Digests \cup {None}]
    /\ delivery \in [Deliveries -> DeliveryType]
    /\ firstSights \in [Keys -> Nat]

\* webhook: the two outcomes that are answered 200.
Acks == {"recorded", "deduped"}

\* The answer is all that is left of a delivery: what an acknowledgement is about,
\* nothing of a refusal.
Answers(d, answer) ==
    delivery' = [delivery EXCEPT ![d] =
        At("reply", IF answer \in Acks THEN delivery[d].key ELSE None, None, answer)]

----------------------------------------------------------------------------
(* The handler.                                                              *)

\* webhook: the provider is unknown here or not configured, a header is
\* missing, the certificate cannot be fetched, the signature does not verify.
Refuse(d) ==
    /\ delivery[d].pc = "verify"
    /\ Answers(d, "refused")
    /\ UNCHANGED <<configured, emitted, settled, ledger, firstSights>>

\* verify: only a body the provider signed, and only with its secret at hand.
Verify(d) ==
    /\ delivery[d].pc = "verify"
    /\ delivery[d].key # None
    /\ delivery[d].key[1] \in configured
    /\ delivery' = [delivery EXCEPT ![d].pc = "record"]
    /\ UNCHANGED <<configured, emitted, settled, ledger, firstSights>>

\* A slip: the conflict target leaves the provider out.
SeenFromAnyone(k) == \E p \in Providers : ledger[<<p, k[2]>>] # None

Seen(k) == ledger[k] # None

\* Slips: a conflict is answered like an insert, or like an outage.
ConflictIsFirstSight(d) ==
    /\ delivery[d].pc = "record"
    /\ LET k == delivery[d].key IN
          /\ ledger' = [ledger EXCEPT ![k] = IF Seen(k) THEN @ ELSE delivery[d].digest]
          /\ firstSights' = [firstSights EXCEPT ![k] = @ + 1]
    /\ Answers(d, "recorded")
    /\ UNCHANGED <<configured, emitted, settled>>
ConflictIsFailure(d) ==
    /\ delivery[d].pc = "record"
    /\ LET k == delivery[d].key IN
          \/ /\ ~Seen(k)
             /\ ledger' = [ledger EXCEPT ![k] = delivery[d].digest]
             /\ firstSights' = [firstSights EXCEPT ![k] = @ + 1]
             /\ Answers(d, "recorded")
          \/ Seen(k) /\ UNCHANGED <<ledger, firstSights>> /\ Answers(d, "failed")
    /\ UNCHANGED <<configured, emitted, settled>>

\* record: INSERT ... ON CONFLICT (provider, provider_event_id) DO NOTHING.
Record(d) ==
    /\ delivery[d].pc = "record"
    /\ LET k == delivery[d].key IN
          \/ /\ ~Seen(k)
             /\ ledger' = [ledger EXCEPT ![k] = delivery[d].digest]
             /\ firstSights' = [firstSights EXCEPT ![k] = @ + 1]
             /\ Answers(d, "recorded")
          \/ Seen(k) /\ UNCHANGED <<ledger, firstSights>> /\ Answers(d, "deduped")
    /\ UNCHANGED <<configured, emitted, settled>>

\* The statement fails, or it is committed and its answer never arrives.
RecordFails(d) ==
    /\ delivery[d].pc = "record"
    /\ \/ UNCHANGED ledger
       \/ /\ ~Seen(delivery[d].key)
          /\ ledger' = [ledger EXCEPT ![delivery[d].key] = delivery[d].digest]
    /\ Answers(d, "failed")
    /\ UNCHANGED <<configured, emitted, settled, firstSights>>

----------------------------------------------------------------------------
(* The providers, the network, the operator.                                 *)

Emit(k) ==
    /\ emitted' = emitted \cup {k}
    /\ UNCHANGED <<configured, settled, ledger, delivery, firstSights>>

\* A provider delivers an event it emitted, again if it likes.
Send(d, k, digest) ==
    /\ ~Busy(d)
    /\ k \in emitted
    /\ delivery' = [delivery EXCEPT ![d] = At("verify", k, digest, None)]
    /\ UNCHANGED <<configured, emitted, settled, ledger, firstSights>>

\* Somebody else sends a body that no provider signed: what it names is never looked at.
Forge(d) ==
    /\ ~Busy(d)
    /\ delivery' = [delivery EXCEPT ![d] = At("verify", None, None, None)]
    /\ UNCHANGED <<configured, emitted, settled, ledger, firstSights>>

\* The answer reaches the provider, which takes a 2xx for an acknowledgement.
Deliver(d) ==
    /\ delivery[d].pc = "reply"
    /\ settled' = IF delivery[d].answer \in Acks
                  THEN settled \cup {delivery[d].key} ELSE settled
    /\ delivery' = [delivery EXCEPT ![d] = Free]
    /\ UNCHANGED <<configured, emitted, ledger, firstSights>>

\* The request, its handler or its answer is lost.
Lose(d) ==
    /\ Busy(d)
    /\ delivery' = [delivery EXCEPT ![d] = Free]
    /\ UNCHANGED <<configured, emitted, settled, ledger, firstSights>>

\* A replica with other secrets takes over.
Deploy(secrets) ==
    /\ configured' = secrets
    /\ UNCHANGED <<emitted, settled, ledger, delivery, firstSights>>

----------------------------------------------------------------------------
Init ==
    /\ configured \in Configurations
    /\ emitted = {}
    /\ settled = {}
    /\ ledger = [k \in Keys |-> None]
    /\ delivery = [d \in Deliveries |-> Free]
    /\ firstSights = [k \in Keys |-> 0]

Next ==
    \/ \E d \in Deliveries :
          \/ Refuse(d) \/ Verify(d) \/ Record(d) \/ RecordFails(d) \/ Deliver(d) \/ Lose(d)
          \/ Forge(d)
          \/ \E k \in Keys, digest \in Digests : Send(d, k, digest)
    \/ \E k \in Keys : Emit(k)
    \/ \E secrets \in Configurations : Deploy(secrets)

Spec == Init /\ [][Next]_vars

\* A delivery ends (TimeoutLayer); a provider keeps retrying what it has not seen
\* answered; of the attempts that are made again and again, some get through.
DeliveryFairness(d) == WF_vars(Lose(d) \/ Deliver(d))

RetryFairness(k) ==
    LET About(d) == delivery[d].key = k
    IN /\ SF_vars(\E d \in Deliveries, digest \in Digests :
                      k \notin settled /\ Send(d, k, digest))
       /\ SF_vars(\E d \in Deliveries : About(d) /\ Verify(d))
       /\ SF_vars(\E d \in Deliveries : About(d) /\ Record(d))
       /\ SF_vars(\E d \in Deliveries : About(d) /\ delivery[d].answer \in Acks /\ Deliver(d))

FairSpec ==
    /\ Spec
    /\ \A d \in Deliveries : DeliveryFairness(d)
    /\ \A k \in Keys : RetryFairness(k)

----------------------------------------------------------------------------
Ledger == INSTANCE WebhookLedger
    WITH Keys <- Keys, Digests <- Digests, None <- None,
         emitted <- emitted, ledger <- ledger, settled <- settled

\* billing.rs:6-11: however deliveries of an event overlap, repeat, fail half-way
\* or lose their answers, the ledger gains one row for it, never changes that row,
\* has none for an event nobody emitted, and the provider stops only once it is
\* there.
LedgerImplemented == Ledger!Spec

\* billing.rs:46-51: at most one delivery of an event is ever told that it was the
\* first, and none once the provider has been told that it may stop.
OneFirstSight ==
    \A k \in Keys :
        /\ firstSights[k] <= 1
        /\ firstSights[k] = 1 \/ k \in settled => ledger[k] # None

\* billing.rs:9-11, entity/billing_webhook_events.rs:4-7: no failed, half-failed or
\* unheard attempt leaves an event in a state from which redelivery is refused for
\* ever: where the secret stays in place, every event the provider has to tell is
\* acknowledged in the end.
RedeliveryEnds ==
    \A k \in Keys : <>[](k[1] \in configured) => (k \in emitted ~> k \in settled)
=============================================================================
