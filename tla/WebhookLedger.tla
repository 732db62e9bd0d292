---------------------------- MODULE WebhookLedger ----------------------------
(***************************************************************************)
(* What the webhook endpoint promises a billing provider and the rest of   *)
(* the system (src/billing.rs:1-16): an event is recorded once, with the   *)
(* body of one delivery, only if the provider emitted it; and the provider *)
(* is released from redelivering it only when it is recorded.  How         *)
(* deliveries are sent, verified, repeated and lost is no part of it.      *)
(***************************************************************************)
CONSTANTS Keys, Digests, None

VARIABLES emitted, ledger, settled

Init ==
    /\ emitted = {}
    /\ ledger = [k \in Keys |-> None]
    /\ settled = {}

Emit(k) ==
    /\ emitted' = emitted \cup {k}
    /\ UNCHANGED <<ledger, settled>>

Record(k, digest) ==
    /\ k \in emitted
    /\ ledger[k] = None
    /\ ledger' = [ledger EXCEPT ![k] = digest]
    /\ UNCHANGED <<emitted, settled>>

Settle(k) ==
    /\ ledger[k] # None
    /\ settled' = settled \cup {k}
    /\ UNCHANGED <<emitted, ledger>>

Next ==
    \E k \in Keys : Emit(k) \/ Settle(k) \/ \E digest \in Digests : Record(k, digest)

Spec == Init /\ [][Next]_<<emitted, ledger, settled>>
=============================================================================
