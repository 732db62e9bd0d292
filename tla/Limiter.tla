------------------------------- MODULE Limiter -------------------------------
(***************************************************************************)
(* What the sign-in throttle promises its callers (src/throttle.rs:16-24   *)
(* and 73-83): in one lifetime of the process a key is admitted only while *)
(* fewer than Limit of its admissions are younger than the window.  How    *)
(* the limiter remembers them, and when else it refuses, is no part of it: *)
(* a refusal is a step that changes nothing here.                          *)
(***************************************************************************)
EXTENDS Naturals, Sequences, FiniteSets

CONSTANTS
    Buckets,        \* the distinct budgets: enum Bucket
    Keys,           \* identifiers and client addresses, already normalised
    Limit,          \* Limit[b]: admissions a key of bucket b has per window
    Window,         \* Window[b]: the length of b's window, in clock ticks
    MaxTime,        \* bound: the clock stops here
    MaxBoots        \* bound: restarts of the process

ASSUME LimiterAssumption ==
    /\ Limit \in [Buckets -> Nat]
    /\ Window \in [Buckets -> Nat]

VARIABLES
    now,        \* the monotonic clock
    boots,      \* the instants at which the process was restarted
    log         \* history: for each slot, every admission, in order

Slots == Buckets \X Keys

\* Admission e of slot s is still inside the window of s's bucket.
InWindow(s, e) == now - log[s][e].at < Window[s[1]]

\* The admissions of s in the current lifetime that are still in its window.
LiveThisBoot(s) ==
    {e \in DOMAIN log[s] : log[s][e].boot = Len(boots) /\ InWindow(s, e)}

Allow(s) ==
    /\ Cardinality(LiveThisBoot(s)) < Limit[s[1]]
    /\ log' = [log EXCEPT ![s] = Append(@, [at |-> now, boot |-> Len(boots)])]
    /\ UNCHANGED <<now, boots>>

Elapse ==
    /\ now < MaxTime
    /\ now' = now + 1
    /\ UNCHANGED <<boots, log>>

Forget ==
    /\ Len(boots) < MaxBoots
    /\ boots' = Append(boots, now)
    /\ UNCHANGED <<now, log>>

LimiterInit ==
    /\ now = 0
    /\ boots = <<>>
    /\ log = [s \in Slots |-> <<>>]

LimiterNext == Elapse \/ Forget \/ \E s \in Slots : Allow(s)

LimiterSpec == LimiterInit /\ [][LimiterNext]_<<now, boots, log>>
=============================================================================
