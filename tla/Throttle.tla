------------------------------- MODULE Throttle -------------------------------
(***************************************************************************)
(* The sliding-window limiter of the sign-in surface (src/throttle.rs).    *)
(*                                                                         *)
(* One process keeps a map from (bucket, key) to the instants at which     *)
(* that key was admitted.  Every check runs under one mutex and reads the  *)
(* clock while it holds it, so a check is one action and the instants of a *)
(* key are in time order.                                                  *)
(*                                                                         *)
(* An instant in the map is named by its position in `log`, the history of *)
(* everything that key was ever admitted for.  The history is what the     *)
(* properties speak of; the code sees only `windows`, the part of it the   *)
(* map still holds.  A key that is not in the map holds no instant: an     *)
(* entry is created only to push into it, so no entry is ever left empty.  *)
(***************************************************************************)
EXTENDS Limiter

CONSTANTS
    TicksPerSec,    \* clock ticks in a second: Instant is finer than a second
    MaxTracked      \* MAX_TRACKED_KEYS

ASSUME ThrottleAssumption ==
    /\ IsFiniteSet(Buckets)
    /\ IsFiniteSet(Keys)
    /\ Limit \in [Buckets -> Nat \ {0}]
    /\ Window \in [Buckets -> Nat \ {0}]
    /\ TicksPerSec \in Nat \ {0}
    /\ MaxTracked \in Nat \ {0}
    /\ MaxTime \in Nat
    /\ MaxBoots \in Nat

VARIABLES
    windows,    \* the map: for each slot, the admissions it still remembers
    reply       \* the Decision the last check returned at this instant

vars == <<now, boots, windows, log, reply>>

----------------------------------------------------------------------------
Event == [at : Nat, boot : Nat]

NoReply == [outcome |-> "none"]

Denial == [outcome : {"budget", "capacity"}, slot : Slots,
           retry : Nat,     \* retry_after_secs
           wait : Nat]      \* ticks until the decision would change

TypeOK ==
    /\ now \in 0..MaxTime
    /\ boots \in Seq(0..MaxTime)
    /\ log \in [Slots -> Seq(Event)]
    /\ windows \in [Slots -> SUBSET Nat]
    /\ reply \in {NoReply} \cup [outcome : {"admit"}, slot : Slots] \cup Denial

\* The process's current lifetime; a restart starts the next one.
Boot == Len(boots)

\* events.retain(|at| now.duration_since(*at) < window)
Live(s, events) == {e \in events : InWindow(s, e)}

Tracked(w) == {s \in Slots : w[s] # {}}

\* A slip for the mutation checks: a key leaves as soon as one of its events has aged out.
PruneAnyAged == [s \in Slots |->
                    IF Live(s, windows[s]) = windows[s] THEN windows[s] ELSE {}]

\* prune_expired: keys whose every event has aged out leave the map.
PruneExpired == [s \in Slots |-> Live(s, windows[s])]

\* A new key meets a full map.
MapFull(s) == /\ Cardinality(Tracked(windows)) >= MaxTracked
              /\ s \notin Tracked(windows)

\* A slip: a full map is never swept.
NeverSwept(s) == windows

\* The map the check works on: pruned only when a new key meets a full map.
Swept(s) == IF MapFull(s) THEN PruneExpired ELSE windows

\* A slip: the size is not looked at again after the sweep.
RoomAfterSweep(s) == MapFull(s) /\ FALSE

NoRoom(s) == MapFull(s) /\ Cardinality(Tracked(Swept(s))) >= MaxTracked

\* A slip: one admission over the budget.
BudgetOverspent(s) == Cardinality(Live(s, Swept(s)[s])) > Limit[s[1]]

BudgetSpent(s) == Cardinality(Live(s, Swept(s)[s])) >= Limit[s[1]]

\* Ticks until the oldest remembered admission of s leaves its window.
UntilOldestAges(s) ==
    LET live == Live(s, windows[s])
        oldest == CHOOSE e \in live : \A f \in live : e <= f
    IN Window[s[1]] - (now - log[s][oldest].at)

\* A slip: the advice is not rounded up from zero.
AsIs(n) == n

AtLeastOne(n) == IF n = 0 THEN 1 ELSE n

----------------------------------------------------------------------------
Init ==
    /\ now = 0
    /\ boots = <<>>
    /\ windows = [s \in Slots |-> {}]
    /\ log = [s \in Slots |-> <<>>]
    /\ reply = NoReply

\* The map is full of live keys: the new key is refused, none is evicted.
RefuseNewKey(s) ==
    /\ NoRoom(s)
    /\ windows' = PruneExpired
    /\ reply' = [outcome |-> "capacity", slot |-> s,
                 retry |-> Window[s[1]] \div TicksPerSec,
                 wait |-> Window[s[1]]]
    /\ UNCHANGED <<now, boots, log>>

\* The budget is spent: the oldest event governs when a place frees up.
DenyOverBudget(s) ==
    /\ ~NoRoom(s)
    /\ BudgetSpent(s)
    /\ windows' = [Swept(s) EXCEPT ![s] = Live(s, @)]
    /\ reply' = [outcome |-> "budget", slot |-> s,
                 retry |-> AtLeastOne(UntilOldestAges(s) \div TicksPerSec),
                 wait |-> UntilOldestAges(s)]
    /\ UNCHANGED <<now, boots, log>>

Admit(s) ==
    /\ ~NoRoom(s)
    /\ ~BudgetSpent(s)
    /\ log' = [log EXCEPT ![s] = Append(@, [at |-> now, boot |-> Boot])]
    /\ windows' = [Swept(s) EXCEPT ![s] = Live(s, @) \cup {Len(log[s]) + 1}]
    /\ reply' = [outcome |-> "admit", slot |-> s]
    /\ UNCHANGED <<now, boots>>

\* throttle::check: one critical section, whatever it decides.
Check(s) == RefuseNewKey(s) \/ DenyOverBudget(s) \/ Admit(s)

\* The clock moves; the last reply has gone out.
Tick ==
    /\ now < MaxTime
    /\ now' = now + 1
    /\ reply' = NoReply
    /\ UNCHANGED <<boots, windows, log>>

\* The process is replaced (deploy, crash, HPA): the map lives in its memory.
Restart ==
    /\ Boot < MaxBoots
    /\ boots' = Append(boots, now)
    /\ windows' = [s \in Slots |-> {}]
    /\ reply' = NoReply
    /\ UNCHANGED <<now, log>>

Next == Tick \/ Restart \/ \E s \in Slots : Check(s)

Spec == Init /\ [][Next]_vars

----------------------------------------------------------------------------
\* Module header, throttle.rs:16-24: the budget is a per-process bound.  In one
\* lifetime of the process no key is admitted more than Limit times in any
\* window, however checks, sweeps and refusals of other keys interleave.
BudgetPerProcess ==
    \A s \in Slots : Cardinality(LiveThisBoot(s)) <= Limit[s[1]]

\* throttle.rs:91-93: a live key is never evicted to make room.  Everything a
\* slot was admitted for in this lifetime and that is still in its window is
\* still in the map.
LiveEventsTracked == \A s \in Slots : LiveThisBoot(s) \subseteq windows[s]

\* throttle.rs:88-94: the map never grows past its ceiling.
CapacityRespected == Cardinality(Tracked(windows)) <= MaxTracked

\* No check is refused without cause: the history shows either a spent budget
\* of the key itself or a map full of other keys that are each still live.
DenialJustified ==
    /\ reply.outcome = "budget" =>
           Cardinality(LiveThisBoot(reply.slot)) >= Limit[reply.slot[1]]
    /\ reply.outcome = "capacity" =>
           Cardinality({s \in Slots \ {reply.slot} : LiveThisBoot(s) # {}}) >= MaxTracked

\* throttle.rs:73-74: the advice is never zero; it never sends a caller away for
\* longer than it takes (the one-second floor aside) and is never a whole second
\* short of it.
RetryAdviceClose ==
    reply.outcome = "budget" =>
        /\ reply.retry >= 1
        /\ reply.retry > 1 => reply.retry * TicksPerSec <= reply.wait
        /\ (reply.retry + 1) * TicksPerSec > reply.wait

\* throttle.rs:16-24, 84-86: whatever the map forgets, sweeps or refuses to take in,
\* what callers see is a limiter that admits a key only within its budget.
LimiterImplemented == LimiterSpec
=============================================================================
