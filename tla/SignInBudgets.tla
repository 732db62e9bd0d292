---------------------------- MODULE SignInBudgets ----------------------------
(***************************************************************************)
(* The sign-in handlers (Dispatch) on the limiter as it is built           *)
(* (Throttle): a handler's check is a check of the one map they all share, *)
(* and it goes on, or answers 429, as the map decides (src/login.rs,       *)
(* src/throttle.rs).  The other steps of a handler leave the map alone.    *)
(***************************************************************************)
EXTENDS Throttle, Dispatch

budgetVars == <<vars, handler, sent>>

----------------------------------------------------------------------------
\* A slip: the handler goes on whatever the decision.
AskInVain(h) ==
    /\ Asks(h)
    /\ Check(Head(handler[h].left))
    /\ Charge(h)
    /\ UNCHANGED sent

\* login.rs throttled: one check, and what the handler makes of its Decision.
Ask(h) ==
    /\ Asks(h)
    /\ LET s == Head(handler[h].left) IN
          \/ Admit(s) /\ Charge(h)
          \/ (DenyOverBudget(s) \/ RefuseNewKey(s)) /\ TurnAway(h)
    /\ UNCHANGED sent

\* What a handler does without the map.
Elsewhere(h) ==
    /\ \/ Call(h) \/ NoCall(h)
       \/ \E r \in Requests : Arrive(h, r)
    /\ UNCHANGED <<windows, reply>>

BudgetsTick == Tick /\ UNCHANGED <<handler, sent>>

\* The process is replaced, its handlers and its map with it.
BudgetsRestart == Restart /\ HandlersLost /\ UNCHANGED sent

BudgetsInit ==
    /\ Init
    /\ handler = [h \in Handlers |-> New]
    /\ sent = {}

BudgetsNext ==
    \/ \E h \in Handlers : Ask(h) \/ Elsewhere(h)
    \/ BudgetsTick
    \/ BudgetsRestart

BudgetsSpec == BudgetsInit /\ [][BudgetsNext]_budgetVars

----------------------------------------------------------------------------
\* login.rs:56-57, 545-548, 608-610, 695-698 over throttle.rs:84-121: on the map, with its
\* sweeps, its ceiling and its refusals, the handlers do only what Dispatch has them
\* do on the limiter the map promises to be, so what is shown there holds here.
DispatchImplemented == DispatchSpec
=============================================================================
