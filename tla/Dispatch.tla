------------------------------ MODULE Dispatch ------------------------------
(***************************************************************************)
(* The budgets of the sign-in handlers (src/login.rs), over what the       *)
(* limiter promises (Limiter).  A handler checks its budgets one after the *)
(* other, each check under the limiter's mutex and so interleaved with     *)
(* every other handler's, and then spends the upstream call they guard: a  *)
(* code dispatched, a code or a password tried.                            *)
(*                                                                         *)
(* What the limiter counts under is the identifier as it was typed, what   *)
(* the call reaches is what send_otp makes of it; a spelling is told apart *)
(* here by what either of the two drops.  Requests that are refused before *)
(* a budget is touched (origin, CSRF, an empty form) change nothing and    *)
(* are left out.                                                           *)
(***************************************************************************)
EXTENDS Limiter

CONSTANTS
    Handlers,       \* the sign-in requests made in a behaviour (bound)
    Requests,       \* what may be submitted
    Unattributed    \* the client key of a request nobody forwarded

VARIABLES
    handler,        \* the sign-in handlers at work
    sent            \* history: the upstream calls made, with what they had been admitted for

limiterVars == <<now, boots, log>>

dispatchVars == <<limiterVars, handler, sent>>

----------------------------------------------------------------------------
\* A request: `route`, "otp", "verify", "password" or "mfa"; `channel`, "email" or "phone";
\* `name`, the address or number it is about; `pad`, whether it was typed with outer blanks
\* or in upper case; `gap`, where it was typed with blanks inside; `hops`, the
\* X-Forwarded-For list, to which the gateway appended the peer it saw.

\* The gap of an identifier without inner blanks.
Solid == "solid"

\* A slip: the limiter counts under the identifier as it was typed.
KeyAsTyped(r) == [name |-> r.name, gap |-> IF r.pad THEN "padded" ELSE r.gap]

\* check_in trims the key and lower-cases it, and keeps what is inside: one key for every
\* way of setting inner blanks.
IdentifierKey(r) == [name |-> r.name, gap |-> r.gap]

\* client_key: the hop the gateway appended; without one, a key shared by all.
ClientKey(r) ==
    [name |-> IF r.hops = <<>> THEN Unattributed ELSE r.hops[Len(r.hops)], gap |-> Solid]

\* A slip: a dispatch is counted for the identifier only.
CheapDispatch(r) ==
    CASE r.route = "otp"      -> << <<"OtpDispatchPerIdentifier", IdentifierKey(r)>> >>
      [] r.route = "verify"   -> << <<"OtpVerifyPerIdentifier", IdentifierKey(r)>> >>
      [] r.route = "password" -> << <<"PasswordPerIdentifier", IdentifierKey(r)>> >>
      [] r.route = "mfa"      -> << <<"MfaVerifyPerClient", ClientKey(r)>> >>

\* The budgets a handler asks for, in its order.
Budgets(r) ==
    CASE r.route = "otp"      -> << <<"OtpDispatchPerIdentifier", IdentifierKey(r)>>,
                                   <<"OtpDispatchPerClient", ClientKey(r)>> >>
      [] r.route = "verify"   -> << <<"OtpVerifyPerIdentifier", IdentifierKey(r)>> >>
      [] r.route = "password" -> << <<"PasswordPerIdentifier", IdentifierKey(r)>> >>
      [] r.route = "mfa"      -> << <<"MfaVerifyPerClient", ClientKey(r)>> >>

\* The four kinds of request of src/login.rs that spend a budget, and no budget unknown to the limiter.
ASSUME DispatchAssumption ==
    \A r \in Requests :
        /\ r.route \in {"otp", "verify", "password", "mfa"}
        /\ \A i \in DOMAIN Budgets(r) : Budgets(r)[i] \in Slots

\* normalize_identifier: a phone number loses its inner blanks, an e-mail address
\* that has some is refused (here, or for a password by Supabase).
Reaches(r) == \/ r.gap = Solid
              \/ r.channel = "phone" /\ r.route \in {"otp", "verify"}

\* An admission, named by its slot and its place in the slot's log.
Ticket(s, e) == [slot |-> s, event |-> e]

New == [pc |-> "new", tickets |-> {}]
Done == [pc |-> "done", tickets |-> {}]

----------------------------------------------------------------------------
\* A request gets past the checks of its origin and its form.
Arrive(h, r) ==
    /\ handler[h] = New
    /\ handler' = [handler EXCEPT ![h] = [pc |-> "check", request |-> r, left |-> Budgets(r),
                                        tickets |-> {}]]
    /\ UNCHANGED <<limiterVars, sent>>

\* Handler h is about to ask for a budget.
Asks(h) == handler[h].pc = "check" /\ handler[h].left # <<>>

\* It has been admitted: on to the next budget, or to the call.
Charge(h) ==
    LET s == Head(handler[h].left) IN
        handler' = [handler EXCEPT ![h].left = Tail(@),
                                   ![h].tickets = @ \cup {Ticket(s, Len(log[s]) + 1)}]

\* It has been refused, over budget or for want of room: 429 at once, and what was
\* already spent stays spent.
TurnAway(h) == handler' = [handler EXCEPT ![h] = Done]

\* throttle::check, one budget of the handler's.
Pass(h) ==
    /\ Asks(h)
    /\ Allow(Head(handler[h].left))
    /\ Charge(h)
    /\ UNCHANGED sent

TooMany(h) ==
    /\ Asks(h)
    /\ TurnAway(h)
    /\ UNCHANGED <<limiterVars, sent>>

Admitted(h) == handler[h].pc = "check" /\ handler[h].left = <<>>

\* send_otp, verify_otp, verify_factor, the password grant: the call is made,
\* whether or not its answer is a success and arrives.
Call(h) ==
    /\ Admitted(h)
    /\ Reaches(handler[h].request)
    /\ sent' = sent \cup {[request |-> handler[h].request, tickets |-> handler[h].tickets]}
    /\ handler' = [handler EXCEPT ![h] = Done]
    /\ UNCHANGED limiterVars

\* The identifier or the code is malformed, Supabase is not configured or out of
\* reach, the handler is dropped: no call, and no budget is given back.
NoCall(h) ==
    /\ Admitted(h)
    /\ handler' = [handler EXCEPT ![h] = Done]
    /\ UNCHANGED <<limiterVars, sent>>

DispatchTick == Elapse /\ UNCHANGED <<handler, sent>>

\* The process is replaced, its handlers with it.
HandlersLost == handler' = [h \in Handlers |-> IF handler[h] = New THEN New ELSE Done]

DispatchRestart ==
    /\ Forget
    /\ HandlersLost
    /\ UNCHANGED sent

DispatchInit ==
    /\ LimiterInit
    /\ handler = [h \in Handlers |-> New]
    /\ sent = {}

DispatchNext ==
    \/ \E h \in Handlers :
          \/ Pass(h) \/ TooMany(h) \/ Call(h) \/ NoCall(h)
          \/ \E r \in Requests : Arrive(h, r)
    \/ DispatchTick
    \/ DispatchRestart

DispatchSpec == DispatchInit /\ [][DispatchNext]_dispatchVars

----------------------------------------------------------------------------
\* Call x was admitted by bucket b in this lifetime and within b's window.
Fresh(x, b) ==
    \E t \in x.tickets : t.slot[1] = b /\ t.event \in LiveThisBoot(t.slot)

IdentifierBuckets == {"OtpDispatchPerIdentifier", "OtpVerifyPerIdentifier", "PasswordPerIdentifier"}

\* Two calls about one address or number.
SameAccount(x, y) ==
    x.request.name = y.request.name /\ x.request.channel = y.request.channel

\* throttle.rs:40-41, 45-46 and 50-51, as far as it is so: in one lifetime of the process
\* no window sees more calls about one address than its budget, however the address is
\* written, and no more about one number than its budget for each way of setting blanks
\* inside it.
AccountProtected ==
    \A b \in IdentifierBuckets \cap Buckets, y \in sent :
        Cardinality({x \in sent : /\ SameAccount(x, y)
                                  /\ y.request.channel = "phone" => x.request.gap = y.request.gap
                                  /\ Fresh(x, b)}) <= Limit[b]

\* throttle.rs:232-241, "Case/whitespace variants must NOT hand out a fresh budget", and
\* 40-46, login.rs:545-546: no window sees more calls about one address or number than
\* its budget, however it is written.
VariantsShareABudget ==
    \A b \in IdentifierBuckets \cap Buckets, y \in sent :
        Cardinality({x \in sent : SameAccount(x, y) /\ Fresh(x, b)}) <= Limit[b]

\* The peer the gateway saw: what it appended, if the request went through it.
Peer(r) == IF r.hops = <<>> THEN <<>> ELSE <<r.hops[Len(r.hops)]>>

\* throttle.rs:42-44 and 47: nor more calls by one peer of the gateway, whatever
\* else it writes into the header and however many identifiers it goes through.
PeerCapped ==
    \A b \in {"OtpDispatchPerClient", "MfaVerifyPerClient"} \cap Buckets, y \in sent :
        Cardinality({x \in sent : Peer(x.request) = Peer(y.request) /\ Fresh(x, b)}) <= Limit[b]

\* throttle.rs:40-51: each budget holds for what it counts: an address, a number as it is
\* spaced, a peer of the gateway.
BudgetsHold == AccountProtected /\ PeerCapped

\* login.rs:545-548, 56-57, 608-610, 695-698: no call is made before it was paid
\* for, and none with what another handler paid: the admissions behind a call are
\* those of every budget of its route, and no two requests share one.
EveryCallPaid ==
    LET price == [otp |-> {"OtpDispatchPerIdentifier", "OtpDispatchPerClient"},
                  verify |-> {"OtpVerifyPerIdentifier"},
                  password |-> {"PasswordPerIdentifier"},
                  mfa |-> {"MfaVerifyPerClient"}]
    IN /\ \A x \in sent :
             /\ {t.slot[1] : t \in x.tickets} = price[x.request.route]
             /\ \A y \in sent \ {x} : x.tickets \cap y.tickets = {}
             /\ \A h \in Handlers : x.tickets \cap handler[h].tickets = {}
       /\ \A g, h \in Handlers : g # h => handler[g].tickets \cap handler[h].tickets = {}
=============================================================================
