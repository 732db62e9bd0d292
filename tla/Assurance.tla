------------------------------ MODULE Assurance ------------------------------
(***************************************************************************)
(* Who gets a session, and what a session may do: the sign-in flows, the   *)
(* MFA assurance gate and the management of authenticator factors          *)
(* (src/login.rs, src/security.rs, src/main.rs, src/supabase_auth.rs), for *)
(* one account used from several browsers at once.                         *)
(*                                                                         *)
(* A request is a handler with a program counter.  It stops at each await: *)
(* a call to Supabase Auth or to fiducia-auth.  Such a call is answered in *)
(* one step, from the state those services are in at that moment; between  *)
(* two calls of one request any step of another may happen.  The response  *)
(* reaches the browser's cookie jar in a step of its own, or never.        *)
(*                                                                         *)
(* Supabase's sessions and factors, and fiducia-auth's introspection, are  *)
(* modelled from how this code uses them: a primary grant yields an aal1   *)
(* token, a verified code an aal2 token, and a token that has not expired  *)
(* is introspected as what it is.                                          *)
(***************************************************************************)
EXTENDS Naturals, FiniteSets

CONSTANTS
    Browsers,       \* cookie jars
    Requests,       \* requests in flight at once (bound)
    Factors,        \* the account's possible TOTP factors (bound)
    Aal1, Aal2,     \* access tokens of each assurance level (bounds)
    None,           \* no cookie, no token, no factor
    Keep,           \* a response that does not touch a cookie
    EmptyBodies     \* whether Supabase may answer a factor lookup with an
                    \* empty 2xx body, which parses as "no factors"

ASSUME AssuranceAssumption ==
    /\ Aal1 \cap Aal2 = {}
    /\ None \notin Aal1 \cup Aal2 \cup Factors \cup Browsers
    /\ Keep \notin Aal1 \cup Aal2 \cup {None}
    /\ EmptyBodies \in BOOLEAN

Tokens == Aal1 \cup Aal2

VARIABLES
    factor,     \* Supabase: the state of each factor
    expired,    \* the tokens someone still holds that are no longer valid
    jar,        \* each browser's session and pending cookies
    req         \* each request slot

vars == <<factor, expired, jar, req>>

----------------------------------------------------------------------------
Kinds == {"login", "mfa", "page", "enroll", "activate", "disable", "logout"}

\* Where a request can be: at one of its awaits, or done and on its way back.
Awaits == {"grant", "list", "challenge", "verify", "finalize", "gate", "gatelist",
           "handler", "enroll", "unenroll", "logout"}

Idle == [pc |-> "idle", who |-> None, kind |-> "none", cred |-> None, got |-> None,
         factor |-> None, setSession |-> Keep, setPending |-> Keep,
         acted |-> FALSE, demanded |-> FALSE,
         unenrolled |-> FALSE, enrolled |-> FALSE, proved |-> {}]

\* cred, got: the token presented, and the token Supabase gave the handler.
\* acted: the handler proper ran; demanded: a second factor was asked for.
\* unenrolled, enrolled: history, whether since the request arrived there was
\* a moment with no verified factor, and a moment with one; proved: history,
\* the factors whose code this request has verified.
RequestType ==
    [pc : Awaits \cup {"idle", "reply"}, who : Browsers \cup {None},
     kind : Kinds \cup {"none"}, cred : Tokens \cup {None}, got : Tokens \cup {None},
     factor : Factors \cup {None}, setSession : Tokens \cup {None, Keep},
     setPending : Tokens \cup {None, Keep}, acted : BOOLEAN, demanded : BOOLEAN,
     unenrolled : BOOLEAN, enrolled : BOOLEAN, proved : SUBSET Factors]

TypeOK ==
    /\ factor \in [Factors -> {"absent", "unverified", "verified"}]
    /\ expired \subseteq Tokens
    /\ jar \in [Browsers -> [session : Tokens \cup {None}, pending : Aal1 \cup {None}]]
    /\ req \in [Requests -> RequestType]

Verified(fac) == {f \in Factors : fac[f] = "verified"}

InFlight(r) == req[r].pc # "idle"

Valid(t) == t \in Tokens /\ t \notin expired

\* Tokens some cookie or some request still refers to.
HeldBy(jars, reqs) ==
    {jars[b].session : b \in Browsers} \cup {jars[b].pending : b \in Browsers} \cup
    {reqs[r].cred : r \in Requests} \cup {reqs[r].got : r \in Requests}

Fresh == Tokens \ HeldBy(jar, req)

----------------------------------------------------------------------------
\* A slip: a factor counts before its enrolment is finished.
AnyFactor == {{f \in Factors : factor[f] # "absent"}}

\* is_verified_totp / required_totp_factor: what a factor lookup answers.  An
\* empty body parses to an empty list (expect_success, parse_factors).
FactorAnswers == {Verified(factor)} \cup (IF EmptyBodies THEN {{}} ELSE {})

\* Every request in flight sees the factors change.
Observe(reqs, fac) ==
    [r \in Requests |->
        CASE reqs[r].pc = "idle" -> reqs[r]
          [] reqs[r].pc # "idle" /\ Verified(fac) = {} ->
                [reqs[r] EXCEPT !.unenrolled = TRUE]
          [] reqs[r].pc # "idle" /\ Verified(fac) # {} ->
                [reqs[r] EXCEPT !.enrolled = TRUE]]

SetFactor(f, state, reqs) ==
    /\ factor' = [factor EXCEPT ![f] = state]
    /\ req' = Observe(reqs, factor')

\* Request r goes on as q; nothing outside it changes.
Goes(r, q) ==
    /\ req' = [req EXCEPT ![r] = q]
    /\ UNCHANGED <<factor, expired, jar>>

\* Any await may end the request with an error page: wrong credentials or code,
\* a form refused, a budget spent, an outage, an expired token.  None of these
\* paths sets or clears a session or pending cookie.
Refuse(r) ==
    /\ req[r].pc \in Awaits
    /\ Goes(r, [req[r] EXCEPT !.pc = "reply"])

----------------------------------------------------------------------------
(* Sign-in: POST /login and POST /login/verify, from the point where the     *)
(* primary factor has been checked; then POST /login/mfa.                    *)

\* The password grant or the redeemed one-time code: an aal1 token.
Grant(r) ==
    /\ req[r].pc = "grant"
    /\ \E t \in Fresh \cap Aal1 :
          Goes(r, [req[r] EXCEPT !.pc = "list", !.got = t])

\* A slip: the password path does not look the factors up.
FinishUnasked(r) ==
    /\ req[r].pc = "list"
    /\ Goes(r, [req[r] EXCEPT !.pc = "finalize"])

\* list_factors decides between the step-up and the end of the login.
ListFactors(r) ==
    /\ req[r].pc = "list"
    /\ Valid(req[r].got)
    /\ \E seen \in FactorAnswers :
          \/ /\ seen = {}
             /\ Goes(r, [req[r] EXCEPT !.pc = "finalize"])
          \/ \E f \in seen :
                Goes(r, [req[r] EXCEPT !.pc = "challenge", !.factor = f])

\* Slips: the token is made the session as well; it is not set aside at all; the
\* factor id is set aside in its place (both are &str).
StepUpIssuesSession(r) ==
    /\ req[r].pc = "challenge" /\ req[r].kind = "login"
    /\ Goes(r, [req[r] EXCEPT !.pc = "reply", !.setPending = req[r].got,
                              !.setSession = req[r].got])
StepUpForgetsPending(r) ==
    /\ req[r].pc = "challenge" /\ req[r].kind = "login"
    /\ Goes(r, [req[r] EXCEPT !.pc = "reply", !.demanded = TRUE])
StepUpSwapsArguments(r) ==
    /\ req[r].pc = "challenge" /\ req[r].kind = "login"
    /\ Goes(r, [req[r] EXCEPT !.pc = "reply", !.setPending = req[r].factor])

\* begin_mfa_step_up: the aal1 token goes to the pending cookie, not the session.
BeginStepUp(r) ==
    /\ req[r].pc = "challenge"
    /\ req[r].kind = "login"
    /\ Valid(req[r].got)
    /\ factor[req[r].factor] # "absent"
    /\ Goes(r, [req[r] EXCEPT !.pc = "reply", !.setPending = req[r].got, !.demanded = TRUE])

AfterCode(kind) == CASE kind = "mfa" -> "finalize"
                     [] kind = "activate" -> "reply"
                     [] kind = "disable" -> "unenroll"

\* verify_factor, for the step-up, for activation and for removal: a verified
\* code makes the factor verified and yields an aal2 token.
VerifyCode(r) ==
    /\ req[r].pc = "verify"
    /\ Valid(req[r].cred)
    /\ factor[req[r].factor] # "absent"
    /\ \E t \in Fresh \cap Aal2 :
          LET q == [req[r] EXCEPT !.pc = AfterCode(req[r].kind), !.got = t,
                                  !.proved = {req[r].factor}]
          IN SetFactor(req[r].factor, "verified", [req EXCEPT ![r] = q])
    /\ UNCHANGED <<expired, jar>>

\* The same call when its answer is lost: Supabase acted, the handler saw an
\* outage.  (For Enroll and Unenroll the two cases leave the same state.)
VerifyCodeUnheard(r) ==
    /\ req[r].pc = "verify"
    /\ Valid(req[r].cred)
    /\ factor[req[r].factor] # "absent"
    /\ SetFactor(req[r].factor, "verified", [req EXCEPT ![r].pc = "reply"])
    /\ UNCHANGED <<expired, jar>>

\* finalize_customer_login: fiducia-auth vouches for the token once more, then
\* it becomes the session and the pending cookie goes.
Finalize(r) ==
    /\ req[r].pc = "finalize"
    /\ Valid(req[r].got)
    /\ Goes(r, [req[r] EXCEPT !.pc = "reply", !.setSession = req[r].got,
                              !.setPending = None])

----------------------------------------------------------------------------
(* Protected requests: the router-wide gate, then the handler, which         *)
(* authenticates again.                                                      *)

\* A slip: an issued session is trusted, whatever its level.
GateTrustsIssuance(r) ==
    /\ req[r].pc = "gate"
    /\ Valid(req[r].cred)
    /\ Goes(r, [req[r] EXCEPT !.pc = "handler"])

\* authenticate_mfa_aware, first half: an aal2 session needs no lookup.
Gate(r) ==
    /\ req[r].pc = "gate"
    /\ Valid(req[r].cred)
    /\ Goes(r, [req[r] EXCEPT !.pc = IF req[r].cred \in Aal2 THEN "handler" ELSE "gatelist"])

\* Second half: an aal1 session passes only if no factor is verified now.
GateLookup(r) ==
    /\ req[r].pc = "gatelist"
    /\ Valid(req[r].cred)
    /\ \E seen \in FactorAnswers :
          IF seen = {}
          THEN Goes(r, [req[r] EXCEPT !.pc = "handler"])
          ELSE Goes(r, [req[r] EXCEPT !.pc = "reply", !.demanded = TRUE])

AfterHandler(kind) == CASE kind = "page" -> "reply"
                        [] kind = "enroll" -> "enroll"
                        [] kind \in {"activate", "disable"} -> "challenge"

\* A slip: removal relies on the gate alone.
HandlerTrustsGate(r) ==
    /\ req[r].pc = "handler"
    /\ Valid(req[r].cred)
    /\ Goes(r, [req[r] EXCEPT !.pc = AfterHandler(req[r].kind), !.acted = TRUE])

\* The handler's own authenticate; removal also insists on aal2.
Handler(r) ==
    /\ req[r].pc = "handler"
    /\ Valid(req[r].cred)
    /\ req[r].kind = "disable" => req[r].cred \in Aal2
    /\ Goes(r, [req[r] EXCEPT !.pc = AfterHandler(req[r].kind), !.acted = TRUE])

\* customer_mfa_enroll: a new factor, not active until a code is confirmed.
Enroll(r) ==
    /\ req[r].pc = "enroll"
    /\ Valid(req[r].cred)
    /\ factor[req[r].factor] = "absent"
    /\ SetFactor(req[r].factor, "unverified", [req EXCEPT ![r].pc = "reply"])
    /\ UNCHANGED <<expired, jar>>

\* customer_mfa_activate and customer_mfa_disable open a challenge first.
OpenChallenge(r) ==
    /\ req[r].pc = "challenge"
    /\ req[r].kind \in {"activate", "disable"}
    /\ Valid(req[r].cred)
    /\ factor[req[r].factor] # "absent"
    /\ Goes(r, [req[r] EXCEPT !.pc = "verify"])

\* customer_mfa_disable: the removal uses the token the fresh code yielded.
Unenroll(r) ==
    /\ req[r].pc = "unenroll"
    /\ Valid(req[r].got)
    /\ SetFactor(req[r].factor, "absent", [req EXCEPT ![r].pc = "reply"])
    /\ UNCHANGED <<expired, jar>>

\* customer_logout: outside the gate, but it authenticates.
Logout(r) ==
    /\ req[r].pc = "logout"
    /\ Valid(req[r].cred)
    /\ Goes(r, [req[r] EXCEPT !.pc = "reply", !.acted = TRUE,
                              !.setSession = None, !.setPending = None])

----------------------------------------------------------------------------
(* The browser and the network.                                              *)

\* Where each kind of request first waits, and the cookie it presents.
FirstAwait(kind) ==
    CASE kind = "login" -> "grant"
      [] kind = "mfa" -> "verify"
      [] kind = "logout" -> "logout"
      [] OTHER -> "gate"

Presents(b, kind) ==
    CASE kind = "login" -> None
      [] kind = "mfa" -> jar[b].pending
      [] OTHER -> jar[b].session

\* A form names its factor; a request without its cookie is turned away at
\* once and changes nothing, so it is not sent here.
Send(r, b, kind, f) ==
    /\ ~InFlight(r)
    /\ kind # "login" => Presents(b, kind) # None
    /\ (f = None) <=> kind \in {"login", "page", "logout"}
    /\ Goes(r, [Idle EXCEPT !.pc = FirstAwait(kind), !.who = b, !.kind = kind,
                            !.cred = Presents(b, kind), !.factor = f,
                            !.unenrolled = Verified(factor) = {},
                            !.enrolled = Verified(factor) # {}])

Cookie(old, instruction) == IF instruction = Keep THEN old ELSE instruction

\* Request r is over, and the jars are as given; a token nobody holds any more
\* can play no further part.
Ends(r, jars) ==
    /\ req' = [req EXCEPT ![r] = Idle]
    /\ jar' = jars
    /\ expired' = expired \cap HeldBy(jar', req')
    /\ UNCHANGED factor

\* The response arrives: the browser applies its Set-Cookie headers.
Deliver(r) ==
    /\ req[r].pc = "reply"
    /\ Ends(r, [jar EXCEPT ![req[r].who] =
                    [session |-> Cookie(@.session, req[r].setSession),
                     pending |-> Cookie(@.pending, req[r].setPending)]])

\* The browser is gone, the response is lost, or TimeoutLayer drops the handler
\* between two awaits.
Abandon(r) == InFlight(r) /\ Ends(r, jar)

\* A cookie reaches its Max-Age.
CookieLapses(b, cookie) ==
    /\ jar[b][cookie] # None
    /\ jar' = [jar EXCEPT ![b][cookie] = None]
    /\ expired' = expired \cap HeldBy(jar', req)
    /\ UNCHANGED <<factor, req>>

\* A token's lifetime ends at Supabase.
Expire(t) ==
    /\ t \in HeldBy(jar, req)
    /\ Valid(t)
    /\ expired' = expired \cup {t}
    /\ UNCHANGED <<factor, jar, req>>

----------------------------------------------------------------------------
Init ==
    /\ factor = [f \in Factors |-> "absent"]
    /\ expired = {}
    /\ jar = [b \in Browsers |-> [session |-> None, pending |-> None]]
    /\ req = [r \in Requests |-> Idle]

Step(r) ==
    \/ Refuse(r)
    \/ Grant(r) \/ ListFactors(r) \/ BeginStepUp(r)
    \/ VerifyCode(r) \/ VerifyCodeUnheard(r) \/ Finalize(r)
    \/ Gate(r) \/ GateLookup(r) \/ Handler(r)
    \/ Enroll(r) \/ OpenChallenge(r) \/ Unenroll(r) \/ Logout(r)

Next ==
    \/ \E r \in Requests : Step(r) \/ Deliver(r) \/ Abandon(r)
    \/ \E r \in Requests, b \in Browsers, k \in Kinds, f \in Factors \cup {None} :
          Send(r, b, k, f)
    \/ \E b \in Browsers, cookie \in {"session", "pending"} : CookieLapses(b, cookie)
    \/ \E t \in Tokens : Expire(t)

Spec == Init /\ [][Next]_vars

\* TimeoutLayer (REQUEST_TIMEOUT_SECS) puts an end to every request.
RequestsEnd(r) == WF_vars(Deliver(r) \/ Abandon(r))

\* A user with the credentials and the authenticator keeps trying from browser
\* b, and some of the attempts get through: a request sent, answered, delivered
\* while the token it is about is still valid.  Nothing else is fair: any number
\* of attempts may be refused, lost or outlived by their tokens in between.
SignInFairness(r, b) ==
    /\ SF_vars(Send(r, b, "login", None))
    /\ SF_vars(Grant(r))
    /\ SF_vars(req[r].kind = "login" /\ ListFactors(r))
    /\ SF_vars(BeginStepUp(r))
    /\ SF_vars(Valid(req[r].setPending) /\ Deliver(r))
    /\ SF_vars(\E f \in Verified(factor) : Valid(jar[b].pending) /\ Send(r, b, "mfa", f))
    /\ SF_vars(req[r].kind = "mfa" /\ VerifyCode(r))
    /\ SF_vars(req[r].kind = "mfa" /\ Finalize(r))
    /\ SF_vars(Valid(req[r].setSession) /\ Deliver(r))

FairSpec ==
    /\ Spec
    /\ \A r \in Requests : RequestsEnd(r) /\ \A b \in Browsers : SignInFairness(r, b)

----------------------------------------------------------------------------
\* login.rs:107-128, 586-587: a single-factor session is issued only if, at some
\* moment since the sign-in request arrived, the account had no verified factor.
\* A factor activated after the lookup cannot be excluded; one verified all
\* along can never be skipped.
IssueAssured ==
    \A r \in Requests : req[r].setSession \in Aal1 => req[r].unenrolled

\* main.rs:503-507: the gate's lookup is live.  Handler code runs for an aal1
\* credential only if the account had no verified factor at some moment since
\* the request arrived, whatever was true when the session was issued.
ServeAssured ==
    \A r \in Requests :
        req[r].acted /\ req[r].cred \in Aal1 /\ req[r].kind # "logout" => req[r].unenrolled

\* supabase_auth.rs:84-86: a half-finished enrolment never asks for a second
\* factor; a request is sent to the step-up only if a factor was verified at
\* some moment since it arrived.
StepUpJustified ==
    \A r \in Requests : req[r].demanded => req[r].enrolled

\* login.rs:650-668: the token set aside for a step-up is no browser's session,
\* and no response about to be delivered makes it one.
PendingIsNeverASession ==
    \A b \in Browsers :
        jar[b].pending # None =>
            /\ \A c \in Browsers : jar[c].session # jar[b].pending
            /\ \A r \in Requests : req[r].setSession # jar[b].pending

RemovesWithProof(r, f) ==
    req[r].kind = "disable" /\ req[r].cred \in Aal2 /\ f \in req[r].proved

\* login.rs:925-930: a verified factor goes only in a request that presented an
\* aal2 session and has just verified a code of that very factor.
RemovalProved ==
    [][\A f \in Factors :
          factor[f] = "verified" /\ factor'[f] # "verified" =>
              \E r \in Requests : RemovesWithProof(r, f)]_vars

\* No state is a dead end for an enrolled user: whatever was abandoned, lost or
\* expired before, the account's browser gets an aal2 session in the end, unless
\* the factor is removed.  (After customer_mfa_activate, login.rs:861-868 drops
\* the aal2 session it was given, and the gate turns the aal1 one away.)
SignInRecovers ==
    \A b \in Browsers :
        Verified(factor) # {} ~>
            (Verified(factor) = {} \/ (jar[b].session \in Aal2 /\ Valid(jar[b].session)))
=============================================================================
