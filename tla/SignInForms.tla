------------------------------ MODULE SignInForms ------------------------------
(***************************************************************************)
(* The pages of the sign-in flow in several tabs of one browser            *)
(* (src/login.rs, src/security.rs).  Every page with a login form is bound *)
(* to a fresh nonce, which travels in one cookie the tabs share; a form is *)
(* accepted only while its nonce is the cookie's.  The token of the first  *)
(* factor waits in a second shared cookie for the step-up form.            *)
(*                                                                         *)
(* A handler shares no state with another one, so it is a step from the    *)
(* cookies the form was sent with to one of its possible responses.  The   *)
(* response reaches the browser later: its cookies are stored and its page *)
(* is shown, each of which may fail.                                       *)
(*                                                                         *)
(* Scripted says how a form is sent: by the page's htmx (assets/           *)
(* htmx.min.js, external), which stores the cookies of an error response   *)
(* but leaves the page as it was, or as a plain form post, which shows     *)
(* whatever comes back.  The back button is not modelled.                  *)
(***************************************************************************)
EXTENDS Naturals

CONSTANTS
    Tabs,       \* tabs of one browser, each with one request in flight at most
    Nonces,     \* values of the login nonce (bound: those in use at once)
    NoTab,      \* nobody
    User,       \* a tab whose user wants to sign in (UserFairness, GetsIn)
    Scripted    \* whether htmx runs

ASSUME SignInFormsAssumption ==
    /\ NoTab \notin Tabs
    /\ User \in Tabs
    /\ Nonces \cap {"absent", "keep"} = {}
    /\ Scripted \in BOOLEAN

VARIABLES
    jar,        \* the cookies: nonce, pending, session
    tab,        \* what each tab shows, and the response on its way to it
    lastSet     \* history: the tab whose response, received in full, last touched
                \* the nonce cookie and the pending cookie; NoTab if none did

vars == <<jar, tab, lastSet>>

----------------------------------------------------------------------------
\* The forms that POST to the sign-in flow, by the page they are on.
LoginForms == {"login", "code", "stepup"}

Pages == LoginForms \cup {"app", "blank"}

Presence == {"present", "absent"}

Nothing == [form |-> "nothing"]

\* status: "error" for a 4xx or 5xx; bound: the nonce the page's forms are bound to;
\* nonce, pending, session: what becomes of each cookie.
Responses == [status : {"ok", "error"}, form : Pages, bound : Nonces \cup {"absent"},
              nonce : Nonces \cup {"absent", "keep"},
              pending : Presence \cup {"keep"}, session : Presence \cup {"keep"}]

TypeOK ==
    /\ jar \in [nonce : Nonces \cup {"absent"}, pending : Presence, session : Presence]
    /\ tab \in [Tabs -> [form : Pages, bound : Nonces \cup {"absent"},
                         reply : Responses \cup {Nothing}]]
    /\ lastSet \in [nonce : Tabs \cup {NoTab}, pending : Tabs \cup {NoTab}]
    /\ \A t \in Tabs : tab[t].form \in LoginForms <=> tab[t].bound \in Nonces

\* Two random UUIDs: a nonce nobody has.
Fresh ==
    Nonces \ ({jar.nonce} \cup {tab[t].bound : t \in Tabs} \cup
              {tab[t].reply.nonce : t \in {u \in Tabs : tab[u].reply # Nothing}})

----------------------------------------------------------------------------
(* Responses.                                                                *)

\* Slips: the nonce of a page never reaches the cookie; a page is not given one.
PageWithoutCookie(form, n) ==
    [status |-> "ok", form |-> form, bound |-> n,
     nonce |-> "keep", pending |-> "keep", session |-> "keep"]
PageWithoutToken(form, n) ==
    [status |-> "ok", form |-> form, bound |-> "absent",
     nonce |-> n, pending |-> "keep", session |-> "keep"]

\* login_flow_page: the page and its nonce cookie go together.
LoginFlowPage(form, n) ==
    [status |-> "ok", form |-> form, bound |-> n,
     nonce |-> n, pending |-> "keep", session |-> "keep"]

\* A slip: the refusal is a new response that carries the page's body only.
FailedBodyOnly(response) == [response EXCEPT !.status = "error", !.nonce = "keep"]

\* throttled_response and supabase_auth_error_response: the page under an error status.
Failed(response) == [response EXCEPT !.status = "error"]

\* request_security_error, dependency_error: JSON without cookies.
Rejection == [status |-> "error", form |-> "blank", bound |-> "absent",
              nonce |-> "keep", pending |-> "keep", session |-> "keep"]

\* begin_mfa_step_up: the step-up page, and the first factor's token set aside.
StepUp(n) == [LoginFlowPage("stepup", n) EXCEPT !.pending = "present"]

\* finalize_customer_login: the session starts, the login cookies go.
Finished == [status |-> "ok", form |-> "app", bound |-> "absent",
             nonce |-> "absent", pending |-> "absent", session |-> "present"]

\* What follows once the first factor is accepted, whichever it was.
FirstFactorAccepted(n) == {StepUp(n), Finished, Rejection}

\* A slip: a wrong code ends the step-up.
RetryEndsStepUp(n) == [Failed(LoginFlowPage("stepup", n)) EXCEPT !.pending = "absent"]

\* A wrong code or a spent budget leaves the pending cookie for another try.
StepUpRetry(n) == Failed(LoginFlowPage("stepup", n))

\* customer_logout clears all three; GET /login, where it sends the browser, may fail.
SignedOut(n) == [LoginFlowPage("login", n) EXCEPT !.pending = "absent", !.session = "absent"]
SignedOutUnseen == [Rejection EXCEPT !.nonce = "absent", !.pending = "absent",
                                     !.session = "absent"]

----------------------------------------------------------------------------
(* The handlers, each from the form of tab t.                                *)

Idle(t) == tab[t].reply = Nothing

\* require_login_security: the form is bound to the nonce of the cookie.
Accepted(t) == jar.nonce # "absent" /\ tab[t].bound = jar.nonce

\* The form is sent with the cookies of the moment and answered by one of answers.
Answered(t, answers) ==
    /\ Idle(t)
    /\ \E r \in answers : tab' = [tab EXCEPT ![t].reply = r]
    /\ UNCHANGED <<jar, lastSet>>

Guarded(t, answers) == IF Accepted(t) THEN answers ELSE {Rejection}

\* GET /login, typed or by "Start over".
customer_login(t) == \E n \in Fresh : Answered(t, {LoginFlowPage("login", n)})

customer_login_submit(t) ==
    /\ tab[t].form = "login"
    /\ \E n \in Fresh :
          Answered(t, Guarded(t, FirstFactorAccepted(n) \cup
                                 {Failed(LoginFlowPage("login", n)), Rejection}))

\* A code is asked for, first or again: the address's budget, the client's budget.
customer_login_otp_submit(t) ==
    /\ tab[t].form \in {"login", "code"}
    /\ \E n \in Fresh :
          Answered(t, Guarded(t, {Failed(LoginFlowPage("code", n)),
                                  Failed(LoginFlowPage("login", n)),
                                  LoginFlowPage("code", n), Rejection}))

customer_login_verify_submit(t) ==
    /\ tab[t].form = "code"
    /\ \E n \in Fresh :
          Answered(t, Guarded(t, FirstFactorAccepted(n) \cup
                                 {Failed(LoginFlowPage("code", n)), Rejection}))

\* Without the pending cookie the user starts over.
customer_login_mfa_submit(t) ==
    /\ tab[t].form = "stepup"
    /\ \E n \in Fresh :
          Answered(t, Guarded(t, IF jar.pending = "absent"
                                 THEN {LoginFlowPage("login", n)}
                                 ELSE {StepUpRetry(n), Finished, Rejection}))

\* Refused without a session, and with one that is no longer valid or not the
\* one the page was made for.
customer_logout(t) ==
    /\ tab[t].form = "app"
    /\ \E n \in Fresh :
          Answered(t, {Rejection} \cup IF jar.session = "absent" THEN {}
                                       ELSE {SignedOut(n), SignedOutUnseen})

Handler(t) ==
    \/ customer_login(t)
    \/ customer_login_submit(t) \/ customer_login_otp_submit(t)
    \/ customer_login_verify_submit(t) \/ customer_login_mfa_submit(t)
    \/ customer_logout(t)

----------------------------------------------------------------------------
(* The browser.                                                              *)

Cookie(old, instruction) == IF instruction = "keep" THEN old ELSE instruction

Whose(who, old, instruction) == IF instruction = "keep" THEN old ELSE who

\* The response's headers reach the browser, which puts the cookies down to
\* who; the tab then shows form, bound to n.
Arrives(t, who, form, n) ==
    LET r == tab[t].reply IN
    /\ jar' = [nonce |-> Cookie(jar.nonce, r.nonce),
               pending |-> Cookie(jar.pending, r.pending),
               session |-> Cookie(jar.session, r.session)]
    /\ lastSet' = [nonce |-> Whose(who, lastSet.nonce, r.nonce),
                   pending |-> Whose(who, lastSet.pending, r.pending)]
    /\ tab' = [tab EXCEPT ![t] = [form |-> form, bound |-> n, reply |-> Nothing]]

\* Under htmx an error response does not replace the page.
Stays(t) == Scripted /\ tab[t].reply.status = "error"

Deliver(t) ==
    /\ ~Idle(t)
    /\ IF Stays(t) THEN Arrives(t, t, tab[t].form, tab[t].bound)
                   ELSE Arrives(t, t, tab[t].reply.form, tab[t].reply.bound)

\* The connection breaks after the headers: no page, or with htmx the old one.
CutLeaves(t) ==
    {[form |-> "blank", bound |-> "absent"]} \cup
    IF Scripted THEN {[form |-> tab[t].form, bound |-> tab[t].bound]} ELSE {}

Cut(t) ==
    /\ ~Idle(t)
    /\ \E page \in CutLeaves(t) : Arrives(t, NoTab, page.form, page.bound)

\* The response is lost, or the user stops waiting for it.
Lose(t) ==
    /\ ~Idle(t)
    /\ tab' = [tab EXCEPT ![t].reply = Nothing]
    /\ UNCHANGED <<jar, lastSet>>

\* The user closes the tab or goes elsewhere.
Leave(t) ==
    /\ tab[t].form # "blank"
    /\ tab' = [tab EXCEPT ![t] = [form |-> "blank", bound |-> "absent", reply |-> Nothing]]
    /\ UNCHANGED <<jar, lastSet>>

\* Cookies reach their Max-Age.
NonceLapses ==
    /\ jar.nonce # "absent"
    /\ jar' = [jar EXCEPT !.nonce = "absent"]
    /\ lastSet' = [lastSet EXCEPT !.nonce = NoTab]
    /\ UNCHANGED tab

PendingLapses ==
    /\ jar.pending # "absent"
    /\ jar' = [jar EXCEPT !.pending = "absent"]
    /\ lastSet' = [lastSet EXCEPT !.pending = NoTab]
    /\ UNCHANGED tab

SessionLapses ==
    /\ jar.session # "absent"
    /\ jar' = [jar EXCEPT !.session = "absent"]
    /\ UNCHANGED <<tab, lastSet>>

----------------------------------------------------------------------------
Init ==
    /\ jar = [nonce |-> "absent", pending |-> "absent", session |-> "absent"]
    /\ tab = [t \in Tabs |-> [form |-> "blank", bound |-> "absent", reply |-> Nothing]]
    /\ lastSet = [nonce |-> NoTab, pending |-> NoTab]

Next ==
    \/ \E t \in Tabs : Handler(t) \/ Deliver(t) \/ Cut(t) \/ Lose(t) \/ Leave(t)
    \/ NonceLapses \/ PendingLapses \/ SessionLapses

Spec == Init /\ [][Next]_vars

\* The sign-in handlers, when they end in a session.
Finishes(t) ==
    /\ customer_login_submit(t) \/ customer_login_verify_submit(t)
       \/ customer_login_mfa_submit(t)
    /\ tab'[t].reply = Finished

\* The user of tab t goes on with the form the tab shows, and opens the login
\* page only when it shows none.
GoesOn(t) ==
    \/ tab[t].form = "blank" /\ customer_login(t)
    \/ customer_login_submit(t) \/ customer_login_verify_submit(t)
    \/ customer_login_mfa_submit(t)

\* Of the attempts made again and again some are answered, some succeed, and
\* some of the answers that say so arrive.
UserFairness(t) ==
    /\ WF_vars(GoesOn(t))
    /\ SF_vars(Deliver(t))
    /\ SF_vars(Finishes(t))
    /\ SF_vars(tab[t].reply = Finished /\ Deliver(t))

FairSpec == Spec /\ UserFairness(User)

----------------------------------------------------------------------------
\* login.rs:162-163: a refusal re-renders the page "so the user still gets a
\* usable form".  A form a tab shows is out of date only because of another tab or
\* because the cookie lapsed, never because of a response to the tab itself.
UsableForm ==
    \A t \in Tabs :
        tab[t].form \in LoginForms /\ tab[t].bound # jar.nonce => lastSet.nonce # t

\* login.rs:725: "Keep the pending cookie so the user can retry".  A step-up form
\* is left without its pending cookie only by another tab or a lapse, never by the
\* answers its own tab was given.
StepUpRetryable ==
    \A t \in Tabs :
        tab[t].form = "stepup" /\ jar.pending = "absent" => lastSet.pending # t

\* Whatever the other tabs do to the shared cookies, a user who keeps using the
\* form in front of them gets to the application (README.md:20, the forms as they
\* work without scripts; login.rs:180-191).
GetsIn == []<>(tab[User].form = "app")
=============================================================================
