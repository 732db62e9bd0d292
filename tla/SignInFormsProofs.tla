--------------------------- MODULE SignInFormsProofs ---------------------------
(***************************************************************************)
(* Theorems about SignInForms, for any number of tabs and nonces.          *)
(***************************************************************************)
EXTENDS SignInForms, TLAPS

\* What a response is like that a handler makes for the tab's form: a page with a
\* login form carries its own nonce cookie; a step-up page comes with the pending
\* cookie or answers a step-up form and leaves it; only a sign-out takes the pending
\* cookie under an error status.
Fits(r, form) ==
    /\ r.form \in LoginForms <=> r.bound \in Nonces
    /\ r.form \in LoginForms => r.nonce = r.bound
    /\ r.form = "stepup" => r.pending = "present" \/ (r.pending = "keep" /\ form = "stepup")
    /\ r.status = "error" /\ r.pending = "absent" => form = "app"

RepliesFit == \A t \in Tabs : ~Idle(t) => Fits(tab[t].reply, tab[t].form)

\* The inductive invariant; the forms stay usable only where they are shown.
IInv ==
    /\ TypeOK
    /\ RepliesFit
    /\ StepUpRetryable
    /\ ~Scripted => UsableForm

----------------------------------------------------------------------------
\* The responses of the sign-in handlers to a login form have their type, and fit it.
LEMMA ResponsesFit ==
    ASSUME NEW n \in Nonces, NEW form \in LoginForms
    PROVE  /\ \A page \in {"login", "code"} :
                 \A r \in {LoginFlowPage(page, n), Failed(LoginFlowPage(page, n))} :
                    r \in Responses /\ Fits(r, form)
           /\ \A r \in FirstFactorAccepted(n) : r \in Responses /\ Fits(r, form)
           /\ Rejection \in Responses /\ Fits(Rejection, form)
<1>. USE DEF LoginFlowPage, Failed, StepUp, Finished, Rejection
<1>1. ASSUME NEW page \in {"login", "code"}
      PROVE  /\ LoginFlowPage(page, n) \in Responses /\ Fits(LoginFlowPage(page, n), form)
             /\ Failed(LoginFlowPage(page, n)) \in Responses
             /\ Fits(Failed(LoginFlowPage(page, n)), form)
  <2>1. LoginFlowPage(page, n) \in Responses /\ Failed(LoginFlowPage(page, n)) \in Responses
    BY DEF Responses, Pages, LoginForms, Presence
  <2>2. Fits(LoginFlowPage(page, n), form) /\ Fits(Failed(LoginFlowPage(page, n)), form)
    BY DEF Fits, LoginForms
  <2>. QED  BY <2>1, <2>2
<1>2. ASSUME NEW r \in FirstFactorAccepted(n) PROVE r \in Responses /\ Fits(r, form)
  <2>1. r \in {StepUp(n), Finished, Rejection}
    BY <1>2 DEF FirstFactorAccepted
  <2>2. r \in Responses
    BY <2>1 DEF Responses, Pages, LoginForms, Presence
  <2>3. Fits(r, form)
    BY <2>1, SignInFormsAssumption DEF Fits, LoginForms
  <2>. QED  BY <2>2, <2>3
<1>3. Rejection \in Responses /\ Fits(Rejection, form)
  <2>1. Rejection \in Responses
    BY DEF Responses, Pages, Presence
  <2>2. Fits(Rejection, form)
    BY SignInFormsAssumption DEF Fits, LoginForms
  <2>. QED  BY <2>1, <2>2
<1>. QED  BY <1>1, <1>2, <1>3

----------------------------------------------------------------------------
\* A tab that gets an answer that fits it keeps the invariant.
LEMMA AnsweredKeeps ==
    ASSUME IInv, NEW t \in Tabs, NEW answers, Answered(t, answers),
           \A r \in answers : r \in Responses /\ Fits(r, tab[t].form)
    PROVE  IInv'
<1>1. PICK r \in answers : tab' = [tab EXCEPT ![t].reply = r]
  BY DEF Answered
<1>2. r \in Responses /\ Fits(r, tab[t].form) /\ UNCHANGED <<jar, lastSet>>
  BY DEF Answered
<1>3. /\ tab'[t] = [tab[t] EXCEPT !.reply = r]
      /\ \A u \in Tabs \ {t} : tab'[u] = tab[u]
      /\ \A u \in Tabs : tab'[u].form = tab[u].form /\ tab'[u].bound = tab[u].bound
  BY <1>1 DEF IInv, TypeOK
<1>4. TypeOK'
  BY <1>1, <1>2, <1>3 DEF IInv, TypeOK
<1>5. RepliesFit'
  BY <1>2, <1>3 DEF IInv, TypeOK, RepliesFit, Idle, Fits
<1>6. StepUpRetryable' /\ (~Scripted => UsableForm')
  BY <1>2, <1>3 DEF IInv, StepUpRetryable, UsableForm
<1>. QED  BY <1>4, <1>5, <1>6 DEF IInv

\* No handler breaks the invariant.
LEMMA HandlerKeeps ==
    ASSUME IInv, NEW t \in Tabs, Handler(t)
    PROVE  IInv'
<1>. USE DEF Fresh
<1>1. CASE customer_login(t)
  <2>1. PICK n \in Fresh : Answered(t, {LoginFlowPage("login", n)})
    BY <1>1 DEF customer_login
  <2>2. LoginFlowPage("login", n) \in Responses /\ Fits(LoginFlowPage("login", n), tab[t].form)
    BY DEF LoginFlowPage, Responses, Fits, Pages, LoginForms, Presence
  <2>. QED  BY <2>1, <2>2, AnsweredKeeps
<1>2. CASE customer_login_submit(t)
  <2>1. PICK n \in Fresh :
           Answered(t, Guarded(t, FirstFactorAccepted(n) \cup
                                  {Failed(LoginFlowPage("login", n)), Rejection}))
    BY <1>2 DEF customer_login_submit
  <2>2. tab[t].form \in LoginForms
    BY <1>2 DEF customer_login_submit, LoginForms
  <2>. QED  BY <2>1, <2>2, ResponsesFit, AnsweredKeeps DEF Guarded
<1>3. CASE customer_login_otp_submit(t)
  <2>1. PICK n \in Fresh :
           Answered(t, Guarded(t, {Failed(LoginFlowPage("code", n)),
                                   Failed(LoginFlowPage("login", n)),
                                   LoginFlowPage("code", n), Rejection}))
    BY <1>3 DEF customer_login_otp_submit
  <2>2. tab[t].form \in LoginForms
    BY <1>3 DEF customer_login_otp_submit, LoginForms
  <2>. QED  BY <2>1, <2>2, ResponsesFit, AnsweredKeeps DEF Guarded
<1>4. CASE customer_login_verify_submit(t)
  <2>1. PICK n \in Fresh :
           Answered(t, Guarded(t, FirstFactorAccepted(n) \cup
                                  {Failed(LoginFlowPage("code", n)), Rejection}))
    BY <1>4 DEF customer_login_verify_submit
  <2>2. tab[t].form \in LoginForms
    BY <1>4 DEF customer_login_verify_submit, LoginForms
  <2>. QED  BY <2>1, <2>2, ResponsesFit, AnsweredKeeps DEF Guarded
<1>5. CASE customer_login_mfa_submit(t)
  <2>1. PICK n \in Fresh :
           Answered(t, Guarded(t, IF jar.pending = "absent"
                                  THEN {LoginFlowPage("login", n)}
                                  ELSE {StepUpRetry(n), Finished, Rejection}))
    BY <1>5 DEF customer_login_mfa_submit
  <2>2. tab[t].form = "stepup" /\ tab[t].form \in LoginForms
    BY <1>5 DEF customer_login_mfa_submit, LoginForms
  <2>3. StepUpRetry(n) \in Responses /\ Finished \in Responses
    BY DEF StepUpRetry, Finished, Failed, LoginFlowPage, Responses, Pages, LoginForms, Presence
  <2>4. Fits(StepUpRetry(n), tab[t].form) /\ Fits(Finished, tab[t].form)
    BY <2>2, SignInFormsAssumption
       DEF StepUpRetry, Finished, Failed, LoginFlowPage, Fits, LoginForms
  <2>. QED  BY <2>1, <2>2, <2>3, <2>4, ResponsesFit, AnsweredKeeps DEF Guarded
<1>6. CASE customer_logout(t)
  <2>1. PICK n \in Fresh :
           Answered(t, {Rejection} \cup IF jar.session = "absent" THEN {}
                                        ELSE {SignedOut(n), SignedOutUnseen})
    BY <1>6 DEF customer_logout
  <2>2. Rejection \in Responses /\ SignedOut(n) \in Responses /\ SignedOutUnseen \in Responses
    BY DEF SignedOut, SignedOutUnseen, Rejection, LoginFlowPage, Responses, Pages, LoginForms,
           Presence
  <2>3. Fits(Rejection, "app") /\ Fits(SignedOut(n), "app") /\ Fits(SignedOutUnseen, "app")
    BY SignInFormsAssumption
       DEF SignedOut, SignedOutUnseen, Rejection, LoginFlowPage, Fits, LoginForms
  <2>. QED  BY <1>6, <2>1, <2>2, <2>3, AnsweredKeeps DEF customer_logout
<1>. QED  BY <1>1, <1>2, <1>3, <1>4, <1>5, <1>6 DEF Handler

----------------------------------------------------------------------------
\* Whatever page the response leaves, the types stay and no reply is left over.
LEMMA ArrivalKeepsTypes ==
    ASSUME IInv, NEW t \in Tabs, ~Idle(t), NEW who \in Tabs \cup {NoTab},
           NEW form \in Pages, NEW n \in Nonces \cup {"absent"},
           form \in LoginForms <=> n \in Nonces,
           Arrives(t, who, form, n)
    PROVE  /\ TypeOK' /\ RepliesFit'
           /\ tab'[t] = [form |-> form, bound |-> n, reply |-> Nothing]
           /\ \A u \in Tabs \ {t} : tab'[u] = tab[u]
           /\ tab[t].reply \in Responses /\ Fits(tab[t].reply, tab[t].form)
<1>1. tab[t].reply \in Responses /\ Fits(tab[t].reply, tab[t].form)
  BY DEF IInv, TypeOK, RepliesFit, Idle
<1>2. /\ tab'[t] = [form |-> form, bound |-> n, reply |-> Nothing]
      /\ \A u \in Tabs \ {t} : tab'[u] = tab[u]
  BY DEF Arrives, IInv, TypeOK
<1>3. /\ jar' \in [nonce : Nonces \cup {"absent"}, pending : Presence, session : Presence]
      /\ lastSet' \in [nonce : Tabs \cup {NoTab}, pending : Tabs \cup {NoTab}]
  BY <1>1 DEF Arrives, IInv, TypeOK, Responses, Cookie, Whose, Presence
<1>4. tab' \in [Tabs -> [form : Pages, bound : Nonces \cup {"absent"},
                         reply : Responses \cup {Nothing}]]
  BY DEF Arrives, IInv, TypeOK
<1>5. \A u \in Tabs : tab'[u].form \in LoginForms <=> tab'[u].bound \in Nonces
  BY <1>2 DEF IInv, TypeOK
<1>6. RepliesFit'
  BY <1>2 DEF IInv, RepliesFit, Idle, Fits
<1>. QED  BY <1>1, <1>2, <1>3, <1>4, <1>5, <1>6 DEF TypeOK

\* A response that reaches its tab keeps the invariant.
LEMMA DeliverKeeps ==
    ASSUME IInv, NEW t \in Tabs, Deliver(t)
    PROVE  IInv'
<1>. DEFINE r == tab[t].reply
            form == IF Stays(t) THEN tab[t].form ELSE r.form
            n == IF Stays(t) THEN tab[t].bound ELSE r.bound
<1>1. ~Idle(t) /\ Arrives(t, t, form, n)
  BY DEF Deliver
<1>2. r \in Responses /\ Fits(r, tab[t].form)
  BY <1>1 DEF IInv, TypeOK, RepliesFit, Idle
<1>3. form \in Pages /\ n \in Nonces \cup {"absent"} /\ (form \in LoginForms <=> n \in Nonces)
  BY <1>2 DEF IInv, TypeOK, Responses, Fits
<1>4. /\ TypeOK' /\ RepliesFit'
      /\ tab'[t] = [form |-> form, bound |-> n, reply |-> Nothing]
      /\ \A u \in Tabs \ {t} : tab'[u] = tab[u]
  BY <1>1, <1>3, ArrivalKeepsTypes
<1>5. /\ jar'.nonce = Cookie(jar.nonce, r.nonce)
      /\ jar'.pending = Cookie(jar.pending, r.pending)
      /\ lastSet'.nonce = Whose(t, lastSet.nonce, r.nonce)
      /\ lastSet'.pending = Whose(t, lastSet.pending, r.pending)
  BY <1>1 DEF Arrives
<1>6. StepUpRetryable'
  <2>1. ASSUME NEW u \in Tabs \ {t}, tab'[u].form = "stepup", jar'.pending = "absent"
        PROVE  lastSet'.pending # u
    BY <1>4, <1>5, <2>1 DEF IInv, StepUpRetryable, Cookie, Whose
  <2>2. ASSUME form = "stepup", jar'.pending = "absent" PROVE lastSet'.pending # t
    <3>1. CASE Stays(t)
      BY <1>2, <1>5, <2>2, <3>1
         DEF IInv, StepUpRetryable, Cookie, Whose, Fits, Stays, Responses, Presence
    <3>2. CASE ~Stays(t)
      BY <1>2, <1>5, <2>2, <3>2 DEF IInv, StepUpRetryable, Cookie, Whose, Fits
    <3>. QED  BY <3>1, <3>2
  <2>. QED  BY <1>4, <2>1, <2>2 DEF StepUpRetryable
<1>7. ASSUME ~Scripted PROVE UsableForm'
  <2>1. ASSUME NEW u \in Tabs \ {t}, tab'[u].form \in LoginForms, tab'[u].bound # jar'.nonce
        PROVE  lastSet'.nonce # u
    BY <1>4, <1>5, <1>7, <2>1 DEF IInv, UsableForm, Cookie, Whose
  <2>2. form \in LoginForms => n = jar'.nonce
    BY <1>2, <1>5, <1>7, SignInFormsAssumption DEF Stays, Fits, Cookie
  <2>. QED  BY <1>4, <2>1, <2>2 DEF UsableForm
<1>. QED  BY <1>4, <1>6, <1>7 DEF IInv

\* So does one that is cut off after its headers.
LEMMA CutKeeps ==
    ASSUME IInv, NEW t \in Tabs, Cut(t)
    PROVE  IInv'
<1>1. PICK page \in CutLeaves(t) : Arrives(t, NoTab, page.form, page.bound)
  BY DEF Cut
<1>2. \/ page.form = "blank" /\ page.bound = "absent"
      \/ Scripted /\ page.form = tab[t].form /\ page.bound = tab[t].bound
  BY DEF CutLeaves
<1>3. /\ page.form \in Pages /\ page.bound \in Nonces \cup {"absent"}
      /\ page.form \in LoginForms <=> page.bound \in Nonces
  BY <1>2, SignInFormsAssumption DEF IInv, TypeOK, Pages, LoginForms
<1>4. /\ TypeOK' /\ RepliesFit'
      /\ tab'[t] = [form |-> page.form, bound |-> page.bound, reply |-> Nothing]
      /\ \A u \in Tabs \ {t} : tab'[u] = tab[u]
  BY <1>1, <1>3, ArrivalKeepsTypes DEF Cut
<1>5. /\ jar'.nonce = Cookie(jar.nonce, tab[t].reply.nonce)
      /\ jar'.pending = Cookie(jar.pending, tab[t].reply.pending)
      /\ lastSet'.nonce = Whose(NoTab, lastSet.nonce, tab[t].reply.nonce)
      /\ lastSet'.pending = Whose(NoTab, lastSet.pending, tab[t].reply.pending)
  BY <1>1 DEF Arrives
<1>6. StepUpRetryable'
  <2>1. ASSUME NEW u \in Tabs, tab'[u].form = "stepup", jar'.pending = "absent"
        PROVE  lastSet'.pending # u
    <3>1. tab[u].form = "stepup"
      BY <1>2, <1>4, <2>1
    <3>. QED  BY <1>5, <2>1, <3>1, SignInFormsAssumption
              DEF IInv, StepUpRetryable, Cookie, Whose
  <2>. QED  BY <2>1 DEF StepUpRetryable
<1>7. ASSUME ~Scripted PROVE UsableForm'
  <2>1. ASSUME NEW u \in Tabs, tab'[u].form \in LoginForms, tab'[u].bound # jar'.nonce
        PROVE  lastSet'.nonce # u
    <3>1. tab'[u] = tab[u]
      BY <1>2, <1>4, <1>7, <2>1 DEF LoginForms
    <3>. QED  BY <1>5, <1>7, <2>1, <3>1, SignInFormsAssumption
              DEF IInv, UsableForm, Cookie, Whose
  <2>. QED  BY <2>1 DEF UsableForm
<1>. QED  BY <1>4, <1>6, <1>7 DEF IInv

\* So do a lost response and a tab that is left.
LEMMA LoseKeeps ==
    ASSUME IInv, NEW t \in Tabs, Lose(t) \/ Leave(t)
    PROVE  IInv'
<1>1. UNCHANGED <<jar, lastSet>>
  BY DEF Lose, Leave
<1>2. /\ \A u \in Tabs \ {t} : tab'[u] = tab[u]
      /\ tab'[t].reply = Nothing
      /\ \/ tab'[t].form = tab[t].form /\ tab'[t].bound = tab[t].bound
         \/ tab'[t].form = "blank" /\ tab'[t].bound = "absent"
  BY DEF Lose, Leave, IInv, TypeOK
<1>3. TypeOK'
  <2>1. tab' \in [Tabs -> [form : Pages, bound : Nonces \cup {"absent"},
                           reply : Responses \cup {Nothing}]]
    BY DEF Lose, Leave, IInv, TypeOK, Pages
  <2>2. \A u \in Tabs : tab'[u].form \in LoginForms <=> tab'[u].bound \in Nonces
    BY <1>2, SignInFormsAssumption DEF IInv, TypeOK, LoginForms
  <2>. QED  BY <1>1, <2>1, <2>2 DEF IInv, TypeOK
<1>4. RepliesFit'
  BY <1>2 DEF IInv, RepliesFit, Idle, Fits
<1>5. StepUpRetryable'
  BY <1>1, <1>2 DEF IInv, StepUpRetryable
<1>6. ~Scripted => UsableForm'
  BY <1>1, <1>2 DEF IInv, UsableForm, LoginForms
<1>. QED  BY <1>3, <1>4, <1>5, <1>6 DEF IInv

\* And so do cookies that lapse.
LEMMA LapseKeeps ==
    ASSUME IInv, NonceLapses \/ PendingLapses \/ SessionLapses
    PROVE  IInv'
<1>1. UNCHANGED tab
  BY DEF NonceLapses, PendingLapses, SessionLapses
<1>2. TypeOK'
  BY <1>1 DEF NonceLapses, PendingLapses, SessionLapses, IInv, TypeOK, Presence
<1>3. RepliesFit'
  BY <1>1 DEF IInv, RepliesFit, Idle, Fits
<1>4. StepUpRetryable'
  BY <1>1, SignInFormsAssumption
     DEF NonceLapses, PendingLapses, SessionLapses, IInv, TypeOK, StepUpRetryable
<1>5. ~Scripted => UsableForm'
  BY <1>1, SignInFormsAssumption
     DEF NonceLapses, PendingLapses, SessionLapses, IInv, TypeOK, UsableForm
<1>. QED  BY <1>2, <1>3, <1>4, <1>5 DEF IInv

----------------------------------------------------------------------------
\* The inductive invariant of the sign-in pages: the page of a response agrees with
\* the cookies it carries, and with what the tab shows meanwhile.
THEOREM IInvInvariant == Spec => []IInv
<1>1. Init => IInv
  BY SignInFormsAssumption
     DEF Init, IInv, TypeOK, RepliesFit, Idle, StepUpRetryable, UsableForm, Pages,
         LoginForms, Presence
<1>2. IInv /\ [Next]_vars => IInv'
  <2>. SUFFICES ASSUME IInv, [Next]_vars PROVE IInv'
    OBVIOUS
  <2>1. ASSUME NEW t \in Tabs, Handler(t) PROVE IInv'
    BY <2>1, HandlerKeeps
  <2>2. ASSUME NEW t \in Tabs, Deliver(t) PROVE IInv'
    BY <2>2, DeliverKeeps
  <2>3. ASSUME NEW t \in Tabs, Cut(t) PROVE IInv'
    BY <2>3, CutKeeps
  <2>4. ASSUME NEW t \in Tabs, Lose(t) \/ Leave(t) PROVE IInv'
    BY <2>4, LoseKeeps
  <2>5. CASE NonceLapses \/ PendingLapses \/ SessionLapses
    BY <2>5, LapseKeeps
  <2>6. CASE UNCHANGED vars
    BY <2>6 DEF vars, IInv, TypeOK, RepliesFit, Idle, Fits, StepUpRetryable, UsableForm
  <2>. QED  BY <2>1, <2>2, <2>3, <2>4, <2>5, <2>6 DEF Next
<1>. QED  BY <1>1, <1>2, PTL DEF Spec

\* The variables keep their types, and a tab shows a login form exactly when it has
\* a nonce to send with it (login_flow_page).
THEOREM TypeCorrect == Spec => []TypeOK
<1>1. IInv => TypeOK
  BY DEF IInv
<1>. QED  BY <1>1, IInvInvariant, PTL

\* Without scripts, no response to a tab leaves it with a form that the next request
\* would be refused for (login_flow_page, throttled_response).
THEOREM FormsStayUsable ==
    ASSUME ~Scripted
    PROVE  Spec => []UsableForm
<1>1. IInv => UsableForm
  BY DEF IInv
<1>. QED  BY <1>1, IInvInvariant, PTL

\* With scripts or without, no response to a step-up form takes the pending cookie it
\* needs, in any number of tabs (begin_mfa_step_up, customer_login_mfa_submit).
THEOREM StepUpStaysRetryable == Spec => []StepUpRetryable
<1>1. IInv => StepUpRetryable
  BY DEF IInv
<1>. QED  BY <1>1, IInvInvariant, PTL
=============================================================================
