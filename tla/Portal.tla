------------------------------- MODULE Portal -------------------------------
(***************************************************************************)
(* A customer's browser and the portal: sessions come and go, pages are    *)
(* rendered for one of them, and the forms of a page may be submitted      *)
(* under another.  Every request passes the gates of the router (security, *)
(* then authentication), authenticates again in its handler, is held to    *)
(* the CSRF token of the form it comes from, selects an organization and   *)
(* then acts on the key authority with the same credential                 *)
(* (src/main.rs, src/security.rs; the checks themselves: RequestChecks).   *)
(*                                                                         *)
(* Signing in is Assurance's; here it is a new token in the cookie jar.    *)
(* A CSRF token is the HMAC of a credential, written as that credential.   *)
(***************************************************************************)
EXTENDS RequestChecks

CONSTANTS
    Users,
    Memberships,    \* for each user, the lists of organizations he may be given
    Requests        \* requests under way at once (bound)

VARIABLES
    owner,      \* whose each token is; Nobody's until a sign-in issues it
    live,       \* fiducia-auth: the tokens that have not expired
    orgs,       \* fiducia-auth: the organizations of each user, in order
    jar,        \* the session cookie of the browser
    tab,        \* the forms of the page in the browser: its own, and those of its list
    req         \* the requests under way

vars == <<owner, live, orgs, jar, tab, req>>

----------------------------------------------------------------------------
Nobody == "nobody"
NoSession == "no session"

ASSUME PortalAssumption ==
    /\ Nobody \notin Users /\ NoSession \notin Tokens
    /\ \A u \in Users : Memberships[u] \subseteq Seq(Orgs)

\* A form: the credential it was rendered for, and its hidden organization.
Form(credential, org) == [by |-> credential, org |-> org]

NoForm == Form(Missing, NoOrg)

NoPage == [page |-> NoForm, list |-> NoForm]

Forms == [by : Credentials, org : Orgs \cup {NoOrg}]

\* What a page may hold: its forms name an organization.
RenderedForms == {NoForm} \cup {f \in Forms : f.org # NoOrg}

Free == [pc |-> "free"]

\* csrf, form: the CSRF token and the form it was sent with; asked, org: the organization
\* asked for and the one selected; from: the page it was sent from; could: history,
\* the organizations its user belonged to since it was sent.
RequestType ==
    [pc : {"gate", "handler", "authority", "answer"},
     kind : {"page", "context", "list", "form", "write"},
     headers : Headers, csrf : Credentials \cup {Missing}, form : {NoForm} \cup Forms,
     asked : Orgs \cup {NoOrg}, org : Orgs \cup {NoOrg}, could : SUBSET Orgs, from : {NoForm} \cup Forms]

TypeOK ==
    /\ owner \in [Tokens -> Users \cup {Nobody}]
    /\ live \subseteq {t \in Tokens : owner[t] # Nobody}
    /\ orgs \in [Users -> UNION {Memberships[u] : u \in Users}]
    /\ \A u \in Users : orgs[u] \in Memberships[u]
    /\ jar \in {NoSession} \cup {t \in Tokens : owner[t] # Nobody}
    /\ tab \in [page : RenderedForms, list : RenderedForms]
    /\ req \in [Requests -> {Free} \cup RequestType]

Credential(r) == PresentedCredential(req[r].headers)

\* authenticate, as the callers see it: the credential is verified at this instant.
Authenticated(r) == Credential(r) \in Credentials /\ Credential(r).token \in live

User(r) == owner[Credential(r).token]

Route(kind) == IF kind \in {"context", "write"} THEN "api" ELSE "app"

Method(kind) == IF kind \in {"form", "write"} THEN "POST" ELSE "GET"

Refuse(r) == req' = [req EXCEPT ![r] = Free]

Moves(r, pc) == req' = [req EXCEPT ![r].pc = pc]

----------------------------------------------------------------------------
(* The user and his account.                                                 *)

SignIn(u, t) ==
    /\ owner[t] = Nobody
    /\ owner' = [owner EXCEPT ![t] = u]
    /\ live' = live \cup {t}
    /\ jar' = t
    /\ UNCHANGED <<orgs, tab, req>>

\* customer_logout: the cookie goes, the token lives on.
SignOut ==
    /\ jar # NoSession
    /\ jar' = NoSession
    /\ UNCHANGED <<owner, live, orgs, tab, req>>

Expire(t) ==
    /\ t \in live
    /\ live' = live \ {t}
    /\ UNCHANGED <<owner, orgs, jar, tab, req>>

\* An administrator changes who belongs where.
Reassign(u, list) ==
    /\ orgs[u] # list
    /\ orgs' = [orgs EXCEPT ![u] = list]
    /\ req' = [r \in Requests |->
                  IF req[r] # Free /\ Credential(r) \in Credentials /\ User(r) = u
                  THEN [req[r] EXCEPT !.could = @ \cup ToSet(list)] ELSE req[r]]
    /\ UNCHANGED <<owner, live, jar, tab>>

----------------------------------------------------------------------------
(* What the browser sends, and a program with a token of its own.            *)

Cookies == IF jar = NoSession THEN <<>> ELSE <<[name |-> "session", value |-> jar]>>

Sent(kind, auth, cookies, csrf, form, asked) ==
    LET headers == [auth |-> auth, cookies |-> cookies, host |-> <<Ours>>,
                    origin |-> IF Method(kind) = "POST" /\ auth = <<>> THEN <<Ours>> ELSE <<>>,
                    site |-> IF auth = <<>> THEN <<Ours>> ELSE <<>>]
        c == PresentedCredential(headers)
    IN [pc |-> "gate", kind |-> kind, headers |-> headers, csrf |-> csrf, form |-> form,
        asked |-> asked, org |-> NoOrg, from |-> tab.page,
        could |-> IF c \in Credentials THEN ToSet(orgs[owner[c.token]]) ELSE {}]

Ask(r, request) ==
    /\ req[r] = Free
    /\ req' = [req EXCEPT ![r] = request]
    /\ UNCHANGED <<owner, live, orgs, jar, tab>>

\* A page is asked for, with or without a choice of organization.
Navigate(r, asked) == Ask(r, Sent("page", <<>>, Cookies, Missing, NoForm, asked))

\* The page is closed, whatever it has under way.
Leave ==
    /\ tab.page # NoForm
    /\ tab' = NoPage
    /\ UNCHANGED <<owner, live, orgs, jar, req>>

\* A script of the page asks for the context, to work for one of the organizations.
AskContext(r, asked) == Ask(r, Sent("context", <<>>, Cookies, Missing, NoForm, asked))

\* The page loads its list, for the organization it was rendered for.
AskList(r) ==
    /\ tab.page # NoForm
    /\ Ask(r, Sent("list", <<>>, Cookies, Missing, NoForm, tab.page.org))

\* A form of the page or of its list is submitted, or a script writes with the CSRF
\* token it was given.
Submit(r, kind, form) ==
    /\ form \in {tab.page, tab.list} \ {NoForm}
    /\ Ask(r, Sent(kind, <<>>, Cookies, form.by, form, form.org))

\* A program writes under its own token; it may run where the cookie is sent as well.
Program(r, t, asked, cookies) ==
    /\ owner[t] # Nobody
    /\ cookies \in {<<>>, Cookies}
    /\ Ask(r, Sent("write", <<t>>, cookies, Missing, Form(FromAuthorization(t), asked), asked))

----------------------------------------------------------------------------
(* The server.                                                               *)

\* request_security_gate, then customer_mfa_assurance_gate.
Gate(r) ==
    /\ req[r] # Free /\ req[r].pc = "gate"
    /\ LET q == req[r]
       IN IF SecurityGate(Route(q.kind), Method(q.kind), q.headers)
             /\ (Protected(Route(q.kind), Method(q.kind), q.headers) => Authenticated(r))
          THEN Moves(r, "handler") ELSE Refuse(r)
    /\ UNCHANGED <<owner, live, orgs, jar, tab>>

\* A slip: any token the server has signed will do.
SignedByUs(credential, csrf) == csrf # Missing

\* verify_csrf_token: the HMAC of this very credential.
VerifyCsrf(credential, csrf) == csrf = credential

\* require_form_security; require_api_write_security, which asks a CSRF token of a
\* browser's session only.
WriteSecurity(r) ==
    LET q == req[r]
    IN IF q.kind = "form" \/ Credential(r).source = "cookie"
       THEN RequireSameOrigin(q.headers) /\ VerifyCsrf(Credential(r), q.csrf)
       ELSE RequireApiHost(q.headers)

\* customer_page_response; customer_context_json; api_keys_fragment; and the writes:
\* form_mutation_headers passes the organization of the form on as a header.
Chosen(r) ==
    LET q == req[r]
        mine == orgs[User(r)]
    IN CASE q.kind = "page"    -> PageOrg(mine, NoOrg, q.asked)
         [] q.kind = "context" -> IF q.asked \in ToSet(mine) THEN q.asked ELSE NoOrg
         [] q.kind = "write"   -> SelectedOrg(mine, q.asked, NoOrg)
         [] OTHER              -> SelectedOrg(mine, NoOrg, q.asked)

\* The handler authenticates again, checks where a write comes from and selects the
\* organization; a refusal ends the request.
Handle(r) ==
    /\ req[r] # Free /\ req[r].pc = "handler"
    /\ LET q == req[r]
           admitted == /\ Authenticated(r)
                       /\ orgs[User(r)] # <<>>
                       /\ q.kind \in {"form", "write"} => WriteSecurity(r)
                       /\ q.kind = "page" => RequireApiHost(q.headers)
       IN IF admitted /\ Chosen(r) # NoOrg
          THEN req' = [req EXCEPT ![r].org = Chosen(r),
                                  ![r].pc = IF q.kind \in {"page", "context"} THEN "answer"
                                            ELSE "authority"]
          ELSE Refuse(r)
    /\ UNCHANGED <<owner, live, orgs, jar, tab>>

\* auth_json: the authority is called with the credential of the request, for the
\* organization selected; it answers, or the request ends in an error.
Act(r) ==
    /\ req[r] # Free /\ req[r].pc = "authority"
    /\ Moves(r, "answer") \/ Refuse(r)
    /\ UNCHANGED <<owner, live, orgs, jar, tab>>

\* A handler is dropped, or its answer is lost.
Lose(r) ==
    /\ req[r] # Free
    /\ Refuse(r)
    /\ UNCHANGED <<owner, live, orgs, jar, tab>>

\* A slip: a page is rendered with the organization of its query.
RenderedAsAsked(r) == Form(Credential(r), req[r].asked)

\* customer_page, customer_context_json and api_keys_table_markup: the forms of an answer
\* carry the CSRF token of the credential it was made for, and its organization.
Rendered(r) == Form(Credential(r), req[r].org)

\* The answer arrives.  A list goes into the page that asked for it.
Deliver(r) ==
    /\ req[r] # Free /\ req[r].pc = "answer"
    /\ LET q == req[r]
           rendered == Rendered(r)
       IN tab' = CASE q.kind \in {"page", "context"} -> [page |-> rendered, list |-> NoForm]
                   [] q.kind \in {"list", "form"} /\ q.from = tab.page /\ tab.page # NoForm
                                                    -> [tab EXCEPT !.list = rendered]
                   [] OTHER                         -> tab
    /\ Refuse(r)
    /\ UNCHANGED <<owner, live, orgs, jar>>

----------------------------------------------------------------------------
Init ==
    /\ owner = [t \in Tokens |-> Nobody]
    /\ live = {}
    /\ orgs \in [Users -> UNION {Memberships[u] : u \in Users}]
    /\ \A u \in Users : orgs[u] \in Memberships[u]
    /\ jar = NoSession
    /\ tab = NoPage
    /\ req = [r \in Requests |-> Free]

Next ==
    \/ \E u \in Users, t \in Tokens : SignIn(u, t)
    \/ SignOut \/ Leave
    \/ \E t \in Tokens : Expire(t)
    \/ \E u \in Users : \E list \in Memberships[u] : Reassign(u, list)
    \/ \E r \in Requests :
          \/ \E asked \in Orgs \cup {NoOrg} : Navigate(r, asked)
          \/ \E asked \in Orgs : AskContext(r, asked)
          \/ AskList(r)
          \/ \E kind \in {"form", "write"}, form \in {tab.page, tab.list} : Submit(r, kind, form)
          \/ \E t \in Tokens, asked \in Orgs \cup {NoOrg}, cookies \in {<<>>, Cookies} :
                Program(r, t, asked, cookies)
          \/ Gate(r) \/ Handle(r) \/ Act(r) \/ Lose(r) \/ Deliver(r)

Spec == Init /\ [][Next]_vars

----------------------------------------------------------------------------
\* security.rs:50-83, main.rs:2087-2115 and 853-895: whoever signs in, signs out or loses
\* a membership while a page is open, a write reaches the authority only for the
\* account its form was rendered for, under the session it was rendered under, for
\* the organization the form names, and for one its user belonged to while it was
\* under way.
FormActsForItsAccount ==
    \A r \in Requests :
        req[r] # Free /\ req[r].pc = "authority" =>
            /\ req[r].org \in req[r].could
            /\ req[r].kind \in {"form", "write"} =>
                  /\ Credential(r) = req[r].form.by
                  /\ req[r].form.org \in {NoOrg, req[r].org}

\* request_security.rs:144-171, security.rs:85-108: the gate refuses nothing a page of the
\* portal or a program sends, and a request that names another host, another origin or,
\* in its first Sec-Fetch-Site, a foreign site reaches no handler, nor one without
\* the portal's origin that opens a socket or posts a browser's form.  Exactly which claims of a
\* foreign site are let through, against lines 170-171, is Overlooked.
GateTellsOursApart ==
    \A r \in Requests :
        req[r].pc = "gate" =>
            /\ SecurityGate(Route(req[r].kind), Method(req[r].kind), req[r].headers)
            /\ GateKeepsOthersOut

\* auth.rs:228-251: a credential is settled by one source alone.  An Authorization, as
\* soon as there is one, decides by itself, never by the cookies: one that is no token, or
\* one too many, makes the request's credential invalid.  Of cookies a second session
\* that says something does so, whatever it says; every other crumb changes nothing,
\* also a blank session cookie, though lines 229-230 call each duplicate invalid.
NeverDowngrades ==
    \A r \in Requests :
        req[r] # Free /\ Credential(r) \in Credentials =>
            LET h == req[r].headers
            IN /\ \A value \in AuthorizationValues, i \in 1..(Len(h.auth) + 1) :
                     PresentedCredential([h EXCEPT !.auth = InsertAt(@, i, value)])
                         = IF h.auth = <<>> /\ value \in Tokens
                           THEN FromAuthorization(value) ELSE Invalid
               /\ \A crumb \in Crumbs, i \in 1..(Len(h.cookies) + 1) :
                     PresentedCredential([h EXCEPT !.cookies = InsertAt(@, i, crumb)])
                         = IF h.auth = <<>> /\ IsSession(crumb) /\ crumb.value # Blank
                           THEN Invalid ELSE Credential(r)
=============================================================================
