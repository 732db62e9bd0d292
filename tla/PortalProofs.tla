---------------------------- MODULE PortalProofs ----------------------------
(***************************************************************************)
(* What the portal promises for any number of users, tokens, organizations *)
(* and requests under way.                                                 *)
(*                                                                         *)
(* A request carries its credential with it, so whose it is never changes; *)
(* what its user may choose from is among what he could choose since the   *)
(* request was sent; and once the handler has chosen, the choice fits the  *)
(* form (Facts).  Of the form it only matters that it came with the token  *)
(* of the session it was rendered for (FormFacts).                         *)
(***************************************************************************)
EXTENDS Portal, TLAPS

USE RequestChecksAssumption, PortalAssumption

----------------------------------------------------------------------------
\* Whose a request is, and between which organizations he may choose.
OwnerFacts(q, ow, og) ==
    LET c == PresentedCredential(q.headers)
    IN c \in Credentials =>
          /\ c.token \in Tokens /\ ow[c.token] \in Users
          /\ ToSet(og[ow[c.token]]) \subseteq q.could

\* A form comes with the token of the session it was rendered for, or its
\* program is what it was made by.
FormFacts(q) ==
    LET c == PresentedCredential(q.headers)
    IN q.kind \in {"form", "write"} =>
          /\ q.asked = q.form.org
          /\ c = q.form.by \/ (q.csrf = q.form.by /\ c.source # "authorization")

\* What the handler has settled.
ChoiceFacts(q) ==
    LET c == PresentedCredential(q.headers)
    IN q.pc \in {"authority", "answer"} =>
          /\ c \in Credentials
          /\ q.org # NoOrg /\ q.org \in q.could
          /\ q.kind \in {"form", "write"} => c = q.form.by /\ q.form.org \in {NoOrg, q.org}

Facts(q, ow, og) ==
    q = Free \/ (q \in RequestType /\ OwnerFacts(q, ow, og) /\ FormFacts(q) /\ ChoiceFacts(q))

Account ==
    /\ owner \in [Tokens -> Users \cup {Nobody}]
    /\ live \subseteq {t \in Tokens : owner[t] # Nobody}
    /\ orgs \in [Users -> UNION {Memberships[u] : u \in Users}]
    /\ \A u \in Users : orgs[u] \in Memberships[u]
    /\ jar \in {NoSession} \cup {t \in Tokens : owner[t] # Nobody}
    /\ tab \in [page : RenderedForms, list : RenderedForms]

IInv ==
    /\ Account
    /\ req \in [Requests -> {Free} \cup RequestType]
    /\ \A r \in Requests : Facts(req[r], owner, orgs)

----------------------------------------------------------------------------
(* Headers.                                                                  *)

LEMMA CredentialFacts ==
  /\ \A t \in Tokens : /\ FromAuthorization(t).source = "authorization" /\ FromAuthorization(t).token = t
                       /\ FromCookie(t).source = "cookie" /\ FromCookie(t).token = t
  /\ \A c \in Credentials : c.token \in Tokens /\ c \notin {Missing, Invalid}
  /\ Missing.source = "missing" /\ Invalid.source = "invalid"
  BY DEF Credentials, FromAuthorization, FromCookie, Missing, Invalid

\* A request with an Authorization of one token is that token's, cookies or not.
LEMMA ProgramCredential ==
  ASSUME NEW t \in Tokens, NEW h, h.auth = <<t>>
  PROVE  PresentedCredential(h) = FromAuthorization(t)
  BY DEF PresentedCredential, AuthorizationCredential

\* A request of the browser is the session's in its jar, or nobody's.
LEMMA BrowserCredential ==
  ASSUME NEW h, h.auth = <<>>, h.cookies = Cookies, jar \in {NoSession} \cup Tokens
  PROVE  PresentedCredential(h) = IF jar = NoSession THEN Missing ELSE FromCookie(jar)
  <1>1. CASE jar = NoSession
    BY <1>1 DEF PresentedCredential, Cookies
  <1>2. CASE jar # NoSession
    <2>1. h.cookies = <<[name |-> "session", value |-> jar]>>
      BY <1>2 DEF Cookies
    <2>2. DOMAIN h.cookies = {1} /\ h.cookies[1].name = "session" /\ h.cookies[1].value = jar
      BY <2>1
    <2>3. jar # Blank
      BY <1>2
    <2>4. {i \in DOMAIN h.cookies : IsSession(h.cookies[i]) /\ h.cookies[i].value # Blank} = {1}
      BY <2>2, <2>3 DEF IsSession
    <2>5. CookieCredential(h) = FromCookie(jar)
      BY <2>2, <2>4 DEF CookieCredential
    <2> QED
      BY <1>2, <2>2, <2>5 DEF PresentedCredential, IsSession
  <1> QED
    BY <1>1, <1>2

----------------------------------------------------------------------------
LEMMA AccountFacts ==
  ASSUME IInv
  PROVE  /\ jar \in {NoSession} \cup Tokens
         /\ jar # NoSession => owner[jar] \in Users
         /\ \A t \in Tokens : owner[t] # Nobody => owner[t] \in Users
         /\ \A u \in Users : orgs[u] \in Seq(Orgs) /\ ToSet(orgs[u]) \subseteq Orgs
  <1>1. \A u \in Users : orgs[u] \in Seq(Orgs)
    BY DEF IInv, Account
  <1>2. \A u \in Users : ToSet(orgs[u]) \subseteq Orgs
    BY <1>1 DEF ToSet
  <1> QED
    BY <1>1, <1>2 DEF IInv, Account

LEMMA RequestFacts ==
  ASSUME IInv, NEW r \in Requests, req[r] # Free
  PROVE  /\ req[r] \in RequestType
         /\ OwnerFacts(req[r], owner, orgs) /\ FormFacts(req[r]) /\ ChoiceFacts(req[r])
  BY DEF IInv, Facts

\* A step of one request that leaves the account alone.
LEMMA RequestMoves ==
  ASSUME IInv, NEW r \in Requests, NEW q, req' = [req EXCEPT ![r] = q],
         Facts(q, owner, orgs), Account', UNCHANGED <<owner, orgs>>
  PROVE  IInv'
  <1>1. q \in {Free} \cup RequestType
    BY DEF Facts
  <1>2. req' \in [Requests -> {Free} \cup RequestType]
    BY <1>1 DEF IInv
  <1>3. \A c \in Requests : req'[c] = IF c = r THEN q ELSE req[c]
    BY DEF IInv
  <1>4. \A c \in Requests : Facts(req'[c], owner, orgs)
    BY <1>3 DEF IInv
  <1>5. \A c \in Requests : Facts(req'[c], owner', orgs')
    BY <1>4
  <1> QED
    BY <1>2, <1>5 DEF IInv

LEMMA AccountStays ==
  ASSUME IInv, UNCHANGED <<owner, live, orgs, jar, tab>>
  PROVE  Account'
  BY DEF IInv, Account

\* What is sent: by the browser, with the token of the form; or by a program.
LEMMA SentFacts ==
  ASSUME IInv, NEW kind \in {"page", "context", "list", "form", "write"},
         NEW auth, NEW cookies \in {<<>>, Cookies},
         \/ auth = <<>> /\ cookies = Cookies
         \/ \E t \in Tokens : auth = <<t>> /\ owner[t] # Nobody,
         NEW csrf \in Credentials \cup {Missing}, NEW form \in {NoForm} \cup Forms,
         NEW asked \in Orgs \cup {NoOrg},
         kind \in {"form", "write"} =>
             /\ asked = form.org
             /\ \/ auth = <<>> /\ csrf = form.by
                \/ \E t \in Tokens : auth = <<t>> /\ form.by = FromAuthorization(t)
  PROVE  Facts(Sent(kind, auth, cookies, csrf, form, asked), owner, orgs)
  <1> DEFINE q == Sent(kind, auth, cookies, csrf, form, asked)
             h == q.headers
             c == PresentedCredential(h)
             mine == IF c \in Credentials THEN ToSet(orgs[owner[c.token]]) ELSE {}
  <1>1. /\ h.auth = auth /\ h.cookies = cookies /\ q.could = mine
        /\ q.pc = "gate" /\ q.kind = kind /\ q.csrf = csrf /\ q.form = form /\ q.asked = asked
    BY DEF Sent
  <1> HIDE DEF q
  <1>2. auth \in Seq(AuthorizationValues) /\ cookies \in Seq(Crumbs)
    <2>0. auth \in Seq(AuthorizationValues)
      <3>1. <<>> \in Seq(AuthorizationValues)
        OBVIOUS
      <3>2. \A t \in Tokens : <<t>> \in Seq(AuthorizationValues)
        BY DEF AuthorizationValues
      <3> QED
        BY <3>1, <3>2
    <2>1. <<>> \in Seq(Crumbs)
      OBVIOUS
    <2>2. Cookies \in Seq(Crumbs)
      <3>1. CASE jar = NoSession
        BY <2>1, <3>1 DEF Cookies
      <3>2. CASE jar \in Tokens
        <4>1. [name |-> "session", value |-> jar] \in Crumbs
          BY <3>2 DEF Crumbs
        <4>2. <<[name |-> "session", value |-> jar]>> \in Seq(Crumbs)
          BY <4>1
        <4> QED
          BY <3>2, <4>2 DEF Cookies
      <3> QED
        BY <3>1, <3>2, AccountFacts
    <2> QED
      BY <2>0, <2>1, <2>2
  <1>3. h \in Headers
    <2> DEFINE origin == IF Method(kind) = "POST" /\ auth = <<>> THEN <<Ours>> ELSE <<>>
               site == IF auth = <<>> THEN <<Ours>> ELSE <<>>
    <2>1. h = [auth |-> auth, cookies |-> cookies, host |-> <<Ours>>, origin |-> origin, site |-> site]
      BY DEF q, Sent
    <2>2. <<Ours>> \in Seq(HostValues) /\ origin \in Seq(OriginValues) /\ site \in Seq(SiteValues)
      <3>1. Ours \in HostValues /\ Ours \in OriginValues /\ Ours \in SiteValues
        BY DEF HostValues, OriginValues, SiteValues
      <3> QED
        BY <3>1
    <2> HIDE DEF origin, site, h
    <2> QED
      BY <1>2, <2>1, <2>2 DEF Headers
  <1>4. \/ /\ c = Missing \/ (jar \in Tokens /\ owner[jar] \in Users /\ c = FromCookie(jar))
           /\ auth = <<>>
        \/ \E t \in Tokens : auth = <<t>> /\ owner[t] \in Users /\ c = FromAuthorization(t)
    <2>1. CASE auth = <<>> /\ cookies = Cookies
      <3>1. c = IF jar = NoSession THEN Missing ELSE FromCookie(jar)
        BY <1>1, <2>1, AccountFacts, BrowserCredential
      <3> QED
        BY <2>1, <3>1, AccountFacts
    <2>2. CASE \E t \in Tokens : auth = <<t>> /\ owner[t] # Nobody
      BY <1>1, <2>2, AccountFacts, ProgramCredential
    <2> QED
      BY <2>1, <2>2
  <1>5. c \in Credentials => c.token \in Tokens /\ owner[c.token] \in Users
    BY <1>4, CredentialFacts
  <1>6. mine \subseteq Orgs
    BY <1>5, AccountFacts
  <1>7. q \in RequestType
    <2>1. tab.page \in {NoForm} \cup Forms
      BY DEF IInv, Account, RenderedForms
    <2>2. q = [pc |-> "gate", kind |-> kind, headers |-> h, csrf |-> csrf, form |-> form,
               asked |-> asked, org |-> NoOrg, from |-> tab.page, could |-> mine]
      BY DEF q, Sent
    <2> HIDE DEF h, mine
    <2> QED
      BY <1>3, <1>6, <2>1, <2>2 DEF RequestType
  <1>8. OwnerFacts(q, owner, orgs)
    BY <1>1, <1>5 DEF OwnerFacts
  <1>9. FormFacts(q)
    <2>1. auth = <<>> => c.source # "authorization"
      BY <1>4, CredentialFacts
    <2>2. \A t \in Tokens : auth = <<t>> => c = FromAuthorization(t)
      BY <1>1, ProgramCredential
    <2> QED
      BY <1>1, <2>1, <2>2 DEF FormFacts
  <1>10. ChoiceFacts(q)
    BY <1>1 DEF ChoiceFacts
  <1>11. Facts(q, owner, orgs)
    BY <1>7, <1>8, <1>9, <1>10 DEF Facts
  <1> QED
    BY <1>11 DEF q

\* A request moved on to pc, having chosen org.
LEMMA MovedFacts ==
  ASSUME IInv, NEW r \in Requests, req[r] # Free,
         NEW pc \in {"gate", "handler", "authority", "answer"}, NEW org \in Orgs \cup {NoOrg},
         NEW q, q = [req[r] EXCEPT !.org = org, !.pc = pc],
         ChoiceFacts(q)
  PROVE  Facts(q, owner, orgs)
  <1>1. /\ req[r] \in RequestType
        /\ OwnerFacts(req[r], owner, orgs) /\ FormFacts(req[r])
    BY RequestFacts
  <1>2. q \in RequestType
    BY <1>1 DEF RequestType
  <1>3. /\ q.headers = req[r].headers /\ q.could = req[r].could /\ q.kind = req[r].kind
        /\ q.asked = req[r].asked /\ q.form = req[r].form /\ q.csrf = req[r].csrf
    BY <1>1 DEF RequestType
  <1>4. OwnerFacts(q, owner, orgs)
    BY <1>1, <1>3 DEF OwnerFacts
  <1>5. FormFacts(q)
    BY <1>1, <1>3 DEF FormFacts
  <1> QED
    BY <1>2, <1>4, <1>5 DEF Facts

LEMMA RefusedMoves ==
  ASSUME IInv, NEW r \in Requests, Refuse(r), Account', UNCHANGED <<owner, orgs>>
  PROVE  IInv'
  BY RequestMoves DEF Refuse, Facts

\* What the handler selects is one of the caller's, and the one asked for if any.
LEMMA SelectedOrgFacts ==
  ASSUME NEW mine \in Seq(Orgs), NEW header \in Orgs \cup {NoOrg}, NEW explicit \in Orgs \cup {NoOrg},
         SelectedOrg(mine, header, explicit) # NoOrg
  PROVE  /\ SelectedOrg(mine, header, explicit) \in ToSet(mine)
         /\ explicit # NoOrg => SelectedOrg(mine, header, explicit) = explicit
         /\ explicit = NoOrg /\ header # NoOrg => SelectedOrg(mine, header, explicit) = header
  BY DEF SelectedOrg, ToSet

LEMMA PageOrgFacts ==
  ASSUME NEW mine \in Seq(Orgs), NEW asked \in Orgs \cup {NoOrg}, mine # <<>>,
         PageOrg(mine, NoOrg, asked) # NoOrg
  PROVE  PageOrg(mine, NoOrg, asked) \in ToSet(mine)
  <1>1. CASE asked # NoOrg \/ Len(mine) <= 1
    <2>1. PageOrg(mine, NoOrg, asked) = SelectedOrg(mine, NoOrg, asked)
      BY <1>1 DEF PageOrg
    <2> QED
      BY <2>1, SelectedOrgFacts
  <1>2. CASE asked = NoOrg /\ Len(mine) > 1
    BY <1>2 DEF PageOrg, ToSet
  <1> QED
    BY <1>1, <1>2

LEMMA ChosenFacts ==
  ASSUME IInv, NEW r \in Requests, req[r] # Free, Credential(r) \in Credentials,
         orgs[User(r)] # <<>>, Chosen(r) # NoOrg
  PROVE  /\ Chosen(r) \in Orgs /\ Chosen(r) \in req[r].could
         /\ req[r].kind \in {"form", "write"} => req[r].form.org \in {NoOrg, Chosen(r)}
  <1> DEFINE mine == orgs[User(r)]
  <1>1. req[r] \in RequestType /\ OwnerFacts(req[r], owner, orgs) /\ FormFacts(req[r])
    BY RequestFacts
  <1>2. mine \in Seq(Orgs) /\ ToSet(mine) \subseteq Orgs /\ ToSet(mine) \subseteq req[r].could
    BY <1>1, AccountFacts DEF OwnerFacts, Credential, User
  <1>3. /\ req[r].kind \in {"page", "context", "list", "form", "write"}
        /\ req[r].asked \in Orgs \cup {NoOrg}
    BY <1>1 DEF RequestType
  <1> HIDE DEF mine
  <1>4. CASE req[r].kind = "page"
    <2>1. Chosen(r) = PageOrg(mine, NoOrg, req[r].asked)
      BY <1>4 DEF Chosen, mine
    <2> QED
      BY <1>2, <1>3, <1>4, <2>1, PageOrgFacts DEF mine
  <1>5. CASE req[r].kind = "context"
    BY <1>2, <1>5 DEF Chosen, mine
  <1>6. CASE req[r].kind = "write"
    <2>1. Chosen(r) = SelectedOrg(mine, req[r].asked, NoOrg)
      BY <1>6 DEF Chosen, mine
    <2> QED
      BY <1>1, <1>2, <1>3, <1>6, <2>1, SelectedOrgFacts DEF FormFacts
  <1>7. CASE req[r].kind \in {"list", "form"}
    <2>1. Chosen(r) = SelectedOrg(mine, NoOrg, req[r].asked)
      BY <1>7 DEF Chosen, mine
    <2> QED
      BY <1>1, <1>2, <1>3, <1>7, <2>1, SelectedOrgFacts DEF FormFacts
  <1> QED
    BY <1>3, <1>4, <1>5, <1>6, <1>7

----------------------------------------------------------------------------
LEMMA SignInStep ==
  ASSUME IInv, NEW u \in Users, NEW t \in Tokens, SignIn(u, t)
  PROVE  IInv'
  <1>1. owner \in [Tokens -> Users \cup {Nobody}] /\ owner[t] = Nobody
    BY DEF IInv, Account, SignIn
  <1>2. \A s \in Tokens : owner'[s] = IF s = t THEN u ELSE owner[s]
    BY <1>1 DEF SignIn
  <1>3. Account'
    BY <1>1, <1>2 DEF IInv, Account, SignIn
  <1>4. ASSUME NEW r \in Requests PROVE Facts(req'[r], owner', orgs')
    <2>1. UNCHANGED <<req, orgs>>
      BY DEF SignIn
    <2>2. CASE req[r] # Free
      <3>1. OwnerFacts(req[r], owner', orgs)
        BY <1>1, <1>2, <2>2, RequestFacts DEF OwnerFacts
      <3> QED
        BY <2>1, <2>2, <3>1, RequestFacts DEF Facts
    <2> QED
      BY <2>1, <2>2 DEF Facts
  <1> QED
    BY <1>3, <1>4 DEF IInv, SignIn

LEMMA BrowserSteps ==
  ASSUME IInv, SignOut \/ Leave \/ \E t \in Tokens : Expire(t)
  PROVE  IInv'
  <1>1. UNCHANGED <<owner, orgs, req>>
    BY DEF SignOut, Leave, Expire
  <1>2. NoPage \in [page : RenderedForms, list : RenderedForms]
    BY DEF NoPage, RenderedForms
  <1>3. Account'
    BY <1>2 DEF IInv, Account, SignOut, Leave, Expire
  <1> QED
    BY <1>1, <1>3 DEF IInv

LEMMA ReassignStep ==
  ASSUME IInv, NEW u \in Users, NEW list \in Memberships[u], Reassign(u, list)
  PROVE  IInv'
  <1>1. /\ orgs' = [orgs EXCEPT ![u] = list] /\ UNCHANGED <<owner, live, jar, tab>>
        /\ orgs \in [Users -> UNION {Memberships[w] : w \in Users}]
    BY DEF Reassign, IInv, Account
  <1>2. \A w \in Users : orgs'[w] = IF w = u THEN list ELSE orgs[w]
    BY <1>1
  <1>3. list \in Seq(Orgs) /\ ToSet(list) \subseteq Orgs
    <2>1. list \in Seq(Orgs)
      OBVIOUS
    <2> QED
      BY <2>1 DEF ToSet
  <1>4. Account'
    BY <1>1, <1>2 DEF IInv, Account
  <1>5. ASSUME NEW r \in Requests
        PROVE  req'[r] \in {Free} \cup RequestType /\ Facts(req'[r], owner', orgs')
    <2> DEFINE hit == req[r] # Free /\ Credential(r) \in Credentials /\ User(r) = u
    <2>1. req'[r] = IF hit THEN [req[r] EXCEPT !.could = @ \cup ToSet(list)] ELSE req[r]
      BY DEF Reassign
    <2>2. CASE hit
      <3> DEFINE x == req[r].could \cup ToSet(list)
                 q == [req[r] EXCEPT !.could = x]
      <3>1. /\ req[r] \in RequestType /\ OwnerFacts(req[r], owner, orgs)
            /\ FormFacts(req[r]) /\ ChoiceFacts(req[r])
        BY <2>2, RequestFacts
      <3>2. x \subseteq Orgs /\ ToSet(list) \subseteq x /\ req[r].could \subseteq x
        BY <1>3, <3>1 DEF RequestType
      <3>3. req'[r] = q
        BY <2>1, <2>2
      <3> HIDE DEF x
      <3>4. q \in RequestType
        BY <3>1, <3>2 DEF RequestType
      <3>5. /\ q.headers = req[r].headers /\ q.could = x /\ q.kind = req[r].kind /\ q.pc = req[r].pc
            /\ q.asked = req[r].asked /\ q.form = req[r].form /\ q.csrf = req[r].csrf
            /\ q.org = req[r].org
        BY <3>1 DEF RequestType
      <3> HIDE DEF q
      <3>6. OwnerFacts(q, owner', orgs')
        BY <1>1, <1>2, <2>2, <3>1, <3>2, <3>5 DEF OwnerFacts, Credential, User
      <3>7. FormFacts(q)
        BY <3>1, <3>5 DEF FormFacts
      <3>8. ChoiceFacts(q)
        BY <3>1, <3>2, <3>5 DEF ChoiceFacts
      <3> QED
        BY <3>3, <3>4, <3>6, <3>7, <3>8 DEF Facts
    <2>3. CASE ~hit /\ req[r] # Free
      <3>1. OwnerFacts(req[r], owner', orgs')
        BY <1>1, <1>2, <2>3, RequestFacts DEF OwnerFacts, Credential, User
      <3> QED
        BY <2>1, <2>3, <3>1, RequestFacts DEF Facts
    <2>4. CASE req[r] = Free
      BY <2>1, <2>4 DEF Facts
    <2> QED
      BY <2>2, <2>3, <2>4
  <1>6. req' \in [Requests -> {Free} \cup RequestType]
    BY <1>5 DEF Reassign
  <1> QED
    BY <1>4, <1>5, <1>6 DEF IInv

----------------------------------------------------------------------------
LEMMA AskMoves ==
  ASSUME IInv, NEW r \in Requests, NEW q, Facts(q, owner, orgs), Ask(r, q)
  PROVE  IInv'
  BY AccountStays, RequestMoves DEF Ask

LEMMA FormParts ==
  ASSUME IInv
  PROVE  /\ NoForm.by = Missing /\ NoForm.org = NoOrg
         /\ \A f \in Forms : f.by \in Credentials /\ f.org \in Orgs \cup {NoOrg}
         /\ tab.page \in {NoForm} \cup Forms /\ tab.list \in {NoForm} \cup Forms
  BY DEF NoForm, Form, Forms, IInv, Account, RenderedForms

\* What a request of the browser, or of a program, adds.
LEMMA AskSteps ==
  ASSUME IInv, NEW r \in Requests,
         \/ \E asked \in Orgs \cup {NoOrg} : Navigate(r, asked)
         \/ \E asked \in Orgs : AskContext(r, asked)
         \/ AskList(r)
         \/ \E kind \in {"form", "write"}, form \in {tab.page, tab.list} : Submit(r, kind, form)
         \/ \E t \in Tokens, asked \in Orgs \cup {NoOrg}, cookies \in {<<>>, Cookies} :
               Program(r, t, asked, cookies)
  PROVE  IInv'
  <1>1. ASSUME NEW asked \in Orgs \cup {NoOrg}, NEW kind \in {"page", "context", "list"},
               Ask(r, Sent(kind, <<>>, Cookies, Missing, NoForm, asked))
        PROVE  IInv'
    <2>1. Facts(Sent(kind, <<>>, Cookies, Missing, NoForm, asked), owner, orgs)
      BY SentFacts
    <2> QED
      BY <1>1, <2>1, AskMoves
  <1>2. ASSUME AskList(r) PROVE IInv'
    <2>1. tab.page.org \in Orgs \cup {NoOrg}
      BY FormParts
    <2> QED
      BY <1>1, <1>2, <2>1 DEF AskList
  <1>3. ASSUME NEW kind \in {"form", "write"}, NEW form \in {tab.page, tab.list},
               Submit(r, kind, form)
        PROVE  IInv'
    <2>1. form \in Forms /\ form.by \in Credentials /\ form.org \in Orgs \cup {NoOrg}
      BY <1>3, FormParts DEF Submit
    <2>2. Facts(Sent(kind, <<>>, Cookies, form.by, form, form.org), owner, orgs)
      BY <2>1, SentFacts
    <2> QED
      BY <1>3, <2>2, AskMoves DEF Submit
  <1>4. ASSUME NEW t \in Tokens, NEW asked \in Orgs \cup {NoOrg}, NEW cookies \in {<<>>, Cookies},
               Program(r, t, asked, cookies)
        PROVE  IInv'
    <2> DEFINE form == Form(FromAuthorization(t), asked)
    <2>1. form \in Forms /\ form.by = FromAuthorization(t) /\ form.org = asked
      BY DEF Form, Forms, Credentials
    <2>2. owner[t] # Nobody /\ Ask(r, Sent("write", <<t>>, cookies, Missing, form, asked))
      BY <1>4 DEF Program
    <2> HIDE DEF form
    <2>3. Facts(Sent("write", <<t>>, cookies, Missing, form, asked), owner, orgs)
      BY <2>1, <2>2, SentFacts
    <2> QED
      BY <2>2, <2>3, AskMoves
  <1> QED
    BY <1>1, <1>2, <1>3, <1>4 DEF Navigate, AskContext

LEMMA GateStep ==
  ASSUME IInv, NEW r \in Requests, Gate(r)
  PROVE  IInv'
  <1>1. req[r] # Free /\ Account' /\ UNCHANGED <<owner, orgs>>
    BY AccountStays DEF Gate
  <1>2. CASE Moves(r, "handler")
    <2> DEFINE q == [req[r] EXCEPT !.org = req[r].org, !.pc = "handler"]
    <2>1. req[r] \in RequestType
      BY <1>1, RequestFacts
    <2>2. [req[r] EXCEPT !.pc = "handler"] = q /\ q.pc = "handler" /\ req[r].org \in Orgs \cup {NoOrg}
      BY <2>1 DEF RequestType
    <2>3. req' = [req EXCEPT ![r] = q]
      BY <1>2, <2>2 DEF Moves
    <2>4. ChoiceFacts(q)
      BY <2>2 DEF ChoiceFacts
    <2> HIDE DEF q
    <2>5. Facts(q, owner, orgs)
      BY <1>1, <2>2, <2>4, MovedFacts DEF q
    <2> QED
      BY <1>1, <2>3, <2>5, RequestMoves
  <1>3. CASE Refuse(r)
    BY <1>1, <1>3, RefusedMoves
  <1> QED
    BY <1>2, <1>3 DEF Gate

\* A write that passes comes from the session its form was rendered for.
LEMMA WriteSecurityFacts ==
  ASSUME IInv, NEW r \in Requests, req[r] # Free, req[r].kind \in {"form", "write"},
         Credential(r) \in Credentials, WriteSecurity(r)
  PROVE  Credential(r) = req[r].form.by
  <1>1. FormFacts(req[r])
    BY RequestFacts
  <1>2. Credential(r).source \in {"cookie", "authorization"}
    BY CredentialFacts DEF Credentials
  <1> QED
    BY <1>1, <1>2 DEF FormFacts, WriteSecurity, VerifyCsrf, Credential

LEMMA HandleStep ==
  ASSUME IInv, NEW r \in Requests, Handle(r)
  PROVE  IInv'
  <1>1. req[r] # Free /\ Account' /\ UNCHANGED <<owner, orgs>>
    BY AccountStays DEF Handle
  <1>2. CASE Refuse(r)
    BY <1>1, <1>2, RefusedMoves
  <1>3. CASE ~Refuse(r)
    <2> DEFINE pc == IF req[r].kind \in {"page", "context"} THEN "answer" ELSE "authority"
               q == [req[r] EXCEPT !.org = Chosen(r), !.pc = pc]
    <2>1. /\ Authenticated(r) /\ orgs[User(r)] # <<>> /\ Chosen(r) # NoOrg
          /\ req[r].kind \in {"form", "write"} => WriteSecurity(r)
          /\ req' = [req EXCEPT ![r].org = Chosen(r), ![r].pc = pc]
      BY <1>3 DEF Handle
    <2>2. Credential(r) \in Credentials
      BY <2>1 DEF Authenticated
    <2>3. /\ Chosen(r) \in Orgs /\ Chosen(r) \in req[r].could
          /\ req[r].kind \in {"form", "write"} =>
                 /\ req[r].form.org \in {NoOrg, Chosen(r)}
                 /\ Credential(r) = req[r].form.by
      BY <1>1, <2>1, <2>2, ChosenFacts, WriteSecurityFacts
    <2>4. req[r] \in RequestType /\ pc \in {"authority", "answer"}
      BY <1>1, RequestFacts
    <2>5. req' = [req EXCEPT ![r] = q]
      BY <2>1, <2>4 DEF IInv
    <2> HIDE DEF pc
    <2>6. /\ q.headers = req[r].headers /\ q.could = req[r].could /\ q.kind = req[r].kind
          /\ q.form = req[r].form /\ q.org = Chosen(r)
      BY <2>4 DEF RequestType
    <2> HIDE DEF q
    <2>7. ChoiceFacts(q)
      BY <2>1, <2>2, <2>3, <2>6 DEF ChoiceFacts, Credential
    <2>8. Facts(q, owner, orgs)
      BY <1>1, <2>3, <2>4, <2>7, MovedFacts DEF q
    <2> QED
      BY <1>1, <2>5, <2>8, RequestMoves
  <1> QED
    BY <1>2, <1>3

LEMMA ActStep ==
  ASSUME IInv, NEW r \in Requests, Act(r)
  PROVE  IInv'
  <1>1. req[r] # Free /\ req[r].pc = "authority" /\ Account' /\ UNCHANGED <<owner, orgs>>
    BY AccountStays DEF Act
  <1>2. CASE Moves(r, "answer")
    <2> DEFINE q == [req[r] EXCEPT !.org = req[r].org, !.pc = "answer"]
    <2>1. req[r] \in RequestType /\ ChoiceFacts(req[r])
      BY <1>1, RequestFacts
    <2>2. /\ [req[r] EXCEPT !.pc = "answer"] = q
          /\ q.headers = req[r].headers /\ q.could = req[r].could /\ q.kind = req[r].kind
          /\ q.form = req[r].form /\ q.org = req[r].org
          /\ req[r].org \in Orgs \cup {NoOrg}
      BY <2>1 DEF RequestType
    <2>3. req' = [req EXCEPT ![r] = q]
      BY <1>2, <2>2 DEF Moves
    <2> HIDE DEF q
    <2>4. ChoiceFacts(q)
      BY <1>1, <2>1, <2>2 DEF ChoiceFacts
    <2>5. Facts(q, owner, orgs)
      BY <1>1, <2>2, <2>4, MovedFacts DEF q
    <2> QED
      BY <1>1, <2>3, <2>5, RequestMoves
  <1>3. CASE Refuse(r)
    BY <1>1, <1>3, RefusedMoves
  <1> QED
    BY <1>2, <1>3 DEF Act

LEMMA LoseStep ==
  ASSUME IInv, NEW r \in Requests, Lose(r)
  PROVE  IInv'
  BY AccountStays, RefusedMoves DEF Lose

LEMMA DeliverStep ==
  ASSUME IInv, NEW r \in Requests, Deliver(r)
  PROVE  IInv'
  <1>1. /\ req[r] # Free /\ req[r].pc = "answer" /\ Refuse(r)
        /\ UNCHANGED <<owner, live, orgs, jar>>
    BY DEF Deliver
  <1>2. req[r] \in RequestType /\ ChoiceFacts(req[r])
    BY <1>1, RequestFacts
  <1>3. Rendered(r) \in RenderedForms
    BY <1>1, <1>2 DEF Rendered, Form, Forms, RenderedForms, ChoiceFacts, Credential, RequestType
  <1>4. NoForm \in RenderedForms
    BY DEF RenderedForms
  <1>5. tab' \in [page : RenderedForms, list : RenderedForms]
    <2>1. tab \in [page : RenderedForms, list : RenderedForms]
      BY DEF IInv, Account
    <2>2. \/ tab' = [page |-> Rendered(r), list |-> NoForm]
          \/ tab' = [tab EXCEPT !.list = Rendered(r)]
          \/ tab' = tab
      BY DEF Deliver
    <2> QED
      BY <1>3, <1>4, <2>1, <2>2
  <1>6. Account'
    BY <1>1, <1>5 DEF IInv, Account
  <1> QED
    BY <1>1, <1>6, RefusedMoves

----------------------------------------------------------------------------
\* Whatever the interleaving, what a request holds is right.
THEOREM Invariance == Spec => []IInv
  <1>1. Init => IInv
    <2> SUFFICES ASSUME Init PROVE IInv
      OBVIOUS
    <2>1. NoPage \in [page : RenderedForms, list : RenderedForms]
      BY DEF NoPage, RenderedForms
    <2>2. Account
      BY <2>1 DEF Init, Account
    <2> QED
      BY <2>2 DEF Init, IInv, Facts
  <1>2. IInv /\ [Next]_vars => IInv'
    <2> SUFFICES ASSUME IInv, [Next]_vars PROVE IInv'
      OBVIOUS
    <2>1. CASE UNCHANGED vars
      BY <2>1 DEF vars, IInv, Account
    <2>2. ASSUME NEW r \in Requests,
                 Gate(r) \/ Handle(r) \/ Act(r) \/ Lose(r) \/ Deliver(r)
          PROVE  IInv'
      BY <2>2, GateStep, HandleStep, ActStep, LoseStep, DeliverStep
    <2> QED
      BY <2>1, <2>2, SignInStep, BrowserSteps, ReassignStep, AskSteps DEF Next
  <1> QED
    BY <1>1, <1>2, PTL DEF Spec

\* Every variable keeps its type, and a page never has a form without an organization.
THEOREM Types == Spec => []TypeOK
  <1>1. IInv => TypeOK
    BY DEF IInv, Account, TypeOK
  <1> QED
    BY <1>1, Invariance, PTL

\* security.rs:50-83, main.rs:853-895 and 2087-2115: however many requests are under way,
\* each acts for the account and the organization of its form, or not at all.
THEOREM ActsForItsAccount == Spec => []FormActsForItsAccount
  <1>1. IInv => FormActsForItsAccount
    BY RequestFacts DEF FormActsForItsAccount, ChoiceFacts, Credential
  <1> QED
    BY <1>1, Invariance, PTL

----------------------------------------------------------------------------
(* One header value more never turns a request to another credential.        *)

LEMMA InsertFacts ==
  ASSUME NEW S, NEW s \in Seq(S), NEW i \in 1..(Len(s) + 1), NEW e \in S,
         NEW t, t = InsertAt(s, i, e)
  PROVE  /\ t \in Seq(S) /\ Len(t) = Len(s) + 1
         /\ t[i] = e
         /\ \A j \in 1..Len(s) : t[IF j < i THEN j ELSE j + 1] = s[j]
  <1> DEFINE a == SubSeq(s, 1, i - 1)
             b == SubSeq(s, i, Len(s))
             ae == a \o <<e>>
  <1>1. a \in Seq(S) /\ Len(a) = i - 1 /\ \A j \in 1..(i - 1) : a[j] = s[j]
    OBVIOUS
  <1>2. b \in Seq(S) /\ Len(b) = Len(s) + 1 - i /\ \A j \in 1..(Len(s) + 1 - i) : b[j] = s[i + j - 1]
    OBVIOUS
  <1>3. t = ae \o b
    BY DEF InsertAt
  <1> HIDE DEF a, b
  <1>4. ae \in Seq(S) /\ Len(ae) = i /\ ae[i] = e /\ \A j \in 1..(i - 1) : ae[j] = s[j]
    BY <1>1
  <1> HIDE DEF ae
  <1>5. t \in Seq(S) /\ Len(t) = Len(s) + 1
    <2>0. ae \in Seq(S) /\ b \in Seq(S)
      BY <1>2, <1>4
    <2>1. t \in Seq(S)
      BY <2>0, <1>3
    <2>2. Len(t) = Len(ae) + Len(b)
      BY <2>0, <1>3
    <2> QED
      BY <1>2, <1>4, <2>1, <2>2
  <1>6. /\ \A j \in 1..i : t[j] = ae[j]
        /\ \A j \in 1..(Len(s) + 1 - i) : t[i + j] = b[j]
    BY <1>2, <1>3, <1>4
  <1>7. ASSUME NEW j \in 1..Len(s) PROVE t[IF j < i THEN j ELSE j + 1] = s[j]
    <2>1. CASE j < i
      BY <1>4, <1>6, <2>1
    <2>2. CASE j >= i
      <3>1. t[i + (j + 1 - i)] = b[j + 1 - i] /\ b[j + 1 - i] = s[i + (j + 1 - i) - 1]
        BY <1>2, <1>6, <2>2
      <3> QED
        BY <2>2, <3>1
    <2> QED
      BY <2>1, <2>2
  <1> QED
    BY <1>4, <1>5, <1>6, <1>7

\* A first Authorization value decides alone; a second makes both useless.
LEMMA OneMoreAuthorization ==
  ASSUME NEW h \in Headers, PresentedCredential(h) \in Credentials,
         NEW value \in AuthorizationValues, NEW i \in 1..(Len(h.auth) + 1),
         NEW more, more.auth = InsertAt(h.auth, i, value), more.cookies = h.cookies
  PROVE  PresentedCredential(more)
             = IF h.auth = <<>> /\ value \in Tokens THEN FromAuthorization(value) ELSE Invalid
  <1>1. h.auth \in Seq(AuthorizationValues)
    BY DEF Headers
  <1>2. /\ more.auth \in Seq(AuthorizationValues) /\ Len(more.auth) = Len(h.auth) + 1
        /\ more.auth[i] = value
    <2> DEFINE t == more.auth
    <2>1. t = InsertAt(h.auth, i, value)
      OBVIOUS
    <2> HIDE DEF t
    <2>2. t \in Seq(AuthorizationValues) /\ Len(t) = Len(h.auth) + 1 /\ t[i] = value
      BY <1>1, <2>1, InsertFacts
    <2> QED
      BY <2>2 DEF t
  <1>3. PresentedCredential(more) = AuthorizationCredential(more)
    BY <1>2 DEF PresentedCredential
  <1>4. CASE h.auth = <<>>
    BY <1>2, <1>3, <1>4 DEF AuthorizationCredential
  <1>5. CASE h.auth # <<>>
    BY <1>1, <1>2, <1>3, <1>5 DEF AuthorizationCredential
  <1> QED
    BY <1>4, <1>5

\* The session crumbs that say something.
Saying(s) == {j \in DOMAIN s : IsSession(s[j]) /\ s[j].value # Blank}

\* Where the crumbs of c are once another is inserted at i.
LEMMA InsertedCrumbs ==
  ASSUME NEW c \in Seq(Crumbs), NEW crumb \in Crumbs, NEW i \in 1..(Len(c) + 1),
         NEW d, d = InsertAt(c, i, crumb), NEW k \in DOMAIN c, Saying(c) = {k}
  PROVE  \E m \in DOMAIN d : /\ d[m] = c[k] /\ m # i
                             /\ Saying(d) = IF IsSession(crumb) /\ crumb.value # Blank
                                            THEN {i, m} ELSE {m}
  <1> DEFINE at(j) == IF j < i THEN j ELSE j + 1
  <1>1. /\ d \in Seq(Crumbs) /\ Len(d) = Len(c) + 1 /\ d[i] = crumb
        /\ \A j \in 1..Len(c) : d[at(j)] = c[j]
    BY InsertFacts
  <1>2. k \in 1..Len(c) /\ at(k) \in 1..Len(d) /\ at(k) # i /\ i \in 1..Len(d)
    BY <1>1
  <1>3. ASSUME NEW j \in 1..Len(d), j # i PROVE j \in Saying(d) <=> j = at(k)
    <2>1. PICK n \in 1..Len(c) : at(n) = j
      <3>1. CASE j < i
        BY <1>1, <3>1
      <3>2. CASE j > i
        <4>1. j - 1 \in 1..Len(c) /\ at(j - 1) = j
          BY <1>1, <3>2
        <4> QED
          BY <4>1
      <3> QED
        BY <1>3, <3>1, <3>2
    <2>2. d[j] = c[n]
      BY <1>1, <2>1
    <2>3. j \in Saying(d) <=> n \in Saying(c)
      BY <1>1, <2>2 DEF Saying
    <2>4. n \in Saying(c) <=> at(n) = at(k)
      BY <1>2
    <2> QED
      BY <2>1, <2>3, <2>4
  <1>4. i \in Saying(d) <=> IsSession(crumb) /\ crumb.value # Blank
    BY <1>1, <1>2 DEF Saying
  <1>5. Saying(d) \subseteq 1..Len(d)
    BY <1>1 DEF Saying
  <1>6. d[at(k)] = c[k] /\ at(k) \in DOMAIN d
    BY <1>1, <1>2
  <1> HIDE DEF at
  <1>7. Saying(d) = IF IsSession(crumb) /\ crumb.value # Blank THEN {i, at(k)} ELSE {at(k)}
    BY <1>2, <1>3, <1>4, <1>5
  <1> QED
    BY <1>2, <1>6, <1>7

\* A second session that says something makes the first useless, and no other crumb
\* matters.
LEMMA OneMoreCookie ==
  ASSUME NEW h \in Headers, PresentedCredential(h) \in Credentials,
         NEW crumb \in Crumbs, NEW i \in 1..(Len(h.cookies) + 1),
         NEW more, more.cookies = InsertAt(h.cookies, i, crumb), more.auth = h.auth
  PROVE  PresentedCredential(more)
             = IF h.auth = <<>> /\ IsSession(crumb) /\ crumb.value # Blank
               THEN Invalid ELSE PresentedCredential(h)
  <1> DEFINE c == h.cookies
             d == more.cookies
  <1>1. c \in Seq(Crumbs)
    BY DEF Headers
  <1>2. CASE h.auth # <<>>
    BY <1>2 DEF PresentedCredential, AuthorizationCredential
  <1>3. CASE h.auth = <<>>
    <2>1. /\ PresentedCredential(h) = CookieCredential(h)
          /\ \E j \in DOMAIN c : IsSession(c[j])
      BY <1>3, CredentialFacts DEF PresentedCredential
    <2>2. PICK k \in DOMAIN c : Saying(c) = {k} /\ CookieCredential(h) = FromCookie(c[k].value)
      BY <2>1, CredentialFacts DEF CookieCredential, Saying
    <2>3. PICK m \in DOMAIN d : /\ d[m] = c[k] /\ m # i
                                /\ Saying(d) = IF IsSession(crumb) /\ crumb.value # Blank
                                               THEN {i, m} ELSE {m}
      <3> DEFINE e == d
      <3>1. e = InsertAt(c, i, crumb)
        OBVIOUS
      <3> HIDE DEF e
      <3>2. i \in 1..(Len(c) + 1)
        OBVIOUS
      <3> HIDE DEF c
      <3>3. \E m \in DOMAIN e : /\ e[m] = c[k] /\ m # i
                                /\ Saying(e) = IF IsSession(crumb) /\ crumb.value # Blank
                                               THEN {i, m} ELSE {m}
        BY <1>1, <2>2, <3>1, <3>2, InsertedCrumbs
      <3> QED
        BY <3>3 DEF e
    <2>4. IsSession(d[m]) /\ d[m].value = c[k].value
      BY <2>2, <2>3 DEF Saying
    <2>5. PresentedCredential(more) = CookieCredential(more)
      BY <1>3, <2>4 DEF PresentedCredential
    <2>6. CASE IsSession(crumb) /\ crumb.value # Blank
      <3>1. Saying(d) = {i, m} /\ i # m
        BY <2>3, <2>6
      <3>2. \A one : Saying(d) # {one}
        BY <3>1
      <3>3. CookieCredential(more) = Invalid
        BY <3>2 DEF CookieCredential, Saying
      <3> QED
        BY <1>3, <2>5, <2>6, <3>3
    <2>7. CASE ~(IsSession(crumb) /\ crumb.value # Blank)
      <3>1. Saying(d) = {m}
        BY <2>3, <2>7
      <3>2. CookieCredential(more) = FromCookie(d[m].value)
        BY <3>1 DEF CookieCredential, Saying
      <3> QED
        BY <2>1, <2>2, <2>4, <2>5, <2>7, <3>2
    <2> QED
      BY <2>6, <2>7
  <1> QED
    BY <1>2, <1>3

\* auth.rs:228-251: a first Authorization value decides by itself whatever the cookies
\* are; a second one, or a second session that says something, makes a credential
\* invalid; nothing else changes it.
THEOREM CredentialsNeverTraded == Spec => []NeverDowngrades
  <1>1. ASSUME IInv, NEW r \in Requests, req[r] # Free, Credential(r) \in Credentials
        PROVE  LET h == req[r].headers
               IN /\ \A value \in AuthorizationValues, i \in 1..(Len(h.auth) + 1) :
                        PresentedCredential([h EXCEPT !.auth = InsertAt(@, i, value)])
                            = IF h.auth = <<>> /\ value \in Tokens
                              THEN FromAuthorization(value) ELSE Invalid
                  /\ \A crumb \in Crumbs, i \in 1..(Len(h.cookies) + 1) :
                        PresentedCredential([h EXCEPT !.cookies = InsertAt(@, i, crumb)])
                            = IF h.auth = <<>> /\ IsSession(crumb) /\ crumb.value # Blank
                              THEN Invalid ELSE Credential(r)
    <2> DEFINE h == req[r].headers
    <2>1. h \in Headers /\ PresentedCredential(h) \in Credentials
      BY <1>1, RequestFacts DEF RequestType, Credential
    <2>2. \A x : /\ [h EXCEPT !.auth = x].auth = x /\ [h EXCEPT !.auth = x].cookies = h.cookies
                 /\ [h EXCEPT !.cookies = x].cookies = x /\ [h EXCEPT !.cookies = x].auth = h.auth
      BY <2>1 DEF Headers
    <2> HIDE DEF h
    <2>3. ASSUME NEW value \in AuthorizationValues, NEW i \in 1..(Len(h.auth) + 1)
          PROVE  PresentedCredential([h EXCEPT !.auth = InsertAt(@, i, value)])
                     = IF h.auth = <<>> /\ value \in Tokens
                       THEN FromAuthorization(value) ELSE Invalid
      <3> DEFINE more == [h EXCEPT !.auth = InsertAt(@, i, value)]
      <3>1. more.auth = InsertAt(h.auth, i, value) /\ more.cookies = h.cookies
        BY <2>2
      <3> HIDE DEF more
      <3>2. PresentedCredential(more)
                = IF h.auth = <<>> /\ value \in Tokens THEN FromAuthorization(value) ELSE Invalid
        BY <2>1, <3>1, OneMoreAuthorization
      <3> QED
        BY <3>2 DEF more
    <2>4. ASSUME NEW crumb \in Crumbs, NEW i \in 1..(Len(h.cookies) + 1)
          PROVE  PresentedCredential([h EXCEPT !.cookies = InsertAt(@, i, crumb)])
                     = IF h.auth = <<>> /\ IsSession(crumb) /\ crumb.value # Blank
                       THEN Invalid ELSE PresentedCredential(h)
      <3> DEFINE more == [h EXCEPT !.cookies = InsertAt(@, i, crumb)]
      <3>1. more.cookies = InsertAt(h.cookies, i, crumb) /\ more.auth = h.auth
        BY <2>2
      <3> HIDE DEF more
      <3>2. PresentedCredential(more)
                = IF h.auth = <<>> /\ IsSession(crumb) /\ crumb.value # Blank
                  THEN Invalid ELSE PresentedCredential(h)
        BY <2>1, <3>1, OneMoreCookie
      <3> QED
        BY <3>2 DEF more
    <2> QED
      BY <2>3, <2>4 DEF h, Credential
  <1>2. IInv => NeverDowngrades
    BY <1>1 DEF NeverDowngrades
  <1> QED
    BY <1>2, Invariance, PTL

\* auth.rs:272, against auth.rs:229-230 and src/README.md:50-52, which have every
\* duplicate of the session cookie rejected: a blank one beside a session, before or
\* after it, leaves the request the session's.
THEOREM BlankDuplicatePasses ==
  ASSUME NEW h \in Headers, NEW t \in Tokens, PresentedCredential(h) = FromCookie(t),
         NEW i \in 1..(Len(h.cookies) + 1)
  PROVE  LET blank == [name |-> "session", value |-> Blank]
         IN PresentedCredential([h EXCEPT !.cookies = InsertAt(@, i, blank)]) = FromCookie(t)
  <1> DEFINE blank == [name |-> "session", value |-> Blank]
             more == [h EXCEPT !.cookies = InsertAt(@, i, blank)]
  <1>1. more.cookies = InsertAt(h.cookies, i, blank) /\ more.auth = h.auth
    BY DEF Headers
  <1>2. blank \in Crumbs /\ blank.value = Blank
    BY DEF Crumbs
  <1>3. PresentedCredential(h) \in Credentials
    BY DEF Credentials
  <1> HIDE DEF blank, more
  <1>4. PresentedCredential(more) = PresentedCredential(h)
    BY <1>1, <1>2, <1>3, OneMoreCookie
  <1> QED
    BY <1>4 DEF blank, more

----------------------------------------------------------------------------
(* Where a request comes from.                                               *)

LEMMA UpToTwoSeq ==
  ASSUME NEW S, NEW s \in UpToTwo(S)
  PROVE  s \in Seq(S)
  <1>1. PICK m \in 0..2 : s \in [1..m -> S]
    BY DEF UpToTwo, BoundedSeq, SeqOf
  <1> QED
    BY <1>1

\* Every way in that asks for a host asks for ours, and passes over no foreign word but
\* those it overlooks.
LEMMA OursOnly ==
  ASSUME NEW h, h.site \in Seq(SiteValues), h.origin \in Seq(OriginValues)
  PROVE  /\ RequireApiHost(h) =>
                /\ h.host = <<Ours>> /\ h.origin \in {<<>>, <<Ours>>}
                /\ \A i \in DOMAIN h.site : h.site[i] = "foreign" => Overlooked(h, i)
         /\ RequireSameOrigin(h) => RequireApiHost(h) /\ h.origin # <<>>
  <1>1. RequireSameOrigin(h) => h.host = <<Ours>> /\ h.origin = <<Ours>> /\ h.origin # <<>>
    BY DEF RequireSameOrigin, RequireHost
  <1>2. RequireSameOrigin(h) => RequireApiHost(h)
    BY <1>1 DEF RequireApiHost, RequireSameOrigin
  <1>3. ~Harmless("foreign")
    BY DEF Harmless, Ours, Unreadable
  <1>4. ASSUME RequireSameOrigin(h), NEW i \in DOMAIN h.site, h.site[i] = "foreign"
        PROVE  Overlooked(h, i)
    <2>1. h.site # <<>> /\ Head(h.site) = h.site[1] /\ i \in Nat \ {0}
      BY <1>4
    <2>2. h.site[1] # "foreign"
      BY <1>3, <1>4, <2>1 DEF RequireSameOrigin
    <2>3. i # 1
      BY <1>4, <2>2
    <2> QED
      BY <1>1, <1>4, <2>1, <2>3 DEF Overlooked
  <1>5. RequireApiHost(h) /\ h.origin = <<>> =>
            h.host = <<Ours>> /\ \A i \in DOMAIN h.site : h.site[i] # "foreign"
    BY <1>3 DEF RequireApiHost, RequireHost
  <1>6. RequireApiHost(h) /\ h.origin # <<>> => RequireSameOrigin(h)
    BY DEF RequireApiHost
  <1> QED
    BY <1>1, <1>2, <1>4, <1>5, <1>6

\* request_security.rs:159-166, against lines 170-171, which say that no fetch metadata
\* may claim a foreign site: beside the portal's own origin only the first value
\* is heard, so any may follow it.
THEOREM LaterSitesUnheard ==
  ASSUME NEW h, RequireSameOrigin(h), NEW site, site # <<>>, Harmless(Head(site)),
         NEW more, more.host = h.host, more.origin = h.origin, more.site = site
  PROVE  RequireSameOrigin(more) /\ RequireApiHost(more)
  BY DEF RequireSameOrigin, RequireApiHost, RequireHost

\* Which check the gate makes of which request.
LEMMA GateCases ==
  ASSUME NEW route \in Routes \ {"public"}, NEW method \in Methods, NEW h
  PROVE  /\ route = "ws" \/ (route \in {"app", "login"} /\ method # "GET") =>
                (SecurityGate(route, method, h) <=> RequireSameOrigin(h))
         /\ (route \in {"app", "login"} /\ method = "GET") \/ route \in {"api", "sync"} =>
                (SecurityGate(route, method, h) <=> RequireApiHost(h))
         /\ route = "root" => SecurityGate(route, method, h)
  <1>1. CASE route = "ws"
    BY <1>1 DEF SecurityGate
  <1>2. CASE route \in {"app", "login"} /\ method # "GET"
    BY <1>2 DEF SecurityGate, BrowserSurface
  <1>3. CASE route \in {"app", "login"} /\ method = "GET"
    BY <1>3 DEF SecurityGate, BrowserSurface
  <1>4. CASE route \in {"api", "sync"}
    BY <1>4 DEF SecurityGate, BrowserSurface
  <1>5. CASE route = "root"
    BY <1>5 DEF SecurityGate, BrowserSurface
  <1> QED
    BY <1>1, <1>2, <1>3, <1>4, <1>5 DEF Routes

LEMMA OthersKeptOut == GateKeepsOthersOut
  <1> SUFFICES ASSUME NEW host \in UpToTwo(HostValues), NEW origin \in UpToTwo(OriginValues),
                      NEW site \in UpToTwo(SiteValues)
               PROVE  LET h == From(host, origin, site)
                      IN /\ \A route \in Routes \ {"public"}, method \in Methods :
                               LET reached == SecurityGate(route, method, h)
                                              /\ (route = "root" => RootIsPortal(h))
                                   exact == route = "ws" \/ (BrowserSurface(route) /\ method # "GET")
                               IN /\ reached => /\ host = <<Ours>>
                                                /\ origin \in {<<>>, <<Ours>>}
                                                /\ \A i \in DOMAIN site : site[i] = "foreign" => Overlooked(h, i)
                                                /\ exact => origin # <<>>
                                  /\ (IF exact THEN RequireSameOrigin(h) ELSE RequireApiHost(h))
                                         => SecurityGate(route, method, h)
                         /\ RequireSameOrigin(h) => RequireApiHost(h)
                         /\ RootIsPortal(h) => Protected("root", "GET", h)
    BY DEF GateKeepsOthersOut
  <1> DEFINE h == From(host, origin, site)
  <1>1. h.host = host /\ h.origin = origin /\ h.site = site
    BY DEF From
  <1>2. origin \in Seq(OriginValues) /\ site \in Seq(SiteValues)
    BY UpToTwoSeq
  <1> HIDE DEF h
  <1>3. /\ RequireApiHost(h) => /\ host = <<Ours>> /\ origin \in {<<>>, <<Ours>>}
                                /\ \A i \in DOMAIN site : site[i] = "foreign" => Overlooked(h, i)
        /\ RequireSameOrigin(h) => RequireApiHost(h) /\ origin # <<>>
    BY <1>1, <1>2, OursOnly
  <1>4. RootIsPortal(h) => RequireApiHost(h) /\ Protected("root", "GET", h)
    BY DEF RootIsPortal, Protected
  <1>5. ASSUME NEW route \in Routes \ {"public"}, NEW method \in Methods
        PROVE  LET reached == SecurityGate(route, method, h) /\ (route = "root" => RootIsPortal(h))
                   exact == route = "ws" \/ (BrowserSurface(route) /\ method # "GET")
               IN /\ reached => /\ host = <<Ours>>
                                /\ origin \in {<<>>, <<Ours>>}
                                /\ \A i \in DOMAIN site : site[i] = "foreign" => Overlooked(h, i)
                                /\ exact => origin # <<>>
                  /\ (IF exact THEN RequireSameOrigin(h) ELSE RequireApiHost(h))
                         => SecurityGate(route, method, h)
    <2>1. CASE route = "ws" \/ (route \in {"app", "login"} /\ method # "GET")
      BY <1>3, <2>1, GateCases DEF BrowserSurface
    <2>2. CASE (route \in {"app", "login"} /\ method = "GET") \/ route \in {"api", "sync"}
      BY <1>3, <2>2, GateCases DEF BrowserSurface
    <2>3. CASE route = "root"
      BY <1>3, <1>4, <2>3, GateCases DEF BrowserSurface
    <2> QED
      BY <2>1, <2>2, <2>3 DEF Routes
  <1> QED
    BY <1>3, <1>4, <1>5 DEF h

\* The gate's view of a request does not change while it is under way.
Passes(q) == SecurityGate(Route(q.kind), Method(q.kind), q.headers)

Welcome == \A r \in Requests : req[r] # Free => Passes(req[r])

LEMMA SentPasses ==
  ASSUME NEW kind \in {"page", "context", "list", "form", "write"}, NEW auth,
         auth = <<>> \/ kind = "write", NEW cookies, NEW csrf, NEW form, NEW asked
  PROVE  Passes(Sent(kind, auth, cookies, csrf, form, asked))
  <1> DEFINE q == Sent(kind, auth, cookies, csrf, form, asked)
             h == q.headers
  <1>1. /\ q.kind = kind /\ h.host = <<Ours>>
        /\ auth = <<>> => h.site = <<Ours>>
        /\ auth # <<>> => h.site = <<>> /\ h.origin = <<>>
        /\ auth = <<>> => h.origin = IF Method(kind) = "POST" THEN <<Ours>> ELSE <<>>
    BY DEF Sent
  <1>2. Harmless(Ours)
    BY DEF Harmless
  <1> HIDE DEF q
  <1>3. \A i \in DOMAIN h.site : Harmless(h.site[i])
    BY <1>1, <1>2
  <1>4. h.site # <<>> => Harmless(Head(h.site))
    BY <1>1, <1>2
  <1>5. h.origin = <<>> => RequireApiHost(h)
    BY <1>1, <1>3 DEF RequireApiHost, RequireHost
  <1>6. h.origin = <<Ours>> => RequireSameOrigin(h) /\ RequireApiHost(h)
    BY <1>1, <1>4 DEF RequireApiHost, RequireSameOrigin, RequireHost
  <1>7. h.origin \in {<<>>, <<Ours>>} /\ (kind = "form" => h.origin = <<Ours>>)
    BY <1>1 DEF Method
  <1>8. /\ Route(kind) \in {"app", "api"} /\ Method(kind) \in Methods
        /\ Route(kind) = "app" /\ Method(kind) # "GET" => kind = "form"
    BY DEF Route, Method, Methods
  <1>9. SecurityGate(Route(kind), Method(kind), h)
    <2>1. Route(kind) \in Routes \ {"public"}
      BY <1>8 DEF Routes
    <2>2. CASE Route(kind) = "app" /\ Method(kind) # "GET"
      BY <1>6, <1>7, <1>8, <2>1, <2>2, GateCases
    <2>3. CASE Route(kind) = "api" \/ Method(kind) = "GET"
      BY <1>5, <1>6, <1>7, <1>8, <2>1, <2>3, GateCases
    <2> QED
      BY <1>8, <2>2, <2>3
  <1>10. Passes(q)
    BY <1>1, <1>9 DEF Passes
  <1> QED
    BY <1>10 DEF q

LEMMA WelcomeMoves ==
  ASSUME IInv, Welcome, NEW r \in Requests, NEW q, req' = [req EXCEPT ![r] = q],
         q = Free \/ Passes(q)
  PROVE  Welcome'
  <1>1. \A c \in Requests : req'[c] = IF c = r THEN q ELSE req[c]
    BY DEF IInv
  <1>2. \A c \in Requests : req'[c] # Free => Passes(req'[c])
    BY <1>1 DEF Welcome
  <1> QED
    BY <1>2 DEF Welcome, Passes

\* A step that keeps the kind and the headers of every request.
LEMMA WelcomeStays ==
  ASSUME IInv, Welcome,
         \A r \in Requests : \/ req'[r] = Free
                             \/ /\ req[r] # Free
                                /\ req'[r].kind = req[r].kind /\ req'[r].headers = req[r].headers
  PROVE  Welcome'
  BY DEF Welcome, Passes

LEMMA NextWelcome == IInv /\ Welcome /\ [Next]_vars => Welcome'
  <1> SUFFICES ASSUME IInv, Welcome, [Next]_vars PROVE Welcome'
    OBVIOUS
  <1>1. CASE UNCHANGED req
    BY <1>1 DEF Welcome, Passes
  <1>2. ASSUME NEW u \in Users, NEW list \in Memberships[u], Reassign(u, list)
        PROVE  Welcome'
    <2>1. ASSUME NEW r \in Requests
          PROVE  \/ req'[r] = Free
                 \/ /\ req[r] # Free
                    /\ req'[r].kind = req[r].kind /\ req'[r].headers = req[r].headers
      <3>1. req'[r] \in {req[r], [req[r] EXCEPT !.could = @ \cup ToSet(list)]} /\
            (req[r] = Free => req'[r] = Free)
        BY <1>2 DEF Reassign
      <3>2. req[r] \in {Free} \cup RequestType
        BY DEF IInv
      <3> QED
        BY <3>1, <3>2 DEF RequestType
    <2> QED
      BY <2>1, WelcomeStays
  <1>3. ASSUME NEW r \in Requests, Refuse(r) PROVE Welcome'
    BY <1>3, WelcomeMoves DEF Refuse
  <1>4. ASSUME NEW r \in Requests, req[r] # Free, NEW pc, Moves(r, pc) PROVE Welcome'
    <2>1. ASSUME NEW c \in Requests
          PROVE  \/ req'[c] = Free
                 \/ /\ req[c] # Free
                    /\ req'[c].kind = req[c].kind /\ req'[c].headers = req[c].headers
      <3>1. /\ req'[c] \in {req[c], [req[c] EXCEPT !.pc = pc]}
            /\ req[c] \in {Free} \cup RequestType
            /\ req[c] = Free => req'[c] = Free
        BY <1>4 DEF Moves, IInv
      <3> QED
        BY <3>1 DEF RequestType
    <2> QED
      BY <2>1, WelcomeStays
  <1>5. ASSUME NEW r \in Requests, Handle(r) PROVE Welcome'
    <2>1. CASE Refuse(r)
      BY <1>3, <2>1
    <2>2. CASE ~Refuse(r)
      <3> DEFINE pc == IF req[r].kind \in {"page", "context"} THEN "answer" ELSE "authority"
      <3>1. req[r] # Free /\ req' = [req EXCEPT ![r].org = Chosen(r), ![r].pc = pc]
        BY <1>5, <2>2 DEF Handle
      <3> HIDE DEF pc
      <3>2. ASSUME NEW c \in Requests
            PROVE  \/ req'[c] = Free
                   \/ /\ req[c] # Free
                      /\ req'[c].kind = req[c].kind /\ req'[c].headers = req[c].headers
        <4>1. /\ req'[c] \in {req[c], [req[c] EXCEPT !.org = Chosen(r), !.pc = pc]}
              /\ req[c] \in {Free} \cup RequestType
              /\ req[c] = Free => req'[c] = Free
          BY <3>1 DEF IInv
        <4> QED
          BY <4>1 DEF RequestType
      <3> QED
        BY <3>2, WelcomeStays
    <2> QED
      BY <2>1, <2>2
  <1>6. ASSUME NEW r \in Requests, NEW kind \in {"page", "context", "list", "form", "write"},
               NEW auth, auth = <<>> \/ kind = "write", NEW cookies, NEW csrf, NEW form, NEW asked,
               Ask(r, Sent(kind, auth, cookies, csrf, form, asked))
        PROVE  Welcome'
    BY <1>6, SentPasses, WelcomeMoves DEF Ask
  <1>7. ASSUME NEW r \in Requests,
               \/ \E asked \in Orgs \cup {NoOrg} : Navigate(r, asked)
               \/ \E asked \in Orgs : AskContext(r, asked)
               \/ AskList(r)
               \/ \E kind \in {"form", "write"}, form \in {tab.page, tab.list} : Submit(r, kind, form)
               \/ \E t \in Tokens, asked \in Orgs \cup {NoOrg}, cookies \in {<<>>, Cookies} :
                     Program(r, t, asked, cookies)
        PROVE  Welcome'
    BY <1>6, <1>7 DEF Navigate, AskContext, AskList, Submit, Program
  <1>8. ASSUME NEW r \in Requests, Gate(r) \/ Act(r) \/ Lose(r) \/ Deliver(r) PROVE Welcome'
    BY <1>3, <1>4, <1>8 DEF Gate, Act, Lose, Deliver
  <1> QED
    BY <1>1, <1>2, <1>5, <1>7, <1>8 DEF Next, vars, SignIn, SignOut, Leave, Expire

\* request_security.rs:144-171, security.rs:85-108: the gate refuses nothing of the
\* portal's own, and lets through no request that names another host or origin, or a
\* foreign site other than behind a first value that is none.
THEOREM GateIsExact == Spec => []GateTellsOursApart
  <1>1. Init => Welcome
    BY DEF Init, Welcome
  <1>2. Welcome => GateTellsOursApart
    BY OthersKeptOut DEF Welcome, Passes, GateTellsOursApart, Free
  <1> QED
    BY <1>1, <1>2, NextWelcome, Invariance, PTL DEF Spec
=============================================================================
