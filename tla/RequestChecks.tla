--------------------------- MODULE RequestChecks ---------------------------
(***************************************************************************)
(* What the portal makes of a request's headers: the credential it         *)
(* presents (src/auth.rs), whether it comes from the portal's own origin   *)
(* (src/request_security.rs, src/security.rs), and the organization it is  *)
(* about (src/main.rs).  Decisions on one request, without state; Portal   *)
(* puts them in the order the router does.                                 *)
(*                                                                         *)
(* A header is the sequence of its values in a request, a value is what    *)
(* the checks can tell apart of it.  The crumbs of the cookie header are   *)
(* one sequence, whichever of its values they came in; a value that is not *)
(* visible ASCII is skipped with all its crumbs (auth.rs:265, 285), so     *)
(* they are not among them.                                                *)
(***************************************************************************)
EXTENDS Naturals, Sequences, SequencesExt

CONSTANTS
    Tokens,         \* access tokens
    Orgs,           \* organizations
    SiteMode        \* FIDUCIA_SITE_MODE=customer: the portal is served under any name

Unreadable == "unreadable"  \* a value that is not visible ASCII
Malformed == "malformed"    \* an authorization that is not "Bearer " and a token
Blank == "blank"            \* a cookie with nothing after the "="
NoOrg == "none"

ASSUME RequestChecksAssumption ==
    /\ SiteMode \in BOOLEAN
    /\ Tokens \cap {Malformed, Blank} = {} /\ NoOrg \notin Orgs

----------------------------------------------------------------------------

AuthorizationValues == Tokens \cup {Malformed}

Crumbs == [name : {"session", "other"}, value : Tokens \cup {Blank}]

\* Ours: the host of CUSTOMER_APP_ORIGIN; "named": customer_app_host, on another port.
Ours == "ours"
HostValues == {Ours, "named", "foreign", Unreadable}

OriginValues == {Ours, "foreign", Unreadable}

\* Sec-Fetch-Site: Ours stands for "same-origin" and "none".
SiteValues == {Ours, "foreign", Unreadable}

Headers == [auth : Seq(AuthorizationValues), cookies : Seq(Crumbs), host : Seq(HostValues),
            origin : Seq(OriginValues), site : Seq(SiteValues)]

----------------------------------------------------------------------------
(* src/auth.rs: which credential a request presents.                         *)

Missing == [source |-> "missing"]
Invalid == [source |-> "invalid"]
FromAuthorization(t) == [source |-> "authorization", token |-> t]
FromCookie(t) == [source |-> "cookie", token |-> t]

\* The credentials that can be verified.
Credentials == {FromAuthorization(t) : t \in Tokens} \cup {FromCookie(t) : t \in Tokens}

\* authorization_token: one value, and a token in it.
AuthorizationCredential(h) ==
    IF Len(h.auth) = 1 /\ h.auth[1] \in Tokens THEN FromAuthorization(h.auth[1]) ELSE Invalid

IsSession(crumb) == crumb.name = "session"

\* cookie_value: the one session crumb with something in it; a second is one too many.
CookieCredential(h) ==
    LET said == {i \in DOMAIN h.cookies : IsSession(h.cookies[i]) /\ h.cookies[i].value # Blank}
        one == CHOOSE i \in said : TRUE
    IN IF said = {} \/ said # {one} THEN Invalid ELSE FromCookie(h.cookies[one].value)

\* A slip: an authorization that cannot be used leaves the choice to the cookie.
FallsBackToCookie(h) ==
    CASE AuthorizationCredential(h) # Invalid -> AuthorizationCredential(h)
      [] OTHER -> IF \E i \in DOMAIN h.cookies : IsSession(h.cookies[i])
                  THEN CookieCredential(h) ELSE Missing

\* presented_credential: what Authorization says, good or bad; only without it the
\* session cookie, good or bad.
PresentedCredential(h) ==
    CASE h.auth # <<>> -> AuthorizationCredential(h)
      [] h.auth = <<>> /\ \E i \in DOMAIN h.cookies : IsSession(h.cookies[i]) -> CookieCredential(h)
      [] OTHER -> Missing

----------------------------------------------------------------------------
(* src/request_security.rs: where a request comes from.                      *)

RequireHost(h) == h.host = <<Ours>>

\* A value of Sec-Fetch-Site that does not speak against the request.
Harmless(site) == site \in {Ours, Unreadable}

\* require_same_origin: the first Sec-Fetch-Site counts.
RequireSameOrigin(h) ==
    /\ RequireHost(h)
    /\ h.origin = <<Ours>>
    /\ h.site # <<>> => Harmless(Head(h.site))

\* require_api_host: who names an origin is held to it, who does not must not have
\* been sent by a foreign site.
RequireApiHost(h) ==
    /\ RequireHost(h)
    /\ IF h.origin # <<>> THEN RequireSameOrigin(h)
       ELSE \A i \in DOMAIN h.site : Harmless(h.site[i])

----------------------------------------------------------------------------
(* src/security.rs and src/main.rs: what applies to which route.             *)

\* "app": below /app, but the socket; "login": /login* and /logout; "api": below
\* /api/customer; "sync": its catch-up route; "public": the rest, webhooks included.
Routes == {"app", "ws", "login", "api", "sync", "root", "public"}

Methods == {"GET", "POST"}

\* host_serves_customer_app: by name, whatever the port, or always.
ServesCustomerApp(h) == SiteMode \/ (h.host # <<>> /\ Head(h.host) \in {Ours, "named"})

BrowserSurface(route) == route \in {"app", "ws", "login"}

\* A slip: the socket is opened by a GET, and held to what a GET is held to.
GateBySurface(route, method, h) ==
    CASE BrowserSurface(route) /\ method # "GET" -> RequireSameOrigin(h)
      [] (BrowserSurface(route) /\ method = "GET") \/ route \in {"api", "sync"} -> RequireApiHost(h)
      [] OTHER -> TRUE

\* request_security_gate
SecurityGate(route, method, h) ==
    CASE route = "ws" \/ (BrowserSurface(route) /\ method # "GET") -> RequireSameOrigin(h)
      [] route \in {"app", "login"} /\ method = "GET" -> RequireApiHost(h)
      [] route \in {"api", "sync"} -> RequireApiHost(h)
      [] OTHER -> TRUE

\* customer_mfa_assurance_gate: the routes it authenticates.
Protected(route, method, h) ==
    \/ route \in {"app", "ws", "api"}
    \/ route = "sync" /\ method = "GET"
    \/ route = "root" /\ ServesCustomerApp(h)

\* root, customer_page_response: whether the answer is a page of the portal.
RootIsPortal(h) == ServesCustomerApp(h) /\ RequireApiHost(h)

----------------------------------------------------------------------------
(* src/main.rs: the organization a request is about.                         *)

\* selected_customer_org_from: what was asked for, if the caller belongs to it;
\* without a selection the only one there is.  (What valid_org_id refuses is no
\* organization: it is refused as one the caller does not belong to.)
SelectedOrg(orgs, header, explicit) ==
    LET requested == IF explicit # NoOrg THEN explicit ELSE header
    IN CASE requested # NoOrg -> IF requested \in ToSet(orgs) THEN requested ELSE NoOrg
         [] requested = NoOrg /\ Len(orgs) = 1 -> orgs[1]
         [] OTHER -> NoOrg

\* customer_page_org: a page falls back on the first of several.
PageOrg(orgs, header, explicit) ==
    IF explicit # NoOrg \/ header # NoOrg \/ Len(orgs) <= 1
    THEN SelectedOrg(orgs, header, explicit)
    ELSE orgs[1]

----------------------------------------------------------------------------
UpToTwo(S) == BoundedSeq(S, 2)

From(host, origin, site) ==
    [auth |-> <<>>, cookies |-> <<>>, host |-> host, origin |-> origin, site |-> site]

\* A value of Sec-Fetch-Site that names a foreign site is let through behind a first one
\* that does not, in a request that names the portal's own origin.
Overlooked(h, i) == i > 1 /\ h.origin = <<Ours>>

\* Of all requests with at most two values of each header, those that reach a customer's
\* surface name the portal's host once, and no origin or the portal's once; a socket and
\* a change made by a browser name the portal's; and every value of Sec-Fetch-Site that
\* names a foreign site is one overlooked.  (A request without Origin or Sec-Fetch-Site,
\* as a program sends it, is told apart by neither.)  No check further in is passed by a
\* request the router's gate refuses, and the root is a page only behind the gates.
GateKeepsOthersOut ==
    \A host \in UpToTwo(HostValues), origin \in UpToTwo(OriginValues), site \in UpToTwo(SiteValues) :
        LET h == From(host, origin, site)
        IN /\ \A route \in Routes \ {"public"}, method \in Methods :
                 LET reached == SecurityGate(route, method, h)
                                /\ (route = "root" => RootIsPortal(h))
                     exact == route = "ws" \/ (BrowserSurface(route) /\ method # "GET")
                 IN /\ reached => /\ host = <<Ours>>
                                  /\ origin \in {<<>>, <<Ours>>}
                                  /\ \A i \in DOMAIN site : site[i] = "foreign" => Overlooked(h, i)
                                  /\ exact => origin # <<>>
                    /\ (IF exact THEN RequireSameOrigin(h) ELSE RequireApiHost(h))
                           => SecurityGate(route, method, h)
           /\ RequireSameOrigin(h) => RequireApiHost(h)
           /\ RootIsPortal(h) => Protected("root", "GET", h)
=============================================================================
