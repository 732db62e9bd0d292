# Formal model of fiducia-backend

fiducia-backend is the customer BFF of Fiducia: one Rust (axum) process per
replica that serves the customer's pages and JSON, holds no user state of its own
beyond a rate limiter, and stands between the browser and four others: Supabase
Auth (identities, factors, access tokens), fiducia-auth (introspection of tokens,
memberships, API keys), Postgres (the customer's own rows) and the billing
providers that post webhooks. This directory holds TLA+ models of the parts whose
behaviour depends on the order in which things happen or on combinations nobody
would enumerate by hand, the TLC configurations that check them, and TLAPS proofs
about them.

Paths below are under `src/src/` of the repository.

## Inventory

| Part | State | Operations | Hard behaviour | Model |
|---|---|---|---|---|
| Throttle (`throttle.rs`) | a map (bucket, key) -> admission instants, in process memory | `check`, which sweeps, retains, denies or admits | concurrent checks, a ceiling on keys, rounding, loss of the map at restart | `Limiter`, `Throttle` |
| Sign-in budgets (`login.rs`, `throttle.rs`) | none | each handler checks one or two budgets, then calls | budgets checked one by one, spellings, forwarded hops | `Dispatch`, `SignInBudgets` |
| Sign-in flows (`login.rs`) | login nonce, pending and session cookies in the browser | password sign-in, one-time codes (dispatch, redeem), step-up, logout | several awaits per handler, several tabs, lost responses, expiry | `Assurance`, `SignInForms` |
| MFA management (`login.rs`) | factors at Supabase | enroll, activate, disable, page | multi-call handlers that can stop half-way | `Assurance` |
| Assurance gate (`security.rs`, `authenticate_mfa_aware`) | none | one decision per request, with a live factor lookup | a check and the handler it protects are separate in time | `Assurance` |
| Supabase client (`supabase_auth.rs`) | none | `list_factors`, `enroll`, `challenge`, `verify_factor`, `unenroll`, `send_otp`, `verify_otp` | bodies that are empty or unparseable, lost answers | `Assurance`, `Dispatch` |
| Credentials (`auth.rs`) | none | `authenticate`, `presented_credential`, `cookie_value` | precedence of credentials; ambiguity of headers | `RequestChecks`, `Portal` |
| Request security (`request_security.rs`, `security.rs`) | none | host, origin and CSRF checks, the two gates of the router | decision tables over headers; sessions that change under a page | `RequestChecks`, `Portal` |
| Organizations (`main.rs`) | none here; fiducia-auth owns memberships | selection for a page, its context, its list, a form, a write | memberships that change under a request | `Portal` |
| Store (`store.rs`) | users, preferences, sessions, notifications, audit rows | find-or-insert, upsert, revoke, mark read, lists, counts | no transactions; lookups and writes by different keys | `Store` |
| API keys (`main.rs`) | none here; fiducia-auth owns the keys | issue, rotate, revoke, list, catch-up snapshot | retries with idempotency keys, a secret shown once, mutations nobody waits for | `KeyLedger`, `ApiKeys` |
| Billing webhooks (`billing.rs`) | `billing_webhook_events` | verify, record, acknowledge | at-least-once delivery, overlap, half-failed inserts | `Billing`, `WebhookLedger` |
| Live streams (`streaming.rs`) | a sequence per stream | heartbeats over WebSocket and SSE, ping and pong | slow and departed clients, streams that do not end | `Streams` |
| Shutdown (`main.rs`) | configuration | serve, drain, stop | two signals, endless streams | `Streams` |
| Views, assets, API docs | none | rendering | none | not modelled |

How they interact: the router puts a timeout (`TimeoutLayer`) and the two security
layers around every route; a protected request is authenticated by the gate and
again by its handler, and its handler passes the same credential on to the key
authority; the sign-in handlers spend throttle budgets, call Supabase up to three
times, and finish by asking fiducia-auth to vouch for the token; stored-data
handlers find or insert the caller's `users` row before every operation and again
when they render the refreshed fragment. Shared state is exactly: the throttle map
(per process), Supabase's factors, fiducia-auth's keys and memberships, Postgres,
and the browser's cookie jar and page, which parallel responses write in arrival
order.

What makes each part correct:

* Throttle and budgets: no key exceeds its budget in any window of one process
  lifetime; the map stays below its ceiling without forgetting a live key; a refusal
  has a cause; the advice about when to retry is close to the truth; no upstream call
  is made that its own admissions have not paid for, so addresses, numbers as they are
  spaced and peers of the gateway are protected by what the limiter promises.
* Sign-in, MFA and gate: an enrolled account's single-factor token becomes neither
  a session nor a pass to a handler; the token set aside for step-up is never a
  session; a factor is removed only with proof of that factor; nobody is sent to a
  step-up without a reason; an enrolled user can always get in again, and the form in
  front of a user is one that will be accepted.
* Portal: a write acts for the account, the session and the organization of the form
  it came from, or not at all; the gate refuses nothing of its own, and of others' requests all
  but what it is exactly known to overlook; no further header turns a request away from
  its Authorization or to another session.
* Store: one `users` row per subject under races; errors have causes; what a
  caller was told stays true; nobody changes another's row; a fragment agrees
  with its message.
* Billing: one immutable ledger row per genuine event, at most one first sight,
  acknowledgement only once the row is there, and redelivery comes to an end.
* API keys: a submission has one effect however often it is sent; a secret reaches
  who asked for it and nobody else, and can be had by trying again if it was lost; the
  list beside it is not older than the mutation.
* Streams: frames are numbered without gap or repetition; a signal should end the
  process, and does once no client stays on an event stream.

`PROJECT.json` lists the hazards at their lines and the properties that cover them.

## Modules

| Module | What it is |
|---|---|
| `Limiter` | abstract: what the throttle promises its callers |
| `Throttle` | the limiter with its map, one process with restarts; implements `Limiter` |
| `Dispatch` | abstract: the budgets of the sign-in handlers, over `Limiter` |
| `SignInBudgets`, `MCSignInBudgets` | the handlers of `Dispatch` on the map of `Throttle`; implements `Dispatch` |
| `BudgetProofs` | the theorems of these three, both refinements among them |
| `Assurance`, `MCAssurance` | sign-in from the checked primary factor on, step-up, gate, factor management, logout, cookie jars |
| `AssuranceProofs` | its theorems |
| `SignInForms`, `MCSignInForms` | the sign-in pages, their nonce and pending cookies, several tabs |
| `SignInFormsProofs` | its theorems |
| `Store`, `MCStore` | the statements behind preferences, sessions and notifications |
| `StoreProofs` | its theorems |
| `WebhookLedger` | abstract: what the webhook endpoint promises |
| `Billing`, `MCBilling` | the endpoint, the deliveries and the network; implements `WebhookLedger` |
| `BillingProofs` | its theorems, the refinement among them |
| `KeyLedger` | abstract: what the key endpoints promise who submits a form or a command |
| `ApiKeys`, `MCApiKeys` | the key handlers between page, JSON client and authority; implements `KeyLedger` |
| `ApiKeysProofs` | its theorems, the refinement among them |
| `RequestChecks` | what is made of one request's headers: credential, origin, organization; no state |
| `Portal`, `MCPortal` | sessions, pages and requests of a browser and of programs, over `RequestChecks` |
| `PortalProofs` | its theorems |
| `Streams`, `MCStreams` | requests, event streams and sockets in the life of the process |
| `StreamsProofs` | its theorems |

Definitions whose comment begins with "A slip" are no part of a specification. Each is
the mistaken form of the definition after it, kept to see that a property would notice.

### Limiter and Throttle

`windows` is the static map. Every `check` runs under one mutex and reads the clock
inside it, so a check is one action with three outcomes: `RefuseNewKey` (a new key
meets a map that is full even after the sweep), `DenyOverBudget` and `Admit`. Each
includes the sweep and the `retain` the code does on the way, on refusals as well.
`log` is history: all admissions of a slot, each with its instant and the process
lifetime it fell in; `windows` names admissions by their position in it. `Restart`
empties the map, as a static in a new process is empty. A poisoned mutex is
recovered by the code and leaves no trace in the model: no code path panics while
holding it.

`Limiter` keeps the log only. A key may be admitted while fewer than `Limit` of its
admissions of this lifetime are in the window; a refusal changes nothing. `Throttle`
extends it with the map and the last `reply`, and implements it with the identity on
`now`, `boots` and `log`: the map, its sweeps and its ceiling are how, not what.

### Dispatch and SignInBudgets

The handlers of `login.rs` over `Limiter`. A handler asks for its budgets in the code's
order (`Budgets`), each check a step of its own (`Pass`); a refusal ends it and gives
nothing back (`TooMany`). `Call` is the upstream call the budgets guard. An admission is
named by its slot and place in the log (`Ticket`), so that a property can say which call
used which admission. `IdentifierKey` is what `check_in` makes of the identifier, and
`Reaches` what `normalize_identifier` makes of the same text; they differ on blanks inside
a phone number, so `gap` names the way they are set: the limiter has a key for each, and
the call is the same. `BudgetsHold` says what follows, a budget for an address however it is
written and one for a number in each spacing; that the spacings share one, as the
repository has it, is `VariantsShareABudget` and is violated. `ClientKey` takes the last forwarded hop, the one the gateway adds.

`Pass` is a step of `Limiter`, not of the code's map. `SignInBudgets` puts the same handlers
on `Throttle`: `Ask` is one check of the map, which the handler goes on from or answers 429
to as the map decides, so a refusal now has to be one of the map's. What a handler does
otherwise (`Elsewhere`) is what `Dispatch` says. The refinement `DispatchImplemented`
carries the properties of `Dispatch` to the map.

### Assurance

A request has a program counter that stops at each await. One answer of Supabase or
fiducia-auth is one action; between two of them, anything else may happen. `Send`
presents the cookies the browser has at that moment; the response (`Deliver`)
writes `Set-Cookie` to the jar in a step of its own or is lost (`Abandon`, which is
also `TimeoutLayer` dropping the handler at an await). `Refuse` stands for every path
that ends in an error page: wrong credentials, spent budget, refused form, outage.
None of them sets a session or pending cookie. `VerifyCodeUnheard` is the call
Supabase acted on whose answer was lost.

`EmptyBodies` switches on an answer Supabase may give and the parser accepts: a 2xx
with an empty body, which `expect_success` turns into JSON null and `parse_factors`
into an empty list.

Tokens are drawn from `Fresh`, those no cookie or request refers to, and an expired
token that nobody holds is forgotten, so a small set of them suffices for behaviours
of any length.

### SignInForms

`Assurance` asks who gets a session; this module asks whether the person in front of
the browser can use the form they see. A sign-in handler shares no state with another
one, so each is one action: from the cookies and the form a tab sends, it chooses one
of the responses the code can build for them, an error page, a JSON refusal, the next
page or the end of the flow. A response is a record of the page and of what becomes
of each cookie, built by operators named after the functions: `LoginFlowPage` (fresh
nonce on page and cookie together), `Failed` (the same page under an error status),
`StepUp`, `Finished`, `SignedOut`. It waits in `tab[t].reply` until the browser stores
its cookies and shows its page (`Deliver`), stores the cookies only (`Cut`) or gets
nothing (`Lose`). A redirect and the page it leads to are one response. `lastSet` is
history.

`Scripted` distinguishes the two ways the markup offers to send a form. The `action` of
a form works without scripts and shows whatever comes back. With htmx, which the pages
load from `assets/`, the cookies of a 4xx or 5xx are stored by the browser and the page
is not swapped in. A tab has one request in flight at most, and the back button is left
out: it can show an old form whatever the server does.

### RequestChecks and Portal

`RequestChecks` has the decisions of `auth.rs`, `request_security.rs`, `security.rs` and
the organization selection of `main.rs` as operators on one request. A header is the
sequence of its values, and a value is what the checks can tell apart of it: the portal's
name, another name, something unreadable, and so on. `GateKeepsOthersOut` compares what
the gate and the checks further in let through with what they are for, over all requests
with at most two values of each header. It is exact about what is not kept out: a request
without Origin and Sec-Fetch-Site is taken for a program's, and beside the portal's Origin a
value of Sec-Fetch-Site after the first is not heard (`Overlooked`). Since it is a fact about operators it is an
invariant only by being a conjunct of one.

`Portal` puts them in the router's order. A request stops where the code does: `Gate`
(both layers), `Handle` (which authenticates again, checks a write and selects the
organization), `Act` (the call to the key authority with the credential of the request)
and `Deliver` (the answer reaches the page it was sent from). Between any two, the user
may sign in as somebody else, sign out or close the page, the session may expire and an
administrator may change memberships. A form remembers the credential and organization it
was rendered with. `could` is history: the organizations the request's user belonged to
while it was under way. A program writes with a token in `Authorization`, with or without
the browser's cookie beside it.

### Store

Each statement is an action; between a lookup and the write that follows it, any
statement of another request may run. A request slot is used once, so a row can name
the request that wrote it; preferences are abstracted to the name of the saver.
`Replies` covers the JSON endpoint (answers at once) and the form (renders the
refreshed fragment, which runs `ensure_user` a second time). `StatementFails` and
`WriteUnheard` are failures before and after the commit. `create_notification` and
`Observe` are the other services that insert rows.

Not in the model: the `version` and `sync_sequence` columns (set by database triggers),
the validation of preferences before the store is reached, read-only pages.

### KeyLedger and ApiKeys

A submission is named by its idempotency key: `Press` is the first use of a form of the
page, `Command` one of a JSON client, `Retry` the same again. `Mutate` is the call to the
authority, which answers a key it has seen with the answer it gave then (`Serves`, modelled
from how this code uses it); after it a page's request lists the keys (`List`) for the
fragment that is swapped in (`DeliverFragment`). `Drop` is `TimeoutLayer` ending the handler
while the call is out, `Reload` a page that no longer waits: what was sent may still be
served (`ServeOrphan`). htmx shows no error, so every failure leaves the page as it was.
The forms of the rows come with a fragment and the create form stays, which is why a
second creation on the same page is a retry of the first.

In `KeyLedger` there are no attempts: a submission is carried out once at most (`CarryOut`,
in one step with its answer) and its maker is told that answer or nothing (`Inform`).
What a mutation does to the keys (`TakesEffect`) is the authority's and common to both.
`ApiKeys` implements it with the identity on the four variables they share: what is left
out is the page, the calls and what was dropped.

### Billing and WebhookLedger

`delivery` holds the webhook calls in flight: verify, record, reply. `Record` is the
single `INSERT ... ON CONFLICT DO NOTHING`; `RecordFails` is the failed or unheard one.
Whatever makes `verify` refuse is one action, because the ledger cannot tell them
apart, and `Forge` is a body that no provider signed. `Deploy` puts a replica with other
secrets (`Configurations`) to work. `firstSights` counts, as history, how often the
handler decided `deduped: false`.

`WebhookLedger` knows only emitted events, the ledger and what the provider was
released from. The refinement mapping is the identity on these three variables.

### Streams

`conn` has both ends of each connection: what the server is doing, the frames on their way
and the last one the client saw. `Tick` is the heartbeat, which waits while the client is
behind (`LineCapacity` stands for the buffers of the connection); `Pong` answers a client's
ping with the number of the refresh to come. The numbers saturate as `u64` does, at
`MaxSequence`. `Notice` is a send or a read that fails after the client has left. Of the
process there is what it listens for (`handlers`, each may fail to be installed),
`ShutdownSignal`, `Drain`, `Stop` and the next `Start`. `Awaited` is what axum's graceful
shutdown waits for: handlers and event streams, but not sockets, whose connection has been
upgraded out of the server.

## Runs

| Run | Instance | Distinct states | Shows |
|---|---|---|---|
| `sign_in_budgets` | 5 buckets with budgets of one (step-up: two) over windows of 1 to 3 half seconds, an address and a number written in several ways, 2 peers and one request that passed no gateway, 2 entries in the map, 3 handlers, clock to 2, 1 restart | 425,871 | the limiter implements its promise; ceiling, justification of refusals, advice; calls about an account or by a peer stay within the budgets; every call has paid; on the map the handlers do what `Dispatch` has them do on its promise |
| `sign_in_budgets_spelled` | the same | violation | each spacing of a phone number has a budget of its own (finding 3) |
| `assurance` | 1 browser, 2 requests, 2 factors, 2 tokens of each level | 1.8 million | all safety properties of sign-in, gate and factors |
| `assurance_live` | 1 browser, 1 request, 1 factor, 3+2 tokens | 11,503 | an enrolled user always gets in again |
| `assurance_empty_body` | 1 factor, `EmptyBodies` | violation | an empty lookup body skips the second factor (finding 1) |
| `sign_in_forms` | 2 tabs, 4 nonces, plain form posts | 444,816 | forms stay usable, step-ups can be retried, users get in |
| `sign_in_forms_scripted` | 1 tab, 3 nonces, htmx | violation | a refused form stays on screen with a dead nonce (finding 2) |
| `portal` | 2 users who share an organization, 3 tokens, 1 request at a time | 438,760 | writes act for the account of their form; what the gate lets through, and what a further header does to a credential, exactly |
| `store` | 2 subjects, 2 requests, 2 sessions of one label, 2 notifications on pages of one | 135,968 | races on all four tables, ambiguous labels, bounded pages |
| `billing` | 2 providers sharing an event id, one with its secret on some replicas only, 2 bodies, 2 deliveries | 37,986 | the refinement, the first sight, and an end to redelivery |
| `api_keys` | 1 key issued and room for another, 2 submissions, 2 loads of the page | 91,622 | the refinement, one effect each, no secret mixed up, fresh lists, and a lost secret recovered |
| `streams` | 1 connection, numbers to 2, 1 frame under way | violation | one client that stays keeps the drain open (finding 4) |

Why these bounds:

* Sign-in budgets: the limiter is driven by the handlers, as in the code. Seven keys against
  two entries make every sweep outcome occur (room found, no room, nothing expired),
  at a handler's first budget or its second; a tick is half a second, so that whole and
  fractional waits both occur; step-up has a budget of two over two ticks, so that one
  admission of a key can age out while another is live. A property of the handlers fails
  when an admission is used twice, counted under another key or not at all. That takes a
  handler between two of its checks, one that spends what the first has looked at, and one
  more to go over a budget of one or two. The requests are the spellings and hop lists that
  differ for one of the operators. `Throttle` and `Dispatch` have no runs of their own: this
  one checks that the handlers on the map are both. How often one key can be checked in a
  behaviour is bounded by the three handlers; the theorems about `Throttle` are not.
* Assurance: the races are between two handlers (a sign-in or protected request and
  one that changes the factors, or two responses racing to one jar). A third request
  exceeds the time available; the theorems have no bound on any of these sets. Two
  browsers only differ by their jar, and a second jar is covered by the theorems.
* Sign-in forms: the cookies are shared, so what one tab can do to another needs two.
  At most four nonces are in use at once without scripts: one in each tab's response
  and in each tab's form, since the tab whose nonce the cookie holds shows it or shows
  no form.
* Portal: two requests share nothing but the page and the jar, and what can happen to
  those between the steps of one request (sign-in, sign-out, a closed page, expiry, a
  change of membership) are actions of their own. Three tokens give a user two sessions
  beside the other user's.
* Store: an interleaving needs a reader and a writer. Two sessions share the one
  device label and a page shows one of two notifications.
* Billing: two deliveries overlap, further ones reuse their slots; two bodies show
  that the first one stays.
* API keys: the second submission may be of either form, from either load of the page or
  from a program, and each may be served late; one key is there from the start to be
  rotated and revoked, one may be created.
* Streams: the violation needs one client that stays; numbers that saturate make its
  heartbeats a cycle.

The theorems below have none of these bounds.

Symmetry is used on sets the specification treats alike (requests, tokens of one level,
rows), and in no run that checks liveness.

Deadlock is checked in `assurance`, `assurance_live`, `sign_in_forms`, `portal` and
`billing`: none of them may stop, whatever comes. It is off where the model must end:
`sign_in_budgets` when the clock does, `store` when every slot is used, `api_keys`
when every submission was made and the page may be loaded no more.

## Fairness

* `RequestsEnd(r)`, `DeliveryFairness(d)`, `Finish(c)` and the weak part of
  `Fairness(id)` in `ApiKeys`: a request ends, by its response or by being dropped.
  `TimeoutLayer` wraps every route (`main.rs:450-461`).
* `SignInFairness(r, b)`: a user with the password and the authenticator keeps
  trying, and of attempts made again and again some get through: strong fairness on
  sending, on the successful answer of each call the flow makes, and on delivery
  while the token concerned is valid. Any number of attempts may be refused, lost or
  outlived by their tokens first. This is a statement about the user and the services,
  not about the code; what the property adds is that no cookie, factor or token
  state the code leaves behind can block the next attempt.
* `UserFairness(t)`: the user of one tab goes on with the form it shows and opens the
  login page only when it shows none (weak); responses keep arriving, and of the
  submissions made while they could succeed some do, and some of those answers arrive
  (strong). Nothing is assumed of the other tab. Without it the user may give up, and
  no code can help that; the property says that no sequence of responses to either tab
  leaves a form that is refused for ever.
* `RetryFairness(k)`: a provider redelivers what it has not seen acknowledged, and of
  the attempts some get through each stage. `RedeliveryEnds` speaks only of providers
  whose secret stays configured from some time on.
* `Fairness(id)` in `ApiKeys`: who has not been answered submits the same form again, and
  of the attempts some reach the authority and some the list (strong). `CreationRecovers`
  is released when the page is loaded again: its form and idempotency key are gone then,
  and the secret with them.
* `Fairness` in `Streams`: the runtime polls what is ready (`Drain`, `Stop`, and for each
  connection `Finish`, `Tick` and `Notice`), and a client that is there reads what has
  arrived. That clients leave is not assumed: nothing in the code makes them, and it is
  what the drain depends on.

## Proofs

Each proof module EXTENDS its component; the theorems hold for all values of the
constants that satisfy the named assumptions of the modules they extend.

`BudgetProofs` has three parts. *The map.* The invariant checked by TLC is not inductive,
because nothing in it bounds an entry of the map. `MapInv` adds that entries are finite,
at most `Limit` long and consist of positions in the log, and that the log's lifetimes are
not in the future. From "an entry holds every live admission of this lifetime" and "an
entry is at most `Limit` long" the budget follows, and with it that an admission is one
`Limiter` allows (`AdmitAllowed`): `StepPromised` maps every step and `PromiseKept` is the
refinement. `DenialJustified` is not part of `MapInv`; it is proved from `MapInv` over each
kind of step. `AdviceIsClose` needs of it that a spent budget has a live entry, so that the
oldest exists and its wait is a number; the rest is what division rounds (`Quotient`,
`AdviceOf`).

*The handlers.* `Books` keeps accounts. What a handler holds and what it has still to
ask for make up its price (`Accounted`), every admission held or used is an entry of the
log (`InLog`), and none is held twice (`Apart`); a new admission is a new entry, so the
last is kept. `CallsArePaid` is read off that. For `AccountsAndPeersProtected`, the calls
counted by a budget map to the live entries of one slot, each to its own (`CallsAdmitted`,
by an injection), and the limiter bounds those. That they are of one slot is where the
spacing of a number comes in: `CalledAsWritten` shows it for an address however it is
written, because one with inner blanks is not called, and for a number only within a
spacing.

*The handlers on the map.* Each invariant needs the other: a step of a handler is a check
of the map only if what it asks for is a slot (`Books`), and a step of `Dispatch` only if
whom the map admits the limiter allows (`MapInv`). So the two are shown together
(`TogetherInvariant`), and both projections follow: `MapUnderHandlers`, that the map is
`Throttle` under the handlers too, and `HandlersOnTheMap`, that the handlers are `Dispatch`.
`ProtectedOnTheMap` is what this was for: the budgets hold on the map the code has.

`AssuranceProofs`: `IInv` says for each program point what it implies about the request
(`SlotFacts`: past a lookup that found nothing there was a moment without a verified
factor, and so on), keeps the history flags in step with the present (`Current`), and
says who else can refer to the token a request was just given (`GotAlone`: nobody until
it is delivered) and that no jar has one token in both roles (`JarsApart`). Without the
last two a token could be pending in one place and a session in another. The invariant
holds for both values of `EmptyBodies`; `IssueIsAssured` and `ServeIsAssured` assume
`~EmptyBodies`, and the run `assurance_empty_body` shows that the first needs it.
`RemovalIsProved` is an action property: only `Unenroll` makes a verified factor
unverified, and what `SlotFacts` says of its program point is the claim.

`SignInFormsProofs`: `RepliesFit` strengthens the two properties to an inductive
invariant. It says of a response still on its way that a page with a login form brings
its own nonce cookie, and that a step-up page brings the pending cookie or answers a
step-up form and leaves it alone. `ResponsesFit` shows it once for the responses
the handlers share, `HandlerKeeps` has a case per handler, and `DeliverKeeps` and
`CutKeeps` are where the two properties are won. `FormsStayUsable` assumes `~Scripted`,
and the run `sign_in_forms_scripted` shows that it is needed; `StepUpStaysRetryable`
holds either way.

`PortalProofs`: of each request, `Facts` says whose its credential is and that what its
user may choose from is within `could` (`OwnerFacts`), that a form comes with the
credential it was rendered for as its CSRF token (`FormFacts`), and, past the handler,
that the choice was made and fits the form (`ChoiceFacts`). A credential is part of the
request, so signing in and out elsewhere cannot disturb this, and `Reassign` is the one
step that has to be looked at for every request. `CredentialsNeverTraded` is proved on the
operators, by where a value can be inserted and what the crumbs that say something are
afterwards (`InsertedCrumbs`). `BlankDuplicatePasses` and `LaterSitesUnheard` state what the
headers' comments exclude and the code lets through. `GateIsExact` has two halves:
`OthersKeptOut` is a case analysis of the decision tables, and `Welcome` an
invariant about what pages and programs of the portal send.

`StoreProofs`: the tables only grow (`Grows`): an id once given stays, a row keeps its
owner, revoked and read are for good. What a request knows of them is of that kind
(`Facts`), so a step of another request cannot take it away and each action is looked at
for its own request only. Who caused an error and what a fragment shows is not of that
kind; the second invariant `EInv` says it (`CauseFacts`, `PageFacts`), over `IInv`.
`NobodyElsesRows` is an action property, proved from the row a request is about to write.

`ApiKeysProofs`: `Authority` keeps the authority's books. A key's version is at most one
more than the rotations whose idempotency key is used up, an answer names a version the
key has reached, and two answers that carry a secret name different ones. `Carries` says
that what a handler holds is the answer its own idempotency key was given, and that a
list it holds is later. `TakesEffectOnce` compares cardinalities: what is used up was
asked for. None of it mentions how often a mutation is sent or served. `Implements` is the
refinement: a mutation that is served is carried out now or was (`ServedOnce`), and by
`Carries` what is told is on the books (`InformedRightly`).

`BillingProofs`: `IInv` says that a delivery past verification is genuine and about an
emitted event, that an acknowledging answer has its row, and that first sights are
counted only for rows. `Implements` maps initial states to initial states and each step
to `Record`, `Settle` or `Emit` of `WebhookLedger`, or to a stutter.

`StreamsProofs`: the frame its client saw last and those under way are one line, which
grows at one end and is read at the other. `FramesInOrder` alone says nothing about the
next frame; `Ready` adds that the server's number is the one after the last frame that
counts, and this is kept although pongs may follow that frame and although the client may
have read all of it. `Extend` adds a frame to an ordered line, whatever it is; reading takes
away the first frame unless it is a pong, which leaves the one before it in place, and then
every pair of neighbours of the shorter line were neighbours before (`ReadKeeps`).

The constants of `Streams` are a hypothesis of its theorems (`StreamsConstants`), since no
passing run would evaluate an assumption of that module.

Only model-checked: the four liveness properties that hold (`SignInRecovers`, `GetsIn`,
`RedeliveryEnds`, `CreationRecovers`) and the violations; the prover has no support for
fairness with ENABLED. Every invariant, action property and refinement that a passing run
checks is a theorem. The type invariants of `Throttle` and `Billing`, and `TypeOK` and
`FramesInOrder` of `Streams`, are theorems and in no run.

## Findings

1. `supabase_auth.rs:322` accepts an empty 2xx body as JSON null and `parse_factors`
   reads it as "no factors", where `supabase_auth.rs:117-119` and `login.rs:635-636`
   promise that an unusable answer is an outage and that no login is finalized without
   knowing the account's MFA state (`assurance_empty_body`).
2. `login.rs:168` (and the 400 and 401 pages) sends a fresh nonce cookie with the page of
   a refused attempt, "so the user still gets a usable form" (`login.rs:162-163`). htmx,
   which sends the forms, keeps the cookie and does not show the page: after one wrong
   password the form on screen is refused with 403 until it is reloaded
   (`sign_in_forms_scripted`).
3. `throttle.rs:123` keys a budget on the identifier without outer blanks and case, and keeps
   the blanks inside; `supabase_auth.rs:352` drops those of a phone number before the call.
   Each spacing of one number has a fresh budget of codes sent and codes tried, where the
   test at `throttle.rs:239` says "Case/whitespace variants must NOT hand out a fresh budget"
   (`sign_in_budgets_spelled`).
4. `main.rs:141` has connections drain after a signal. The event stream is one of them, has
   no end of its own (`streaming.rs:28-37`) and is not told of the signal: the shutdown
   begun at `main.rs:131` lasts as long as the most patient client (`streams`).

Disagreements that a theorem states, without a run of their own:

* `auth.rs:229-230` and `README.md:50-52` of the repository have every duplicate of the session cookie
  rejected. `auth.rs:272` does not count one with nothing in it, so a blank one beside a
  session is accepted (`BlankDuplicatePasses`; `NeverDowngrades` says so too).
* `request_security.rs:170-171` has no fetch metadata claim a foreign site. Beside the
  portal's own Origin, lines 159-166 look at the first value of `Sec-Fetch-Site` only
  (`LaterSitesUnheard`; `Overlooked` in `GateKeepsOthersOut`).

Observed while modelling, without a run of their own:

* `throttle.rs:149` rounds the wait down to whole seconds (and up to one), so a client that
  waits exactly as told may be refused again; the comment at `throttle.rs:73-74` speaks of
  the time until the oldest event ages out. `RetryAdviceClose` bounds the difference.
* Two overlapping calls that mark one notification both find it unread and both answer
  true (`store.rs:209`); the test at `store.rs:414` calls them one after the other.
* The create form keeps its idempotency key when its answer is swapped in: a second key
  cannot be created before the page is loaded again.
* A list requested when the page loaded may arrive after a fragment and replace it, the
  secret it shows and the revocation with it. A rotation whose secret was lost cannot be
  tried again once another fragment has replaced the row's form.
* A `Cookie` header that is not visible ASCII is skipped with all its crumbs
  (`auth.rs:265`, `285`), so a second session cookie in one is not seen either. The model
  has no such headers.
* A link to `/app` or `/login` on another site, a sibling subdomain included, arrives with
  `cross-site` or `same-site` and is answered 403.
* `CUSTOMER_APP_ORIGIN` is read by two parsers, `main.rs:212` and
  `request_security.rs:92`.
* `auth.rs:103-107` places `TimeoutLayer` further in than it is, and `main.rs:136-141` has
  sockets drain at shutdown, which axum does not wait for.
* If listening for Ctrl-C fails, the shutdown begins at once (`main.rs:143-145`).

## Plan

Done: all modules above, and proofs of all their safety properties. Left, in order:

1. `SignInBudgets` composed with the pages of `SignInForms`, to ask whether a user who is
   refused for somebody else's use of a budget can tell and get in later.
2. The catch-up snapshot, once what the synchronising client does with it is known.

## Not modelled, and why

Views, static assets and API docs have no state. Start-up reads its configuration once
and exits on error; CORS headers are constant. Validation of what the store and the
authority are asked to hold (lengths, alphabets) happens before any of the steps modelled
and changes nothing. The arithmetic of signatures belongs to `fiducia-payments`, the HMAC
of CSRF tokens is taken to be one. The catch-up snapshot (`sync_catchup`) is a plain read whose merge
happens in a client outside the repository. Supabase, fiducia-auth, Postgres and the
providers are modelled only as far as this code uses them. Passwords, codes and cookie
attributes other than their lifetime are left out: a wrong code is a refusal.
