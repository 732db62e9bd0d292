------------------------------- MODULE ApiKeys -------------------------------
(***************************************************************************)
(* The API-key handlers (src/main.rs) between the customer's page or JSON  *)
(* client and fiducia-auth, the authority that owns the keys.              *)
(*                                                                         *)
(* A mutation is a call to the authority under an idempotency key, and for *)
(* a page a second call that lists the keys for the fragment that is       *)
(* swapped in.  The two are separate: either may fail, TimeoutLayer may    *)
(* drop the handler in between, and what it had sent may still be acted    *)
(* on.  The secret of a key exists only in the answer to its mutation.     *)
(*                                                                         *)
(* Submissions are numbered by the form or client command they come from:  *)
(* a press is the first use of an idempotency key, a retry any later one.  *)
(* The authority is modelled from how this code uses it: it answers a key  *)
(* it has seen with the answer it gave then.                               *)
(***************************************************************************)
EXTENDS KeyLedger

VARIABLES
    page,       \* the API-keys page in the customer's browser
    call,       \* the request under way for each submission, and for the page's list
    orphans     \* submissions with a call nobody waits for: it may be served yet

vars == <<issued, done, pressed, told, page, call, orphans>>

----------------------------------------------------------------------------
Rows == [KeyIds -> [version : 0..(MaxPresses + 1), revoked : BOOLEAN]]

NoRows == [k \in KeyIds |-> [version |-> 0, revoked |-> FALSE]]

\* customer_api_keys, api_keys_markup: a page as it is served.  A form gets its
\* idempotency key (None until it is used) when it is rendered.
PageLoaded(n) == [form |-> [f \in Forms |-> None], rows |-> NoRows, load |-> n]

Free == [pc |-> "free", rows |-> NoRows, answer |-> Refused]

TypeOK ==
    /\ issued \in Rows
    /\ pressed \in Seq(Intent) /\ Len(pressed) <= MaxPresses
    /\ done \in [1..MaxPresses -> {<<>>} \cup {<<a>> : a \in Answers}]
    /\ told \in [1..MaxPresses -> {<<>>} \cup {<<a>> : a \in Answers}]
    /\ page \in [form : [Forms -> 0..Len(pressed)], rows : Rows, load : 1..MaxLoads]
    /\ call \in [0..MaxPresses -> [pc : {"free", "mutate", "list", "fragment"},
                                   rows : Rows, answer : Answers]]
    /\ orphans \subseteq 1..Len(pressed)

\* The page's own request for its list has no submission behind it.
Requests == {None} \cup Ids

Asks(pc) == [Free EXCEPT !.pc = pc]

Goes(c, pc) == call' = [call EXCEPT ![c] = Asks(pc)]

Ends(c) == call' = [call EXCEPT ![c] = Free]

----------------------------------------------------------------------------
(* The authority.                                                            *)

\* A slip: the header is not passed on, and every call is news to the authority.
HeaderDropped(id) == None

\* A slip: one idempotency key for the page, and not one for each form.
KeyOfThePage(id) == 1

\* auth_json: the idempotency key of the request is the one the authority sees.
Header(id) == id

Seen(key) == IF key = None THEN FALSE ELSE done[key] # <<>>

\* The authority serves mutation `id` and answers with `answer`.
Serves(id, answer) ==
    LET key == Header(id) IN
        \/ /\ Seen(key)
           /\ answer = done[key][1]
           /\ UNCHANGED <<issued, done>>
        \/ /\ ~Seen(key)
           /\ TakesEffect(pressed[id], answer)
           /\ done' = IF key = None THEN done ELSE [done EXCEPT ![key] = <<answer>>]

----------------------------------------------------------------------------
(* The page and the JSON client.                                             *)

Submit(op, key, via) ==
    /\ Len(pressed) < MaxPresses
    /\ pressed' = Append(pressed, [op |-> op, key |-> key, via |-> via])
    /\ Goes(Len(pressed) + 1, "mutate")

\* A form of the page is used for the first time.
Press(f) ==
    /\ page.form[f] = None
    /\ f[2] # None => Active(page.rows, f[2])
    /\ Submit(f[1], f[2], page.load)
    /\ page' = [page EXCEPT !.form[f] = Len(pressed) + 1]
    /\ UNCHANGED <<issued, done, told, orphans>>

\* A JSON client issues a command under a key of its own.
Command(f) ==
    /\ f[2] # None => issued[f[2]].version > 0
    /\ Submit(f[1], f[2], Json)
    /\ UNCHANGED <<issued, done, told, page, orphans>>

\* The same form, still on the page, or the same command again.
Retry(id) ==
    /\ call[id].pc = "free"
    /\ pressed[id].via # Json => \E f \in Forms : page.form[f] = id
    /\ Goes(id, "mutate")
    /\ UNCHANGED <<issued, done, pressed, told, page, orphans>>

\* The page is loaded again and asks for its list: nobody waits for what was under way
\* for the old one, but a mutation that was sent may still be served.
Reload ==
    /\ page.load < MaxLoads
    /\ page' = PageLoaded(page.load + 1)
    /\ LET old == {None} \cup {id \in Ids : pressed[id].via # Json}
       IN /\ call' = [c \in DOMAIN call |-> IF c = None THEN Asks("list")
                                               ELSE IF c \in old THEN Free ELSE call[c]]
          /\ orphans' = orphans \cup {c \in old : call[c].pc = "mutate"}
    /\ UNCHANGED <<issued, done, pressed, told>>

----------------------------------------------------------------------------
(* The handlers.                                                             *)

Hears(c, answer) == told' = [told EXCEPT ![c] = <<answer>>]

\* issue_customer_api_key, rotate_ and revoke_customer_api_key_authority: a refusal
\* ends the request; otherwise a page goes on to its list, a JSON client is answered.
Mutate(c) ==
    /\ call[c].pc = "mutate"
    /\ \E answer \in Answers :
          /\ Serves(c, answer)
          /\ \/ answer = Refused /\ Ends(c) /\ UNCHANGED told
             \/ answer # Refused /\ pressed[c].via = Json /\ Ends(c) /\ Hears(c, answer)
             \/ /\ answer # Refused /\ pressed[c].via # Json
                /\ call' = [call EXCEPT ![c].pc = "list", ![c].answer = answer]
                /\ UNCHANGED told
    /\ UNCHANGED <<pressed, page, orphans>>

\* The request is refused before the call (session, CSRF, organization, form), the
\* authority is out of reach, or it acts and its answer is unusable; or, for a JSON
\* client, the answer of the handler is lost.
MutateFails(c) ==
    /\ call[c].pc = "mutate"
    /\ UNCHANGED <<issued, done>> \/ \E answer \in Answers : Serves(c, answer)
    /\ Ends(c)
    /\ UNCHANGED <<pressed, told, page, orphans>>

\* TimeoutLayer drops the handler while it waits for the authority.
Drop(c) ==
    /\ call[c].pc = "mutate"
    /\ orphans' = orphans \cup {c}
    /\ Ends(c)
    /\ UNCHANGED <<issued, done, pressed, told, page>>

\* What a dropped handler or a page that is gone had sent is served, or never arrives.
ServeOrphan(c) ==
    /\ c \in orphans
    /\ UNCHANGED <<issued, done>> \/ \E answer \in Answers : Serves(c, answer)
    /\ orphans' = orphans \ {c}
    /\ UNCHANGED <<pressed, told, page, call>>

\* A slip: the fragment shows the list the page had when the form was submitted.
ListOfThePage(c) == IF c = None THEN issued ELSE page.rows

\* api_keys_fragment_markup_for_org: the list is read after the mutation.
ListRead(c) == issued

List(c) ==
    /\ call[c].pc = "list"
    /\ call' = [call EXCEPT ![c].pc = "fragment", ![c].rows = ListRead(c)]
    /\ UNCHANGED <<issued, done, pressed, told, page, orphans>>

\* The list cannot be read, TimeoutLayer drops the handler here, or the fragment is
\* lost: no secret.  (An error is not shown: htmx does not swap it in.)
ListFails(c) ==
    /\ call[c].pc = "list"
    /\ Ends(c)
    /\ UNCHANGED <<issued, done, pressed, told, page, orphans>>

----------------------------------------------------------------------------
(* The answers.                                                              *)

\* A slip: the fragment takes the place of the whole page, the create form with it.
SwapsEverything(f) == None

\* A slip: the forms of the rows come with the key of the submission that is next.
SharesNextKey(f) == IF f[1] = "create" THEN page.form[f] ELSE Len(pressed) + 1

\* api_keys_table_markup: the forms of the rows come with the fragment, the create
\* form stays.
Swapped(f) == IF f[1] = "create" THEN page.form[f] ELSE None

\* The fragment is swapped in, with the secret of the mutation it answers.
DeliverFragment(c) ==
    /\ call[c].pc = "fragment"
    /\ page' = [page EXCEPT !.form = [f \in Forms |-> Swapped(f)], !.rows = call[c].rows]
    /\ IF c = None THEN UNCHANGED told ELSE Hears(c, call[c].answer)
    /\ Ends(c)
    /\ UNCHANGED <<issued, done, pressed, orphans>>

----------------------------------------------------------------------------
Init ==
    /\ LedgerInit
    /\ page = PageLoaded(1)
    /\ call = [c \in 0..MaxPresses |-> IF c = None THEN Asks("list") ELSE Free]
    /\ orphans = {}

Next ==
    \/ \E f \in Forms : Press(f) \/ Command(f)
    \/ \E id \in Ids :
          Retry(id) \/ Mutate(id) \/ MutateFails(id) \/ Drop(id) \/ ServeOrphan(id)
    \/ \E c \in Requests : List(c) \/ ListFails(c) \/ DeliverFragment(c)
    \/ Reload

Spec == Init /\ [][Next]_vars

\* A handler ends (TimeoutLayer); who has not been answered tries again, and of the
\* attempts some get through to the authority and some to the list.
Fairness(id) ==
    /\ WF_vars(id \in Ids /\ (MutateFails(id) \/ ListFails(id) \/ DeliverFragment(id)))
    /\ SF_vars(id \in Ids /\ told[id] = <<>> /\ Retry(id))
    /\ SF_vars(id \in Ids /\ Mutate(id))
    /\ SF_vars(List(id))

FairSpec == Spec /\ \A id \in 1..MaxPresses : Fairness(id)

----------------------------------------------------------------------------
\* main.rs:830-851, 874-882: through retries, lost and late answers, dropped handlers and
\* new loads of the page, a submission is carried out once at most, and who is told the
\* outcome is told that of the one time.
KeyLedgerImplemented == LedgerSpec

Asked(op, k) == {id \in Ids : pressed[id].op = op /\ (op = "create" \/ pressed[id].key = k)}

\* main.rs:830-851 and 877-879: however often a form or a command is repeated, and
\* whatever is still on its way from attempts that were given up, it takes effect
\* once: there are no more keys than were asked for, and no key was rotated more
\* often.
OneEffectEach ==
    /\ Cardinality({k \in KeyIds : issued[k].version > 0}) <= Already + Cardinality(Asked("create", None))
    /\ \A k \in KeyIds :
          issued[k].version > 0 => issued[k].version <= 1 + Cardinality(Asked("rotate", k))

\* main.rs:2083, 2141, 2166: the list of a fragment is read after the mutation it
\* answers: the secret shown belongs to a key in the list, at that version or an
\* older one, and the row of a key whose revocation was answered on this page is
\* not shown as active again by that answer.
ListFollowsMutation ==
    \A c \in Requests :
        LET a == call[c].answer
        IN call[c].pc = "fragment" /\ a # Refused =>
              /\ call[c].rows[a.key].version >= a.version
              /\ pressed[c].op = "revoke" => ~Active(call[c].rows, a.key)

\* main.rs:2245-2250: the plaintext is returned for this replay-safe request.  What a
\* request was told at any time is what its key's one mutation produced: no two
\* answers to it differ, and a version's secret is told to the request that made it
\* and to no other.
SecretsNeverMixed ==
    \A id, other \in Ids :
        /\ told[id] # <<>> => told[id] = done[id]
        /\ id # other /\ told[id] # <<>> /\ told[id] = told[other]
              => pressed[id].op = "revoke" \/ pressed[other].op = "revoke"

\* A creation submitted from the page that is still there, which the authority has not
\* refused, and whose secret has not been told.
Unanswered(id) ==
    IF id \in Ids
    THEN /\ pressed[id].op = "create" /\ pressed[id].via = page.load
         /\ told[id] = <<>> /\ done[id] # <<Refused>>
    ELSE FALSE

\* main.rs:2083: a creation whose secret was lost, because the list after it failed,
\* the handler was dropped or the answer never arrived, is not lost for good: as
\* long as the page stays, submitting the form again brings the secret.
CreationRecovers == \A id \in 1..MaxPresses : Unanswered(id) ~> ~Unanswered(id)
=============================================================================
