-------------------------------- MODULE Store --------------------------------
(***************************************************************************)
(* The customer's own rows in Postgres: the local user, the preferences,   *)
(* the observed sessions and the notifications (src/store.rs), as the      *)
(* handlers of src/main.rs use them.                                       *)
(*                                                                         *)
(* No handler opens a transaction: each statement is atomic by itself, and *)
(* between two statements of one request any statement of another may run. *)
(* What a request read it acts on later, whatever has changed since.  The  *)
(* unique key of users.supabase_user_id and the primary key of             *)
(* customer_preferences are the database's; nothing else serialises.       *)
(*                                                                         *)
(* Each request slot is used once, so that a row can name the request that *)
(* wrote it; the values a save carries are abstracted to that name.        *)
(***************************************************************************)
EXTENDS Naturals, FiniteSets

CONSTANTS
    Subjects,       \* Supabase identities
    Users,          \* ids a users row may get (bound)
    Requests,       \* requests ever made (bound)
    Devices,        \* session labels; several sessions may share one
    Sessions,       \* ids of customer_sessions rows (bound)
    Notes,          \* ids of customer_notifications rows (bound)
    Page,           \* DEFAULT_ACTIVITY_LIMIT: notifications on one page
    None

ASSUME StoreAssumption ==
    /\ None \notin Users \cup Requests \cup Sessions \cup Notes \cup Subjects
    /\ Page \in Nat

VARIABLES
    users,      \* the id of each subject's users row
    prefs,      \* per user, the request whose values the preferences row holds
    session,    \* the customer_sessions rows
    note,       \* the customer_notifications rows
    req

tables == <<users, prefs, session, note>>
vars == <<users, prefs, session, note, req>>

----------------------------------------------------------------------------
Kinds == {"save", "revoke", "read"}

\* The statements a handler waits for.
Statements == {"find", "insert", "refind", "look", "write", "list", "count"}

Unused == [pc |-> "idle", next |-> "look", kind |-> "none", sub |-> None, key |-> None,
           uid |-> None, target |-> None, answer |-> "none",
           shown |-> {}, counted |-> {}, faulted |-> FALSE]

\* next: what follows the lookup of the user, the operation or the refreshed
\* fragment.  target: the row the operation found.  shown, counted: the unread
\* notifications on the page, and the ones the badge counts.  faulted: history,
\* a statement of this request failed or was never answered.
RequestType ==
    [pc : Statements \cup {"idle", "done"}, next : {"look", "list"},
     kind : Kinds \cup {"none"}, sub : Subjects \cup {None},
     key : Devices \cup Notes \cup {None}, uid : Users \cup {None},
     target : Sessions \cup Notes \cup Users \cup {None},
     answer : {"none", "saved", "yes", "no", "error"},
     shown : SUBSET Notes, counted : SUBSET Notes, faulted : BOOLEAN]

SessionRow == [owner : Users, device : Devices, status : {"active", "revoked"}]
NoteRow == [owner : Users, readBy : Requests \cup {None}]

TypeOK ==
    /\ users \in [Subjects -> Users \cup {None}]
    /\ prefs \in [Users -> Requests \cup {None}]
    /\ DOMAIN session \subseteq Sessions
    /\ \A i \in DOMAIN session : session[i] \in SessionRow
    /\ DOMAIN note \subseteq Notes
    /\ \A n \in DOMAIN note : note[n] \in NoteRow
    /\ req \in [Requests -> RequestType]

\* A new row in a table that is a function from ids to rows.
With(table, id, row) == [i \in DOMAIN table \cup {id} |-> IF i = id THEN row ELSE table[i]]

Moves(r, q) == req' = [req EXCEPT ![r] = q]

\* A statement that changes no table.
Reads(r, q) == Moves(r, q) /\ UNCHANGED tables

At(r, statement) == req[r].pc = statement

Ends(r, answer) == [req[r] EXCEPT !.pc = "done", !.answer = answer]

----------------------------------------------------------------------------
(* caller_user_id and ensure_user.                                           *)

FindUser(r) ==
    /\ At(r, "find")
    /\ LET uid == users[req[r].sub] IN
          IF uid # None
          THEN Reads(r, [req[r] EXCEPT !.pc = req[r].next, !.uid = uid])
          ELSE Reads(r, [req[r] EXCEPT !.pc = "insert"])

FreshUsers == {u \in Users : \A s \in Subjects : users[s] # u}

\* Slips: an insert that loses the race is reported; or its own id is used.
InsertLosesRace(r) ==
    /\ At(r, "insert")
    /\ IF users[req[r].sub] = None
       THEN \E u \in FreshUsers :
               /\ users' = [users EXCEPT ![req[r].sub] = u]
               /\ Moves(r, [req[r] EXCEPT !.pc = req[r].next, !.uid = u])
       ELSE UNCHANGED users /\ Moves(r, Ends(r, "error"))
    /\ UNCHANGED <<prefs, session, note>>
InsertKeepsOwnId(r) ==
    /\ At(r, "insert")
    /\ \E u \in FreshUsers :
          /\ users' = IF users[req[r].sub] = None
                      THEN [users EXCEPT ![req[r].sub] = u] ELSE users
          /\ Moves(r, [req[r] EXCEPT !.pc = req[r].next, !.uid = u])
    /\ UNCHANGED <<prefs, session, note>>

\* The insert succeeds, or the unique key refuses it: then the row is looked up
\* again.
InsertUser(r) ==
    /\ At(r, "insert")
    /\ IF users[req[r].sub] = None
       THEN \E u \in FreshUsers :
               /\ users' = [users EXCEPT ![req[r].sub] = u]
               /\ Moves(r, [req[r] EXCEPT !.pc = req[r].next, !.uid = u])
       ELSE UNCHANGED users /\ Moves(r, [req[r] EXCEPT !.pc = "refind"])
    /\ UNCHANGED <<prefs, session, note>>

\* Any other error of the insert takes the same path, whether or not the row
\* was committed.
InsertUserFails(r) ==
    /\ At(r, "insert")
    /\ \/ UNCHANGED users
       \/ /\ users[req[r].sub] = None
          /\ \E u \in FreshUsers : users' = [users EXCEPT ![req[r].sub] = u]
    /\ Moves(r, [req[r] EXCEPT !.pc = "refind", !.faulted = TRUE])
    /\ UNCHANGED <<prefs, session, note>>

RefindUser(r) ==
    /\ At(r, "refind")
    /\ LET uid == users[req[r].sub] IN
          IF uid # None
          THEN Reads(r, [req[r] EXCEPT !.pc = req[r].next, !.uid = uid])
          ELSE Reads(r, Ends(r, "error"))

----------------------------------------------------------------------------
(* upsert_preferences, revoke_session, mark_notification_read.               *)

\* A slip: the rows are looked up by label or id alone.
AnyonesRows(r) ==
    IF req[r].kind = "revoke"
    THEN {i \in DOMAIN session : session[i].device = req[r].key /\ session[i].status # "revoked"}
    ELSE {n \in DOMAIN note \cap {req[r].key} : note[n].readBy = None}

\* The caller's rows that the operation would still change.
OpenRows(r) ==
    IF req[r].kind = "revoke"
    THEN {i \in DOMAIN session : /\ session[i].owner = req[r].uid
                                 /\ session[i].device = req[r].key
                                 /\ session[i].status # "revoked"}
    ELSE {n \in DOMAIN note \cap {req[r].key} :
                note[n].owner = req[r].uid /\ note[n].readBy = None}

\* What follows a revocation or a mark: a form's fragment is rendered afresh,
\* which looks the user up again; the JSON endpoint, for sessions only, replies.
Replies(r, answer) ==
    \/ Moves(r, [req[r] EXCEPT !.pc = "find", !.next = "list", !.answer = answer])
    \/ req[r].kind = "revoke" /\ Moves(r, Ends(r, answer))

\* The preferences row is looked for; only whether it exists matters later.
LookForPreferences(r) ==
    /\ At(r, "look")
    /\ req[r].kind = "save"
    /\ Reads(r, [req[r] EXCEPT !.pc = "write",
                    !.target = IF prefs[req[r].uid] # None THEN req[r].uid ELSE None])

\* One matching row is picked; with several sessions of one label, any.
LookForRow(r) ==
    /\ At(r, "look")
    /\ req[r].kind \in {"revoke", "read"}
    /\ \/ \E i \in OpenRows(r) : Reads(r, [req[r] EXCEPT !.pc = "write", !.target = i])
       \/ OpenRows(r) = {} /\ Replies(r, "no") /\ UNCHANGED tables

SavePreferences(r) == prefs' = [prefs EXCEPT ![req[r].uid] = r]

\* The insert of upsert_preferences meets a row made since the lookup.
Conflicts(r) == req[r].target = None /\ prefs[req[r].uid] # None

\* UPDATE by primary key of the row found, or INSERT if none was.
WritePreferences(r) ==
    /\ At(r, "write")
    /\ req[r].kind = "save"
    /\ \/ Conflicts(r) /\ UNCHANGED prefs /\ Moves(r, Ends(r, "error"))
       \/ ~Conflicts(r) /\ SavePreferences(r) /\ Moves(r, Ends(r, "saved"))
    /\ UNCHANGED <<users, session, note>>

\* Slips: the row is written back as it was read; the wrong column is set.
ClosesNothing(r) == UNCHANGED <<session, note>>
ClosesWrongColumn(r) ==
    IF req[r].kind = "revoke"
    THEN session' = [session EXCEPT ![req[r].target].owner = r] /\ UNCHANGED note
    ELSE note' = [note EXCEPT ![req[r].target].owner = r] /\ UNCHANGED session

\* UPDATE by primary key, of the one column set.
Closes(r) ==
    IF req[r].kind = "revoke"
    THEN session' = [session EXCEPT ![req[r].target].status = "revoked"] /\ UNCHANGED note
    ELSE note' = [note EXCEPT ![req[r].target].readBy = r] /\ UNCHANGED session

WriteRow(r) ==
    /\ At(r, "write")
    /\ req[r].kind \in {"revoke", "read"}
    /\ Closes(r)
    /\ Replies(r, "yes")
    /\ UNCHANGED <<users, prefs>>

\* The write was committed but its answer never arrives.
WriteUnheard(r) ==
    /\ At(r, "write")
    /\ IF req[r].kind = "save"
       THEN ~Conflicts(r) /\ SavePreferences(r) /\ UNCHANGED <<session, note>>
       ELSE Closes(r) /\ UNCHANGED prefs
    /\ Moves(r, [Ends(r, "error") EXCEPT !.faulted = TRUE])
    /\ UNCHANGED users

----------------------------------------------------------------------------
(* The refreshed fragment: sessions_fragment_markup, notifications_fragment_ *)
(* markup.                                                                   *)

UnreadOf(uid) == {n \in DOMAIN note : note[n].owner = uid /\ note[n].readBy = None}

\* list_notifications answers with a bounded page, list_sessions with the rows
\* themselves; then the unread notifications are counted, beyond the page too.
ListRows(r) ==
    /\ At(r, "list")
    /\ \/ req[r].kind = "revoke" /\ Reads(r, [req[r] EXCEPT !.pc = "done"])
       \/ /\ req[r].kind = "read"
          /\ LET mine == {n \in DOMAIN note : note[n].owner = req[r].uid}
             IN \E page \in SUBSET mine :
                   /\ Cardinality(page) <= Page
                   /\ Cardinality(mine) <= Page => page = mine
                   /\ Reads(r, [req[r] EXCEPT !.pc = "count",
                                              !.shown = page \cap UnreadOf(req[r].uid)])

CountUnread(r) ==
    /\ At(r, "count")
    /\ Reads(r, [req[r] EXCEPT !.pc = "done", !.counted = UnreadOf(req[r].uid)])

----------------------------------------------------------------------------
\* A request, past authentication and validation: save the preferences, revoke
\* the session with a label, mark a notification read.
Begin(r, kind, s, key) ==
    /\ At(r, "idle")
    /\ key \in (CASE kind = "save" -> {None} [] kind = "revoke" -> Devices [] kind = "read" -> Notes)
    /\ Reads(r, [Unused EXCEPT !.pc = "find", !.kind = kind, !.sub = s, !.key = key])

\* A statement fails without effect, or TimeoutLayer drops the handler: a 503
\* either way.  ensure_user's insert has its own path.
StatementFails(r) ==
    /\ req[r].pc \in Statements \ {"insert"}
    /\ Reads(r, [Ends(r, "error") EXCEPT !.faulted = TRUE])

\* A session is observed, a notification delivered (create_notification).
Observe(i, s, d) ==
    /\ i \notin DOMAIN session /\ users[s] # None
    /\ session' = With(session, i, [owner |-> users[s], device |-> d, status |-> "active"])
    /\ UNCHANGED <<users, prefs, note, req>>

create_notification(n, s) ==
    /\ n \notin DOMAIN note /\ users[s] # None
    /\ note' = With(note, n, [owner |-> users[s], readBy |-> None])
    /\ UNCHANGED <<users, prefs, session, req>>

Init ==
    /\ users = [s \in Subjects |-> None]
    /\ prefs = [u \in Users |-> None]
    /\ session = [i \in {} |-> None]
    /\ note = [n \in {} |-> None]
    /\ req = [r \in Requests |-> Unused]

Step(r) ==
    \/ FindUser(r) \/ InsertUser(r) \/ InsertUserFails(r) \/ RefindUser(r)
    \/ LookForPreferences(r) \/ LookForRow(r)
    \/ WritePreferences(r) \/ WriteRow(r) \/ WriteUnheard(r)
    \/ ListRows(r) \/ CountUnread(r) \/ StatementFails(r)

Next ==
    \/ \E r \in Requests : Step(r)
    \/ \E r \in Requests, k \in Kinds, s \in Subjects, key \in Devices \cup Notes \cup {None} :
          Begin(r, k, s, key)
    \/ \E i \in Sessions, s \in Subjects, d \in Devices : Observe(i, s, d)
    \/ \E n \in Notes, s \in Subjects : create_notification(n, s)

Spec == Init /\ [][Next]_vars

----------------------------------------------------------------------------
\* store.rs:22-52: however many first requests of a subject race, each acts on
\* the one users row the subject has, and no two subjects share a row.
OneUserRow ==
    /\ \A r \in Requests : req[r].uid # None => users[req[r].sub] = req[r].uid
    /\ \A s, t \in Subjects : s # t /\ users[s] # None => users[s] # users[t]

\* store.rs:42-50: losing a race is never an error of its own.  A request no
\* statement of which failed is refused in one case only: its first save of the
\* preferences met a row another request had just made, so a second try updates.
ErrorsHaveACause ==
    \A r \in Requests :
        req[r].answer = "error" /\ ~req[r].faulted =>
            /\ req[r].kind = "save"
            /\ req[r].uid \in Users /\ prefs[req[r].uid] \notin {None, r}

\* What a request was told stays true, whatever the others do: a revoked session
\* stays revoked, a read notification read, saved preferences present.
AnswersHold ==
    \A r \in Requests :
        /\ req[r].answer = "yes" /\ req[r].kind = "revoke" =>
               \E i \in DOMAIN session : /\ session[i].owner = req[r].uid
                                         /\ session[i].device = req[r].key
                                         /\ session[i].status = "revoked"
        /\ req[r].answer = "yes" /\ req[r].kind = "read" =>
               /\ req[r].key \in DOMAIN note
               /\ note[req[r].key].owner = req[r].uid
               /\ note[req[r].key].readBy # None
        /\ req[r].answer = "saved" => prefs[req[r].uid] # None

\* main.rs:2015-2053: the fragment that says "Notification marked read." neither
\* shows that notification as unread nor counts it in the badge.
ReadsOwnWrite ==
    \A r \in Requests :
        req[r].kind = "read" /\ req[r].answer = "yes" =>
            req[r].key \notin req[r].shown \cup req[r].counted

\* store.rs:137-140, 190-191: one user never touches another's rows.  A row
\* changes only in a step of a request of the row's owner.
OwnRowsOnly ==
    [][LET Acting(u) == \E r \in Requests :
              At(r, "write") /\ ~At(r, "write")' /\ users[req[r].sub] = u
       IN /\ \A i \in DOMAIN session : session'[i] # session[i] => Acting(session[i].owner)
          /\ \A n \in DOMAIN note : note'[n] # note[n] => Acting(note[n].owner)
          /\ \A u \in Users : prefs'[u] # prefs[u] => Acting(u)]_vars
=============================================================================
