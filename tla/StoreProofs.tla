----------------------------- MODULE StoreProofs -----------------------------
(***************************************************************************)
(* Theorems about Store, for any number of subjects, requests and rows:    *)
(* types, the one users row of a subject, answers that stay true, that     *)
(* nobody touches another's rows, and (with a second invariant, EInv) that *)
(* an error has a cause and a fragment agrees with what its request did.   *)
(*                                                                         *)
(* The tables only grow (Grows): an id, once given, stays; a row keeps its *)
(* owner; revoked and read are for good.  What a request holds of them     *)
(* (Facts) is of that kind, so no statement of another request can take it *)
(* away, and an action needs to be looked at for its own request only.     *)
(***************************************************************************)
EXTENDS Store, TLAPS

USE StoreAssumption

----------------------------------------------------------------------------
TablesOK ==
    /\ users \in [Subjects -> Users \cup {None}]
    /\ prefs \in [Users -> Requests \cup {None}]
    /\ DOMAIN session \subseteq Sessions
    /\ \A i \in DOMAIN session : session[i] \in SessionRow
    /\ DOMAIN note \subseteq Notes
    /\ \A n \in DOMAIN note : note[n] \in NoteRow
    /\ \A s, t \in Subjects : s # t /\ users[s] # None => users[s] # users[t]

\* What a request q knows of its user.
UserFacts(q, us) ==
    /\ q.pc # "idle" => q.sub \in Subjects /\ q.kind \in Kinds
    /\ q.uid # None => q.sub \in Subjects /\ us[q.sub] = q.uid
    /\ q.pc \in {"look", "write", "list", "count"} => q.uid # None

\* The row it is about to write is its user's, and what it asked for.
TargetFacts(q, se, no) ==
    q.pc = "write" =>
        /\ q.kind = "revoke" =>
               /\ q.target \in DOMAIN se
               /\ se[q.target].owner = q.uid /\ se[q.target].device = q.key
        /\ q.kind = "read" =>
               /\ q.target \in DOMAIN no
               /\ no[q.target].owner = q.uid /\ q.target = q.key

\* What it was told.
Revoked(q, se) ==
    \E i \in DOMAIN se : se[i].owner = q.uid /\ se[i].device = q.key /\ se[i].status = "revoked"
Read(q, no) ==
    q.key \in DOMAIN no /\ no[q.key].owner = q.uid /\ no[q.key].readBy # None

AnswerFacts(q, pr, se, no) ==
    /\ q.answer \in {"yes", "saved"} => q.uid # None
    /\ q.answer = "yes" /\ q.kind = "revoke" => Revoked(q, se)
    /\ q.answer = "yes" /\ q.kind = "read" => Read(q, no)
    /\ q.answer = "saved" => pr[q.uid] # None

Facts(q, us, pr, se, no) ==
    q \in RequestType /\ UserFacts(q, us) /\ TargetFacts(q, se, no) /\ AnswerFacts(q, pr, se, no)

IInv ==
    /\ TablesOK
    /\ req \in [Requests -> RequestType]
    /\ \A r \in Requests : Facts(req[r], users, prefs, session, note)

\* What no statement takes back.
Grows ==
    /\ \A s \in Subjects : users[s] # None => users'[s] = users[s]
    /\ \A u \in Users : prefs[u] # None => prefs'[u] # None
    /\ \A i \in DOMAIN session :
          /\ i \in DOMAIN session'
          /\ session'[i].owner = session[i].owner
          /\ session'[i].device = session[i].device
          /\ session[i].status = "revoked" => session'[i].status = "revoked"
    /\ \A n \in DOMAIN note :
          /\ n \in DOMAIN note'
          /\ note'[n].owner = note[n].owner
          /\ note[n].readBy # None => note'[n].readBy # None

----------------------------------------------------------------------------
\* Growth of the tables leaves a request what it knows.
LEMMA FactsStay ==
  ASSUME IInv, Grows, NEW q, Facts(q, users, prefs, session, note)
  PROVE  Facts(q, users', prefs', session', note')
  <1>1. UserFacts(q, users')
    BY DEF Facts, UserFacts, Grows
  <1>2. TargetFacts(q, session', note')
    BY DEF Facts, TargetFacts, Grows
  <1>3. q.answer = "yes" /\ q.kind = "revoke" => Revoked(q, session')
    BY DEF Facts, AnswerFacts, Revoked, Grows
  <1>4. q.answer = "yes" /\ q.kind = "read" => Read(q, note')
    BY DEF Facts, AnswerFacts, Read, Grows
  <1>5. q.answer = "saved" => prefs'[q.uid] # None
    BY DEF Facts, AnswerFacts, Grows, RequestType
  <1> QED
    BY <1>1, <1>2, <1>3, <1>4, <1>5 DEF Facts, AnswerFacts

\* A step of one request that leaves the tables in order and itself with its facts.
LEMMA RequestMoves ==
  ASSUME IInv, NEW r \in Requests, NEW q, Moves(r, q), Grows, TablesOK',
         Facts(q, users', prefs', session', note')
  PROVE  IInv' /\ Grows
  <1>1. req \in [Requests -> RequestType] /\ q \in RequestType
    BY DEF IInv, Facts
  <1>2. req' \in [Requests -> RequestType]
    BY <1>1 DEF Moves
  <1>3. ASSUME NEW c \in Requests
        PROVE  Facts(req'[c], users', prefs', session', note')
    <2>1. CASE c = r
      BY <1>1, <2>1 DEF Moves
    <2>2. CASE c # r
      <3>1. req'[c] = req[c]
        BY <1>1, <2>2 DEF Moves
      <3> QED
        BY <3>1, FactsStay DEF IInv
    <2> QED
      BY <2>1, <2>2
  <1> QED
    BY <1>2, <1>3 DEF IInv

LEMMA RowMoves ==
  ASSUME IInv, UNCHANGED req, Grows, TablesOK'
  PROVE  IInv' /\ Grows
  BY FactsStay DEF IInv

\* Tables that stay as they are grow.
LEMMA StillTables ==
  ASSUME IInv, UNCHANGED tables
  PROVE  Grows /\ TablesOK'
  BY DEF IInv, TablesOK, Grows, tables

LEMMA RequestFacts ==
  ASSUME IInv, NEW r \in Requests
  PROVE  /\ Facts(req[r], users, prefs, session, note)
         /\ req[r] \in RequestType
         /\ req[r].uid # None => req[r].uid \in Users
  BY DEF IInv, Facts, RequestType

\* A read leaves the reader what it knew and what it found.
LEMMA ReadMoves ==
  ASSUME IInv, NEW r \in Requests, NEW q, Reads(r, q),
         Facts(q, users, prefs, session, note)
  PROVE  IInv' /\ Grows
  <1>1. Grows /\ TablesOK' /\ Moves(r, q)
    BY StillTables DEF Reads
  <1>2. Facts(q, users', prefs', session', note')
    BY DEF Reads, tables
  <1> QED
    BY <1>1, <1>2, RequestMoves

\* What becomes of a request p that keeps its user and its operation.
Keeps(q, p) == q.sub = p.sub /\ q.kind = p.kind /\ q.key = p.key /\ q.uid = p.uid

LEMMA FactsKept ==
  ASSUME NEW us, NEW pr, NEW se, NEW no, NEW p, Facts(p, us, pr, se, no), p.pc # "idle",
         NEW q \in RequestType, Keeps(q, p), q.pc # "write",
         q.pc \in {"look", "list", "count"} => q.uid # None,
         \/ q.answer = p.answer
         \/ q.answer \notin {"yes", "saved"}
         \/ AnswerFacts(q, pr, se, no)
  PROVE  Facts(q, us, pr, se, no)
  <1>1. UserFacts(q, us)
    BY DEF Facts, UserFacts, Keeps
  <1>2. TargetFacts(q, se, no)
    BY DEF TargetFacts
  <1>3. AnswerFacts(q, pr, se, no)
    <2>1. Revoked(q, se) <=> Revoked(p, se)
      BY DEF Revoked, Keeps
    <2>2. Read(q, no) <=> Read(p, no)
      BY DEF Read, Keeps
    <2>3. CASE q.answer = p.answer
      BY <2>1, <2>2, <2>3 DEF Facts, AnswerFacts, Keeps
    <2>4. CASE q.answer \notin {"yes", "saved"}
      BY <2>4 DEF AnswerFacts
    <2> QED
      BY <2>3, <2>4
  <1> QED
    BY <1>1, <1>2, <1>3 DEF Facts

\* What an error leaves of a request, at fault or not.
LEMMA ErrorFacts ==
  ASSUME NEW us, NEW pr, NEW se, NEW no,
         NEW r \in Requests, Facts(req[r], us, pr, se, no), req[r].pc # "idle"
  PROVE  /\ Facts(Ends(r, "error"), us, pr, se, no)
         /\ Facts([Ends(r, "error") EXCEPT !.faulted = TRUE], us, pr, se, no)
  <1> DEFINE e == Ends(r, "error")
             f == [Ends(r, "error") EXCEPT !.faulted = TRUE]
  <1>1. req[r] \in RequestType
    BY DEF Facts
  <1>2. e \in RequestType /\ Keeps(e, req[r]) /\ e.pc = "done" /\ e.answer = "error"
    BY <1>1 DEF RequestType, Keeps, Ends
  <1>3. f \in RequestType /\ Keeps(f, req[r]) /\ f.pc = "done" /\ f.answer = "error"
    BY <1>1 DEF RequestType, Keeps, Ends
  <1> HIDE DEF e, f
  <1>4. Facts(e, us, pr, se, no) /\ Facts(f, us, pr, se, no)
    BY <1>2, <1>3, FactsKept
  <1> QED
    BY <1>4 DEF e, f

\* A request that learns its user's id; one that knew it learns the same.
LEMMA Learns ==
  ASSUME IInv, NEW r \in Requests, req[r].pc \in {"find", "insert", "refind"},
         NEW us, NEW u \in Users, us[req[r].sub] = u,
         users[req[r].sub] # None => u = users[req[r].sub]
  PROVE  Facts([req[r] EXCEPT !.pc = req[r].next, !.uid = u], us, prefs, session, note)
  <1> DEFINE q == [req[r] EXCEPT !.pc = req[r].next, !.uid = u]
  <1>1. Facts(req[r], users, prefs, session, note) /\ req[r] \in RequestType
    BY RequestFacts
  <1>2. q \in RequestType
    BY <1>1 DEF RequestType, Statements
  <1>3. /\ q.pc \in {"look", "list"} /\ q.uid = u /\ q.answer = req[r].answer
        /\ q.sub = req[r].sub /\ q.kind = req[r].kind /\ q.key = req[r].key
    BY <1>1 DEF RequestType
  <1>4. u # None
    OBVIOUS
  <1>5. req[r].sub \in Subjects /\ req[r].kind \in Kinds
    BY <1>1 DEF Facts, UserFacts
  <1>6. req[r].uid # None => req[r].uid = u
    BY <1>1 DEF Facts, UserFacts
  <1>7. UserFacts(q, us)
    BY <1>3, <1>4, <1>5 DEF UserFacts
  <1>8. TargetFacts(q, session, note)
    BY <1>3 DEF TargetFacts
  <1>9. AnswerFacts(q, prefs, session, note)
    <2>1. req[r].answer \in {"yes", "saved"} => req[r].uid = u
      BY <1>1, <1>6 DEF Facts, AnswerFacts
    <2> QED
      BY <1>1, <1>3, <1>4, <2>1 DEF Facts, AnswerFacts, Revoked, Read
  <1> HIDE DEF q
  <1>10. Facts(q, us, prefs, session, note)
    BY <1>2, <1>7, <1>8, <1>9 DEF Facts
  <1> QED
    BY <1>10 DEF q

----------------------------------------------------------------------------
LEMMA FindUserStep ==
  ASSUME IInv, NEW r \in Requests, FindUser(r)
  PROVE  IInv' /\ Grows
  <1>1. Facts(req[r], users, prefs, session, note) /\ req[r] \in RequestType /\ req[r].pc = "find"
    BY RequestFacts DEF FindUser, At
  <1>2. req[r].sub \in Subjects
    BY <1>1 DEF Facts, UserFacts
  <1>3. CASE users[req[r].sub] # None
    <2>1. users[req[r].sub] \in Users
      BY <1>2, <1>3 DEF IInv, TablesOK
    <2>2. Facts([req[r] EXCEPT !.pc = req[r].next, !.uid = users[req[r].sub]],
                users, prefs, session, note)
      BY <1>1, <2>1, Learns
    <2> QED
      BY <1>3, <2>2, ReadMoves DEF FindUser
  <1>4. CASE users[req[r].sub] = None
    <2> DEFINE q == [req[r] EXCEPT !.pc = "insert"]
    <2>1. q \in RequestType /\ Keeps(q, req[r]) /\ q.pc = "insert" /\ q.answer = req[r].answer
      BY <1>1 DEF RequestType, Statements, Keeps
    <2>2. Reads(r, q)
      BY <1>4 DEF FindUser
    <2> HIDE DEF q
    <2>3. Facts(q, users, prefs, session, note)
      BY <1>1, <2>1, FactsKept
    <2> QED
      BY <2>2, <2>3, ReadMoves
  <1> QED
    BY <1>3, <1>4

\* A users row made for a subject that had none.
LEMMA NewUser ==
  ASSUME IInv, NEW s \in Subjects, users[s] = None, NEW u \in FreshUsers,
         users' = [users EXCEPT ![s] = u], UNCHANGED <<prefs, session, note>>
  PROVE  Grows /\ TablesOK' /\ u \in Users /\ users'[s] = u
  <1>1. users \in [Subjects -> Users \cup {None}] /\ u \in Users
    BY DEF IInv, TablesOK, FreshUsers
  <1>2. \A t \in Subjects : users'[t] = IF t = s THEN u ELSE users[t]
    BY <1>1
  <1>3. users' \in [Subjects -> Users \cup {None}]
    BY <1>1
  <1>4. \A t, v \in Subjects : t # v /\ users'[t] # None => users'[t] # users'[v]
    BY <1>2 DEF IInv, TablesOK, FreshUsers
  <1>5. TablesOK'
    BY <1>3, <1>4 DEF IInv, TablesOK
  <1>6. Grows
    BY <1>2 DEF IInv, TablesOK, Grows
  <1> QED
    BY <1>1, <1>2, <1>5, <1>6

LEMMA InsertUserStep ==
  ASSUME IInv, NEW r \in Requests, InsertUser(r)
  PROVE  IInv' /\ Grows
  <1>1. Facts(req[r], users, prefs, session, note) /\ req[r] \in RequestType /\ req[r].pc = "insert"
    BY RequestFacts DEF InsertUser, At
  <1>2. req[r].sub \in Subjects
    BY <1>1 DEF Facts, UserFacts
  <1>3. CASE users[req[r].sub] = None
    <2>1. PICK u \in FreshUsers :
             /\ users' = [users EXCEPT ![req[r].sub] = u]
             /\ Moves(r, [req[r] EXCEPT !.pc = req[r].next, !.uid = u])
      BY <1>3 DEF InsertUser
    <2>2. UNCHANGED <<prefs, session, note>>
      BY DEF InsertUser
    <2>3. Grows /\ TablesOK' /\ u \in Users /\ users'[req[r].sub] = u
      BY <1>2, <1>3, <2>1, <2>2, NewUser
    <2>4. Facts([req[r] EXCEPT !.pc = req[r].next, !.uid = u], users', prefs, session, note)
      BY <1>1, <1>3, <2>3, Learns
    <2> QED
      BY <2>1, <2>2, <2>3, <2>4, RequestMoves
  <1>4. CASE users[req[r].sub] # None
    <2> DEFINE q == [req[r] EXCEPT !.pc = "refind"]
    <2>1. q \in RequestType /\ Keeps(q, req[r]) /\ q.pc = "refind" /\ q.answer = req[r].answer
      BY <1>1 DEF RequestType, Statements, Keeps
    <2>2. Reads(r, q)
      BY <1>4 DEF InsertUser, Reads, tables
    <2> HIDE DEF q
    <2>3. Facts(q, users, prefs, session, note)
      BY <1>1, <2>1, FactsKept
    <2> QED
      BY <2>2, <2>3, ReadMoves
  <1> QED
    BY <1>3, <1>4

LEMMA InsertUserFailsStep ==
  ASSUME IInv, NEW r \in Requests, InsertUserFails(r)
  PROVE  IInv' /\ Grows
  <1> DEFINE q == [req[r] EXCEPT !.pc = "refind", !.faulted = TRUE]
  <1>1. Facts(req[r], users, prefs, session, note) /\ req[r] \in RequestType /\ req[r].pc = "insert"
    BY RequestFacts DEF InsertUserFails, At
  <1>2. req[r].sub \in Subjects
    BY <1>1 DEF Facts, UserFacts
  <1>3. q \in RequestType /\ Keeps(q, req[r]) /\ q.pc = "refind" /\ q.answer = req[r].answer
    BY <1>1 DEF RequestType, Statements, Keeps
  <1>4. Moves(r, q) /\ UNCHANGED <<prefs, session, note>>
    BY DEF InsertUserFails
  <1>5. Grows /\ TablesOK'
    <2>1. CASE UNCHANGED users
      BY <1>4, <2>1, StillTables DEF tables
    <2>2. CASE users[req[r].sub] = None
                 /\ \E u \in FreshUsers : users' = [users EXCEPT ![req[r].sub] = u]
      BY <1>2, <1>4, <2>2, NewUser
    <2> QED
      BY <2>1, <2>2 DEF InsertUserFails
  <1> HIDE DEF q
  <1>6. Facts(q, users', prefs', session', note')
    <2>1. Facts(req[r], users', prefs', session', note')
      BY <1>1, <1>5, FactsStay
    <2> QED
      BY <1>1, <1>3, <2>1, FactsKept
  <1> QED
    BY <1>4, <1>5, <1>6, RequestMoves

LEMMA RefindUserStep ==
  ASSUME IInv, NEW r \in Requests, RefindUser(r)
  PROVE  IInv' /\ Grows
  <1>1. Facts(req[r], users, prefs, session, note) /\ req[r] \in RequestType /\ req[r].pc = "refind"
    BY RequestFacts DEF RefindUser, At
  <1>2. req[r].sub \in Subjects
    BY <1>1 DEF Facts, UserFacts
  <1>3. CASE users[req[r].sub] # None
    <2>1. users[req[r].sub] \in Users
      BY <1>2, <1>3 DEF IInv, TablesOK
    <2>2. Facts([req[r] EXCEPT !.pc = req[r].next, !.uid = users[req[r].sub]],
                users, prefs, session, note)
      BY <1>1, <2>1, Learns
    <2> QED
      BY <1>3, <2>2, ReadMoves DEF RefindUser
  <1>4. CASE users[req[r].sub] = None
    <2>1. Reads(r, Ends(r, "error"))
      BY <1>4 DEF RefindUser
    <2>2. Facts(Ends(r, "error"), users, prefs, session, note)
      BY <1>1, ErrorFacts
    <2> QED
      BY <2>1, <2>2, ReadMoves
  <1> QED
    BY <1>3, <1>4

----------------------------------------------------------------------------
\* The two answers to a revocation or a mark, given what must be true by then.
LEMMA RepliesFacts ==
  ASSUME NEW us, NEW pr, NEW se, NEW no,
         NEW r \in Requests, Facts(req[r], us, pr, se, no), req[r].pc # "idle",
         req[r].uid # None, NEW a \in {"yes", "no"},
         a = "yes" /\ req[r].kind = "revoke" => Revoked(req[r], se),
         a = "yes" /\ req[r].kind = "read" => Read(req[r], no),
         Replies(r, a)
  PROVE  \E q : Moves(r, q) /\ Facts(q, us, pr, se, no)
  <1> DEFINE p == req[r]
             f == [req[r] EXCEPT !.pc = "find", !.next = "list", !.answer = a]
             e == Ends(r, a)
  <1>1. p \in RequestType
    BY DEF Facts
  <1>2. f \in RequestType /\ Keeps(f, p) /\ f.pc = "find" /\ f.answer = a
    <2>1. f \in RequestType
      BY <1>1 DEF RequestType, Statements
    <2>2. Keeps(f, p) /\ f.pc = "find" /\ f.answer = a
      BY <1>1 DEF RequestType, Keeps
    <2> QED
      BY <2>1, <2>2
  <1>3. e \in RequestType /\ Keeps(e, p) /\ e.pc = "done" /\ e.answer = a
    BY <1>1 DEF RequestType, Keeps, Ends
  <1> HIDE DEF f, e
  <1>4. ASSUME NEW q, Keeps(q, p), q.answer = a
        PROVE  AnswerFacts(q, pr, se, no)
    BY <1>4 DEF AnswerFacts, Keeps, Revoked, Read
  <1>5. Facts(f, us, pr, se, no) /\ Facts(e, us, pr, se, no)
    BY <1>2, <1>3, <1>4, FactsKept
  <1>6. Moves(r, f) \/ Moves(r, e)
    BY DEF Replies, f, e
  <1> QED
    BY <1>5, <1>6

LEMMA LookForPreferencesStep ==
  ASSUME IInv, NEW r \in Requests, LookForPreferences(r)
  PROVE  IInv' /\ Grows
  <1> DEFINE t == IF prefs[req[r].uid] # None THEN req[r].uid ELSE None
             q == [req[r] EXCEPT !.pc = "write", !.target = t]
  <1>1. /\ Facts(req[r], users, prefs, session, note) /\ req[r] \in RequestType
        /\ req[r].pc = "look" /\ req[r].kind = "save"
    BY RequestFacts DEF LookForPreferences, At
  <1>2. t \in Users \cup {None}
    BY <1>1 DEF RequestType
  <1> HIDE DEF t
  <1>3. /\ q \in RequestType /\ Keeps(q, req[r])
        /\ q.pc = "write" /\ q.kind = "save" /\ q.answer = req[r].answer
    BY <1>1, <1>2 DEF RequestType, Statements, Keeps
  <1>4. Reads(r, q)
    BY DEF LookForPreferences, t
  <1> HIDE DEF q
  <1>5. UserFacts(q, users) /\ TargetFacts(q, session, note)
    BY <1>1, <1>3 DEF Facts, UserFacts, TargetFacts, Keeps
  <1>6. AnswerFacts(q, prefs, session, note)
    BY <1>1, <1>3 DEF Facts, AnswerFacts, Keeps
  <1>7. Facts(q, users, prefs, session, note)
    BY <1>3, <1>5, <1>6 DEF Facts
  <1> QED
    BY <1>4, <1>7, ReadMoves

LEMMA LookForRowStep ==
  ASSUME IInv, NEW r \in Requests, LookForRow(r)
  PROVE  IInv' /\ Grows
  <1>1. /\ Facts(req[r], users, prefs, session, note) /\ req[r] \in RequestType
        /\ req[r].pc = "look" /\ req[r].kind \in {"revoke", "read"}
    BY RequestFacts DEF LookForRow, At
  <1>2. req[r].uid # None
    BY <1>1 DEF Facts, UserFacts
  <1>3. ASSUME NEW i \in OpenRows(r), Reads(r, [req[r] EXCEPT !.pc = "write", !.target = i])
        PROVE  IInv' /\ Grows
    <2> DEFINE q == [req[r] EXCEPT !.pc = "write", !.target = i]
    <2>1. i \in Sessions \cup Notes
      BY DEF OpenRows, IInv, TablesOK
    <2>2. /\ q \in RequestType /\ Keeps(q, req[r])
          /\ q.pc = "write" /\ q.target = i /\ q.answer = req[r].answer
      BY <1>1, <2>1 DEF RequestType, Statements, Keeps
    <2> HIDE DEF q
    <2>3. UserFacts(q, users)
      BY <1>1, <1>2, <2>2 DEF Facts, UserFacts, Keeps
    <2>4. TargetFacts(q, session, note)
      BY <1>1, <2>2 DEF TargetFacts, Keeps, OpenRows
    <2>5. AnswerFacts(q, prefs, session, note)
      BY <1>1, <2>2 DEF Facts, AnswerFacts, Keeps, Revoked, Read
    <2>6. Facts(q, users, prefs, session, note)
      BY <2>2, <2>3, <2>4, <2>5 DEF Facts
    <2> QED
      BY <1>3, <2>6, ReadMoves DEF q
  <1>4. CASE Replies(r, "no") /\ UNCHANGED tables
    <2>1. PICK q : Moves(r, q) /\ Facts(q, users, prefs, session, note)
      BY <1>1, <1>2, <1>4, RepliesFacts
    <2> QED
      BY <1>4, <2>1, ReadMoves DEF Reads
  <1> QED
    BY <1>3, <1>4 DEF LookForRow

----------------------------------------------------------------------------
LEMMA SavesPreferences ==
  ASSUME IInv, NEW r \in Requests, req[r].uid \in Users,
         SavePreferences(r), UNCHANGED <<users, session, note>>
  PROVE  Grows /\ TablesOK' /\ prefs'[req[r].uid] # None
  <1>1. prefs \in [Users -> Requests \cup {None}] /\ r # None
    BY DEF IInv, TablesOK
  <1>2. /\ prefs' \in [Users -> Requests \cup {None}]
        /\ \A u \in Users : prefs'[u] = IF u = req[r].uid THEN r ELSE prefs[u]
    BY <1>1 DEF SavePreferences
  <1> QED
    BY <1>1, <1>2 DEF IInv, TablesOK, Grows

\* Closing a row takes nothing back, and closes what was asked for.
LEMMA ClosesRow ==
  ASSUME IInv, NEW r \in Requests, req[r].pc = "write", req[r].kind \in {"revoke", "read"},
         Closes(r), UNCHANGED <<users, prefs>>
  PROVE  /\ Grows /\ TablesOK'
         /\ req[r].kind = "revoke" => Revoked(req[r], session')
         /\ req[r].kind = "read" => Read(req[r], note')
  <1> DEFINE t == req[r].target
  <1>1. TargetFacts(req[r], session, note)
    BY RequestFacts DEF Facts
  <1>2. CASE req[r].kind = "revoke"
    <2>1. t \in DOMAIN session /\ session[t].owner = req[r].uid /\ session[t].device = req[r].key
      BY <1>1, <1>2 DEF TargetFacts
    <2>2. session' = [session EXCEPT ![t].status = "revoked"] /\ UNCHANGED note
      BY <1>2 DEF Closes
    <2>3. /\ DOMAIN session' = DOMAIN session
          /\ \A i \in DOMAIN session :
                session'[i] = IF i = t THEN [session[i] EXCEPT !.status = "revoked"] ELSE session[i]
      BY <2>1, <2>2
    <2>4. \A i \in DOMAIN session : session[i] \in SessionRow
      BY DEF IInv, TablesOK
    <2>5. \A i \in DOMAIN session :
             /\ session'[i] \in SessionRow
             /\ session'[i].owner = session[i].owner
             /\ session'[i].device = session[i].device
             /\ session[i].status = "revoked" \/ i = t => session'[i].status = "revoked"
      BY <2>3, <2>4 DEF SessionRow
    <2>6. Grows /\ TablesOK'
      BY <2>2, <2>3, <2>5 DEF IInv, TablesOK, Grows
    <2>7. Revoked(req[r], session')
      BY <2>1, <2>3, <2>5 DEF Revoked
    <2> QED
      BY <1>2, <2>6, <2>7
  <1>3. CASE req[r].kind = "read"
    <2>1. t \in DOMAIN note /\ note[t].owner = req[r].uid /\ t = req[r].key
      BY <1>1, <1>3 DEF TargetFacts
    <2>2. note' = [note EXCEPT ![t].readBy = r] /\ UNCHANGED session
      BY <1>3 DEF Closes
    <2>3. /\ DOMAIN note' = DOMAIN note
          /\ \A n \in DOMAIN note :
                note'[n] = IF n = t THEN [note[n] EXCEPT !.readBy = r] ELSE note[n]
      BY <2>1, <2>2
    <2>4. (\A n \in DOMAIN note : note[n] \in NoteRow) /\ r # None
      BY DEF IInv, TablesOK
    <2>5. \A n \in DOMAIN note :
             /\ note'[n] \in NoteRow
             /\ note'[n].owner = note[n].owner
             /\ note[n].readBy # None \/ n = t => note'[n].readBy # None
      BY <2>3, <2>4 DEF NoteRow
    <2>6. Grows /\ TablesOK'
      BY <2>2, <2>3, <2>5 DEF IInv, TablesOK, Grows
    <2>7. Read(req[r], note')
      BY <2>1, <2>3, <2>5 DEF Read
    <2> QED
      BY <1>3, <2>6, <2>7
  <1> QED
    BY <1>2, <1>3

LEMMA WritePreferencesStep ==
  ASSUME IInv, NEW r \in Requests, WritePreferences(r)
  PROVE  IInv' /\ Grows
  <1>1. /\ Facts(req[r], users, prefs, session, note) /\ req[r] \in RequestType
        /\ req[r].pc = "write" /\ req[r].kind = "save"
    BY RequestFacts DEF WritePreferences, At
  <1>2. req[r].uid # None /\ req[r].uid \in Users
    BY <1>1 DEF Facts, UserFacts, RequestType
  <1>3. CASE UNCHANGED prefs /\ Moves(r, Ends(r, "error"))
    <2>1. Reads(r, Ends(r, "error"))
      BY <1>3 DEF WritePreferences, Reads, tables
    <2> QED
      BY <1>1, <2>1, ErrorFacts, ReadMoves
  <1>4. CASE SavePreferences(r) /\ Moves(r, Ends(r, "saved"))
    <2> DEFINE q == Ends(r, "saved")
    <2>1. Grows /\ TablesOK' /\ prefs'[req[r].uid] # None
      BY <1>2, <1>4, SavesPreferences DEF WritePreferences
    <2>2. Facts(req[r], users', prefs', session', note')
      BY <1>1, <2>1, FactsStay
    <2>3. q \in RequestType /\ Keeps(q, req[r]) /\ q.pc = "done" /\ q.answer = "saved"
      BY <1>1 DEF RequestType, Keeps, Ends
    <2> HIDE DEF q
    <2>4. AnswerFacts(q, prefs', session', note')
      BY <1>2, <2>1, <2>3 DEF AnswerFacts, Keeps
    <2>5. Facts(q, users', prefs', session', note')
      BY <1>1, <2>2, <2>3, <2>4, FactsKept
    <2> QED
      BY <1>4, <2>1, <2>5, RequestMoves DEF q
  <1> QED
    BY <1>3, <1>4 DEF WritePreferences

LEMMA WriteRowStep ==
  ASSUME IInv, NEW r \in Requests, WriteRow(r)
  PROVE  IInv' /\ Grows
  <1>1. /\ Facts(req[r], users, prefs, session, note) /\ req[r] \in RequestType
        /\ req[r].pc = "write" /\ req[r].kind \in {"revoke", "read"}
    BY RequestFacts DEF WriteRow, At
  <1>2. req[r].uid # None
    BY <1>1 DEF Facts, UserFacts
  <1>3. /\ Grows /\ TablesOK'
        /\ req[r].kind = "revoke" => Revoked(req[r], session')
        /\ req[r].kind = "read" => Read(req[r], note')
    BY <1>1, ClosesRow DEF WriteRow
  <1>4. Facts(req[r], users', prefs', session', note')
    BY <1>1, <1>3, FactsStay
  <1>5. PICK q : Moves(r, q) /\ Facts(q, users', prefs', session', note')
    <2>1. Replies(r, "yes")
      BY DEF WriteRow
    <2> QED
      BY <1>1, <1>2, <1>3, <1>4, <2>1, RepliesFacts
  <1> QED
    BY <1>3, <1>5, RequestMoves

LEMMA WriteUnheardStep ==
  ASSUME IInv, NEW r \in Requests, WriteUnheard(r)
  PROVE  IInv' /\ Grows
  <1>1. /\ Facts(req[r], users, prefs, session, note) /\ req[r] \in RequestType
        /\ req[r].pc = "write"
    BY RequestFacts DEF WriteUnheard, At
  <1>2. req[r].uid \in Users /\ req[r].kind \in Kinds
    BY <1>1 DEF Facts, UserFacts, RequestType
  <1>3. Grows /\ TablesOK'
    <2>1. CASE req[r].kind = "save"
      BY <1>2, <2>1, SavesPreferences DEF WriteUnheard
    <2>2. CASE req[r].kind \in {"revoke", "read"}
      BY <1>1, <2>2, ClosesRow DEF WriteUnheard
    <2> QED
      BY <1>2, <2>1, <2>2 DEF Kinds
  <1>4. Facts(req[r], users', prefs', session', note')
    BY <1>1, <1>3, FactsStay
  <1>5. Facts([Ends(r, "error") EXCEPT !.faulted = TRUE], users', prefs', session', note')
    BY <1>1, <1>4, ErrorFacts
  <1> QED
    BY <1>3, <1>5, RequestMoves DEF WriteUnheard

----------------------------------------------------------------------------
LEMMA ListRowsStep ==
  ASSUME IInv, NEW r \in Requests, ListRows(r)
  PROVE  IInv' /\ Grows
  <1>1. /\ Facts(req[r], users, prefs, session, note) /\ req[r] \in RequestType
        /\ req[r].pc = "list" /\ req[r].uid # None
    BY RequestFacts DEF ListRows, At, Facts, UserFacts
  <1>2. CASE Reads(r, [req[r] EXCEPT !.pc = "done"])
    <2> DEFINE q == [req[r] EXCEPT !.pc = "done"]
    <2>1. q \in RequestType /\ Keeps(q, req[r]) /\ q.pc = "done" /\ q.answer = req[r].answer
      BY <1>1 DEF RequestType, Keeps
    <2> HIDE DEF q
    <2>2. Facts(q, users, prefs, session, note)
      BY <1>1, <2>1, FactsKept
    <2> QED
      BY <1>2, <2>2, ReadMoves DEF q
  <1>3. ASSUME NEW page \in SUBSET {n \in DOMAIN note : note[n].owner = req[r].uid},
               Reads(r, [req[r] EXCEPT !.pc = "count", !.shown = page \cap UnreadOf(req[r].uid)])
        PROVE  IInv' /\ Grows
    <2> DEFINE x == page \cap UnreadOf(req[r].uid)
               q == [req[r] EXCEPT !.pc = "count", !.shown = x]
    <2>1. x \subseteq Notes
      BY DEF UnreadOf, IInv, TablesOK
    <2> HIDE DEF x
    <2>2. q \in RequestType /\ Keeps(q, req[r]) /\ q.pc = "count" /\ q.answer = req[r].answer
      BY <1>1, <2>1 DEF RequestType, Statements, Keeps
    <2>3. Reads(r, q)
      BY <1>3 DEF x
    <2> HIDE DEF q
    <2>4. Facts(q, users, prefs, session, note)
      BY <1>1, <2>2, FactsKept DEF Keeps
    <2> QED
      BY <2>3, <2>4, ReadMoves
  <1> QED
    BY <1>2, <1>3 DEF ListRows

LEMMA CountUnreadStep ==
  ASSUME IInv, NEW r \in Requests, CountUnread(r)
  PROVE  IInv' /\ Grows
  <1> DEFINE x == UnreadOf(req[r].uid)
             q == [req[r] EXCEPT !.pc = "done", !.counted = x]
  <1>1. /\ Facts(req[r], users, prefs, session, note) /\ req[r] \in RequestType
        /\ req[r].pc = "count"
    BY RequestFacts DEF CountUnread, At
  <1>2. x \subseteq Notes
    BY DEF UnreadOf, IInv, TablesOK
  <1> HIDE DEF x
  <1>3. q \in RequestType /\ Keeps(q, req[r]) /\ q.pc = "done" /\ q.answer = req[r].answer
    BY <1>1, <1>2 DEF RequestType, Keeps
  <1>4. Reads(r, q)
    BY DEF CountUnread, x
  <1> HIDE DEF q
  <1>5. Facts(q, users, prefs, session, note)
    BY <1>1, <1>3, FactsKept
  <1> QED
    BY <1>4, <1>5, ReadMoves

LEMMA StatementFailsStep ==
  ASSUME IInv, NEW r \in Requests, StatementFails(r)
  PROVE  IInv' /\ Grows
  <1>1. Facts(req[r], users, prefs, session, note) /\ req[r].pc # "idle"
    BY RequestFacts DEF StatementFails, Statements
  <1> QED
    BY <1>1, ErrorFacts, ReadMoves DEF StatementFails

LEMMA BeginStep ==
  ASSUME IInv, NEW r \in Requests, NEW k \in Kinds, NEW s \in Subjects,
         NEW key \in Devices \cup Notes \cup {None}, Begin(r, k, s, key)
  PROVE  IInv' /\ Grows
  <1> DEFINE q == [Unused EXCEPT !.pc = "find", !.kind = k, !.sub = s, !.key = key]
  <1>1. q \in RequestType
    BY DEF Unused, RequestType, Statements
  <1>2. q.pc = "find" /\ q.kind = k /\ q.sub = s /\ q.uid = None /\ q.answer = "none"
    BY DEF Unused
  <1>3. Reads(r, q)
    BY DEF Begin
  <1> HIDE DEF q
  <1>4. Facts(q, users, prefs, session, note)
    BY <1>1, <1>2 DEF Facts, UserFacts, TargetFacts, AnswerFacts
  <1> QED
    BY <1>3, <1>4, ReadMoves

LEMMA ObserveStep ==
  ASSUME IInv, NEW i \in Sessions, NEW s \in Subjects, NEW d \in Devices, Observe(i, s, d)
  PROVE  IInv' /\ Grows
  <1> DEFINE row == [owner |-> users[s], device |-> d, status |-> "active"]
  <1>1. row \in SessionRow
    BY DEF Observe, IInv, TablesOK, SessionRow
  <1> HIDE DEF row
  <1>2. /\ DOMAIN session' = DOMAIN session \cup {i}
        /\ \A j \in DOMAIN session' : session'[j] = IF j = i THEN row ELSE session[j]
    BY DEF Observe, With, row
  <1>3. i \notin DOMAIN session /\ UNCHANGED <<users, prefs, note, req>>
    BY DEF Observe
  <1>4. TablesOK'
    BY <1>1, <1>2, <1>3 DEF IInv, TablesOK
  <1>5. Grows
    BY <1>2, <1>3 DEF Grows
  <1> QED
    BY <1>3, <1>4, <1>5, RowMoves

LEMMA NotificationStep ==
  ASSUME IInv, NEW n \in Notes, NEW s \in Subjects, create_notification(n, s)
  PROVE  IInv' /\ Grows
  <1> DEFINE row == [owner |-> users[s], readBy |-> None]
  <1>1. row \in NoteRow
    BY DEF create_notification, IInv, TablesOK, NoteRow
  <1> HIDE DEF row
  <1>2. /\ DOMAIN note' = DOMAIN note \cup {n}
        /\ \A m \in DOMAIN note' : note'[m] = IF m = n THEN row ELSE note[m]
    BY DEF create_notification, With, row
  <1>3. n \notin DOMAIN note /\ UNCHANGED <<users, prefs, session, req>>
    BY DEF create_notification
  <1>4. TablesOK'
    BY <1>1, <1>2, <1>3 DEF IInv, TablesOK
  <1>5. Grows
    BY <1>2, <1>3 DEF Grows
  <1> QED
    BY <1>3, <1>4, <1>5, RowMoves

----------------------------------------------------------------------------
LEMMA InitIInv == Init => IInv
  <1> SUFFICES ASSUME Init PROVE IInv
    OBVIOUS
  <1>1. TablesOK
    BY DEF Init, TablesOK
  <1>2. Unused \in RequestType
    BY DEF Unused, RequestType
  <1>3. req = [r \in Requests |-> Unused]
    BY DEF Init
  <1>4. Unused.pc = "idle" /\ Unused.uid = None /\ Unused.answer = "none"
    BY DEF Unused
  <1>5. Facts(Unused, users, prefs, session, note)
    BY <1>2, <1>4 DEF Facts, UserFacts, TargetFacts, AnswerFacts
  <1> QED
    BY <1>1, <1>2, <1>3, <1>5 DEF IInv

LEMMA NextIInv == IInv /\ [Next]_vars => IInv' /\ Grows
  <1> SUFFICES ASSUME IInv, [Next]_vars PROVE IInv' /\ Grows
    OBVIOUS
  <1>1. ASSUME NEW r \in Requests, Step(r) PROVE IInv' /\ Grows
    BY <1>1, FindUserStep, InsertUserStep, InsertUserFailsStep, RefindUserStep,
       LookForPreferencesStep, LookForRowStep, WritePreferencesStep, WriteRowStep,
       WriteUnheardStep, ListRowsStep, CountUnreadStep, StatementFailsStep DEF Step
  <1>2. CASE UNCHANGED vars
    <2>1. UNCHANGED req /\ UNCHANGED tables
      BY <1>2 DEF vars, tables
    <2> QED
      BY <2>1, StillTables, RowMoves
  <1> QED
    BY <1>1, <1>2, BeginStep, ObserveStep, NotificationStep DEF Next

\* Every reachable state has its tables in order and its requests their facts.
THEOREM Invariance == Spec => []IInv
  BY InitIInv, NextIInv, PTL DEF Spec

\* Every variable keeps its type, whatever the interleaving of statements.
THEOREM Types == Spec => []TypeOK
  <1>1. IInv => TypeOK
    BY DEF IInv, TablesOK, TypeOK
  <1> QED
    BY <1>1, Invariance, PTL

\* store.rs:22-52: first requests of one subject may race as they like, each ends
\* up with the one users row of the subject.
THEOREM UserRowIsOne == Spec => []OneUserRow
  <1>1. IInv => OneUserRow
    BY DEF IInv, TablesOK, OneUserRow, Facts, UserFacts
  <1> QED
    BY <1>1, Invariance, PTL

\* store.rs:121-225: what a handler has answered no later statement makes untrue.
THEOREM AnswersStayTrue == Spec => []AnswersHold
  <1>1. IInv => AnswersHold
    BY RequestFacts DEF AnswersHold, Facts, AnswerFacts, Revoked, Read
  <1> QED
    BY <1>1, Invariance, PTL

----------------------------------------------------------------------------
(* Nobody touches another's rows.                                            *)

Acting(u) == \E r \in Requests : At(r, "write") /\ ~At(r, "write")' /\ users[req[r].sub] = u

NobodyElses ==
    /\ \A i \in DOMAIN session : session'[i] # session[i] => Acting(session[i].owner)
    /\ \A n \in DOMAIN note : note'[n] # note[n] => Acting(note[n].owner)
    /\ \A u \in Users : prefs'[u] # prefs[u] => Acting(u)

\* The request that writes acts for the user of its subject.
LEMMA Writer ==
  ASSUME IInv, NEW r \in Requests, At(r, "write"),
         NEW q, Moves(r, q), q.pc # "write"
  PROVE  req[r].uid \in Users /\ Acting(req[r].uid)
  <1>1. Facts(req[r], users, prefs, session, note) /\ req[r] \in RequestType /\ req[r].pc = "write"
    BY RequestFacts DEF At
  <1>2. req[r].uid \in Users /\ users[req[r].sub] = req[r].uid
    BY <1>1 DEF Facts, UserFacts, RequestType
  <1>3. req'[r].pc # "write"
    BY DEF IInv, Moves
  <1> QED
    BY <1>2, <1>3 DEF Acting, At

LEMMA RepliesLeave ==
  ASSUME IInv, NEW r \in Requests, NEW a, Replies(r, a) \/ Moves(r, Ends(r, a))
                   \/ Moves(r, [Ends(r, a) EXCEPT !.faulted = TRUE])
  PROVE  \E q : Moves(r, q) /\ q.pc # "write"
  <1>1. req[r] \in RequestType
    BY RequestFacts
  <1>2. /\ [req[r] EXCEPT !.pc = "find", !.next = "list", !.answer = a].pc = "find"
        /\ Ends(r, a).pc = "done"
        /\ [Ends(r, a) EXCEPT !.faulted = TRUE].pc = "done"
    BY <1>1 DEF RequestType, Ends
  <1> QED
    BY <1>2 DEF Replies

LEMMA SavesOwn ==
  ASSUME IInv, NEW r \in Requests, Acting(req[r].uid), SavePreferences(r),
         UNCHANGED <<session, note>>
  PROVE  NobodyElses
  <1>1. \A u \in Users : prefs'[u] # prefs[u] => u = req[r].uid
    BY DEF SavePreferences, IInv, TablesOK
  <1> QED
    BY <1>1 DEF NobodyElses

LEMMA ClosesOwn ==
  ASSUME IInv, NEW r \in Requests, req[r].pc = "write", req[r].kind \in {"revoke", "read"},
         Acting(req[r].uid), Closes(r), UNCHANGED prefs
  PROVE  NobodyElses
  <1>1. TargetFacts(req[r], session, note)
    BY RequestFacts DEF Facts
  <1>2. CASE req[r].kind = "revoke"
    <2>1. req[r].target \in DOMAIN session /\ session[req[r].target].owner = req[r].uid
      BY <1>1, <1>2 DEF TargetFacts
    <2>2. \A i \in DOMAIN session : session'[i] # session[i] => i = req[r].target
      BY <1>2, <2>1 DEF Closes
    <2>3. UNCHANGED note
      BY <1>2 DEF Closes
    <2> QED
      BY <2>1, <2>2, <2>3 DEF NobodyElses
  <1>3. CASE req[r].kind = "read"
    <2>1. req[r].target \in DOMAIN note /\ note[req[r].target].owner = req[r].uid
      BY <1>1, <1>3 DEF TargetFacts
    <2>2. \A n \in DOMAIN note : note'[n] # note[n] => n = req[r].target
      BY <1>3, <2>1 DEF Closes
    <2>3. UNCHANGED session
      BY <1>3 DEF Closes
    <2> QED
      BY <2>1, <2>2, <2>3 DEF NobodyElses
  <1> QED
    BY <1>2, <1>3

LEMMA StepOwn ==
  ASSUME IInv, NEW r \in Requests, Step(r)
  PROVE  NobodyElses
  <1>1. CASE WritePreferences(r)
    <2>1. CASE UNCHANGED prefs
      BY <1>1, <2>1 DEF WritePreferences, NobodyElses
    <2>2. CASE SavePreferences(r) /\ Moves(r, Ends(r, "saved"))
      BY <1>1, <2>2, RepliesLeave, Writer, SavesOwn DEF WritePreferences
    <2> QED
      BY <1>1, <2>1, <2>2 DEF WritePreferences
  <1>2. CASE WriteRow(r)
    <2>1. Acting(req[r].uid)
      BY <1>2, RepliesLeave, Writer DEF WriteRow
    <2> QED
      BY <1>2, <2>1, ClosesOwn DEF WriteRow, At
  <1>3. CASE WriteUnheard(r)
    <2>1. Acting(req[r].uid)
      BY <1>3, RepliesLeave, Writer DEF WriteUnheard
    <2>2. req[r].kind \in Kinds
      BY <1>3, RequestFacts DEF WriteUnheard, At, Facts, UserFacts
    <2>3. CASE req[r].kind = "save"
      BY <1>3, <2>1, <2>3, SavesOwn DEF WriteUnheard
    <2>4. CASE req[r].kind \in {"revoke", "read"}
      BY <1>3, <2>1, <2>4, ClosesOwn DEF WriteUnheard, At
    <2> QED
      BY <2>2, <2>3, <2>4 DEF Kinds
  <1>4. CASE UNCHANGED <<prefs, session, note>>
    BY <1>4 DEF NobodyElses
  <1>5. FindUser(r) \/ InsertUser(r) \/ InsertUserFails(r) \/ RefindUser(r)
          \/ LookForPreferences(r) \/ LookForRow(r) \/ ListRows(r) \/ CountUnread(r)
          \/ StatementFails(r) => UNCHANGED <<prefs, session, note>>
    BY DEF FindUser, InsertUser, InsertUserFails, RefindUser, LookForPreferences, LookForRow,
           ListRows, CountUnread, StatementFails, Reads, tables
  <1> QED
    BY <1>1, <1>2, <1>3, <1>4, <1>5 DEF Step

LEMMA NextOwn ==
  ASSUME IInv, Next
  PROVE  NobodyElses
  <1>1. ASSUME NEW r \in Requests, Step(r) PROVE NobodyElses
    BY <1>1, StepOwn
  <1>2. ASSUME NEW r \in Requests, NEW k \in Kinds, NEW s \in Subjects,
               NEW key \in Devices \cup Notes \cup {None}, Begin(r, k, s, key)
        PROVE  NobodyElses
    BY <1>2 DEF Begin, Reads, tables, NobodyElses
  <1>3. ASSUME NEW i \in Sessions, NEW s \in Subjects, NEW d \in Devices, Observe(i, s, d)
        PROVE  NobodyElses
    BY <1>3 DEF Observe, With, NobodyElses
  <1>4. ASSUME NEW n \in Notes, NEW s \in Subjects, create_notification(n, s)
        PROVE  NobodyElses
    BY <1>4 DEF create_notification, With, NobodyElses
  <1> QED
    BY <1>1, <1>2, <1>3, <1>4 DEF Next

\* store.rs:137-140, 190-191: whatever statements interleave, a row changes only
\* by the write of a request of the row's owner.
THEOREM NobodyElsesRows == Spec => OwnRowsOnly
  <1>1. IInv /\ [Next]_vars => [NobodyElses]_vars
    BY NextOwn
  <1>2. NobodyElses =>
          LET Own(u) == \E r \in Requests :
                  At(r, "write") /\ ~At(r, "write")' /\ users[req[r].sub] = u
          IN /\ \A i \in DOMAIN session : session'[i] # session[i] => Own(session[i].owner)
             /\ \A n \in DOMAIN note : note'[n] # note[n] => Own(note[n].owner)
             /\ \A u \in Users : prefs'[u] # prefs[u] => Own(u)
    BY DEF NobodyElses, Acting
  <1> QED
    BY <1>1, <1>2, Invariance, PTL DEF Spec, OwnRowsOnly

----------------------------------------------------------------------------
(* Errors have a cause, and a fragment shows what its request did.           *)

\* Why request r, now q, may be refused.
CauseFacts(r, q, us, pr) ==
    /\ q.pc = "refind" /\ ~q.faulted => us[q.sub] # None
    /\ q.pc # "done" => q.answer # "error" /\ \A u \in Users : pr[u] # r
    /\ q.answer = "error" /\ ~q.faulted =>
           q.kind = "save" /\ q.uid \in Users /\ pr[q.uid] \notin {None, r}

\* What its fragment has so far.
PageFacts(q) ==
    /\ q.pc \notin {"count", "done"} => q.shown = {}
    /\ q.pc # "done" => q.counted = {}
    /\ q.kind = "read" /\ q.answer = "yes" => q.key \notin q.shown \cup q.counted

EInv == \A r \in Requests : CauseFacts(r, req[r], users, prefs) /\ PageFacts(req[r])

LEMMA OthersKeepCause ==
  ASSUME IInv, EInv, Grows, NEW r \in Requests, NEW q, Moves(r, q),
         \A u \in Users : prefs'[u] = prefs[u] \/ prefs'[u] = r,
         CauseFacts(r, q, users', prefs'), PageFacts(q)
  PROVE  EInv'
  <1>1. req \in [Requests -> RequestType]
    BY DEF IInv
  <1>2. ASSUME NEW c \in Requests
        PROVE  CauseFacts(c, req'[c], users', prefs') /\ PageFacts(req'[c])
    <2>1. CASE c = r
      BY <1>1, <2>1 DEF Moves
    <2>2. CASE c # r
      <3>1. req'[c] = req[c]
        BY <1>1, <2>2 DEF Moves
      <3>2. CauseFacts(c, req[c], users, prefs) /\ PageFacts(req[c])
        BY DEF EInv
      <3>3. req[c].pc = "refind" => req[c].sub \in Subjects
        BY RequestFacts DEF Facts, UserFacts
      <3>4. CauseFacts(c, req[c], users', prefs')
        BY <2>2, <3>2, <3>3 DEF CauseFacts, Grows
      <3> QED
        BY <3>1, <3>2, <3>4
    <2> QED
      BY <2>1, <2>2
  <1> QED
    BY <1>2 DEF EInv

\* A statement of r that leaves the preferences alone.
LEMMA CauseMoves ==
  ASSUME IInv, EInv, Grows, NEW r \in Requests, NEW q, Moves(r, q), UNCHANGED prefs,
         req[r].pc # "done",
         q.pc = "refind" /\ ~q.faulted => users'[q.sub] # None,
         q.answer = "error" => q.pc = "done" /\ q.faulted,
         PageFacts(q)
  PROVE  EInv'
  <1>1. \A u \in Users : prefs[u] # r
    BY DEF EInv, CauseFacts
  <1>2. CauseFacts(r, q, users', prefs')
    BY <1>1 DEF CauseFacts
  <1> QED
    BY <1>2, OthersKeepCause

LEMMA EFacts ==
  ASSUME IInv, EInv, NEW r \in Requests
  PROVE  CauseFacts(r, req[r], users, prefs) /\ PageFacts(req[r]) /\ req[r] \in RequestType
  BY RequestFacts DEF EInv

\* What keeps the page of a request that goes on as q.
SamePage(q, p) ==
    q.shown = p.shown /\ q.counted = p.counted /\ q.kind = p.kind /\ q.key = p.key

LEMMA CauseLookup ==
  ASSUME IInv, EInv, Grows, NEW r \in Requests, UNCHANGED prefs,
         FindUser(r) \/ InsertUser(r) \/ InsertUserFails(r) \/ RefindUser(r)
  PROVE  EInv'
  <1> USE DEF At
  <1>1. req[r] \in RequestType /\ CauseFacts(r, req[r], users, prefs) /\ PageFacts(req[r])
    BY EFacts
  <1>2. /\ req[r].pc \in {"find", "insert", "refind"}
        /\ req[r].answer # "error" /\ req[r].sub \in Subjects
    BY <1>1, RequestFacts DEF FindUser, InsertUser, InsertUserFails, RefindUser, CauseFacts,
                              Facts, UserFacts
  <1>3. ASSUME NEW u \in Users, Moves(r, [req[r] EXCEPT !.pc = req[r].next, !.uid = u])
        PROVE  EInv'
    <2> DEFINE q == [req[r] EXCEPT !.pc = req[r].next, !.uid = u]
    <2>1. q.pc \in {"look", "list"} /\ q.answer = req[r].answer /\ SamePage(q, req[r])
      BY <1>1 DEF RequestType, SamePage
    <2> HIDE DEF q
    <2>2. PageFacts(q)
      BY <1>1, <1>2, <2>1 DEF PageFacts, SamePage
    <2> QED
      BY <1>2, <1>3, <2>1, <2>2, CauseMoves DEF q
  <1>4. CASE Moves(r, [req[r] EXCEPT !.pc = "insert"])
    <2> DEFINE q == [req[r] EXCEPT !.pc = "insert"]
    <2>1. q.pc = "insert" /\ q.answer = req[r].answer /\ SamePage(q, req[r])
      BY <1>1 DEF RequestType, SamePage
    <2> HIDE DEF q
    <2>2. PageFacts(q)
      BY <1>1, <1>2, <2>1 DEF PageFacts, SamePage
    <2> QED
      BY <1>2, <1>4, <2>1, <2>2, CauseMoves DEF q
  <1>5. CASE users[req[r].sub] # None /\ Moves(r, [req[r] EXCEPT !.pc = "refind"])
    <2> DEFINE q == [req[r] EXCEPT !.pc = "refind"]
    <2>1. /\ q.pc = "refind" /\ q.answer = req[r].answer /\ q.sub = req[r].sub
          /\ SamePage(q, req[r])
      BY <1>1 DEF RequestType, SamePage
    <2> HIDE DEF q
    <2>2. PageFacts(q)
      BY <1>1, <1>2, <2>1 DEF PageFacts, SamePage
    <2>3. users'[req[r].sub] # None
      BY <1>2, <1>5 DEF Grows
    <2> QED
      BY <1>2, <1>5, <2>1, <2>2, <2>3, CauseMoves DEF q
  <1>6. CASE Moves(r, [req[r] EXCEPT !.pc = "refind", !.faulted = TRUE])
    <2> DEFINE q == [req[r] EXCEPT !.pc = "refind", !.faulted = TRUE]
    <2>1. q.pc = "refind" /\ q.answer = req[r].answer /\ q.faulted /\ SamePage(q, req[r])
      BY <1>1 DEF RequestType, SamePage
    <2> HIDE DEF q
    <2>2. PageFacts(q)
      BY <1>1, <1>2, <2>1 DEF PageFacts, SamePage
    <2> QED
      BY <1>2, <1>6, <2>1, <2>2, CauseMoves DEF q
  <1>7. CASE req[r].pc = "refind" /\ users[req[r].sub] = None /\ Moves(r, Ends(r, "error"))
    <2> DEFINE q == Ends(r, "error")
    <2>1. q.pc = "done" /\ q.answer = "error" /\ q.faulted = req[r].faulted /\ SamePage(q, req[r])
      BY <1>1 DEF RequestType, SamePage, Ends
    <2> HIDE DEF q
    <2>2. PageFacts(q) /\ q.faulted
      BY <1>1, <1>7, <2>1 DEF PageFacts, CauseFacts, RequestType
    <2> QED
      BY <1>2, <1>7, <2>1, <2>2, CauseMoves DEF q
  <1>8. \/ \E u \in Users : Moves(r, [req[r] EXCEPT !.pc = req[r].next, !.uid = u])
        \/ Moves(r, [req[r] EXCEPT !.pc = "insert"])
        \/ users[req[r].sub] # None /\ Moves(r, [req[r] EXCEPT !.pc = "refind"])
        \/ Moves(r, [req[r] EXCEPT !.pc = "refind", !.faulted = TRUE])
        \/ req[r].pc = "refind" /\ users[req[r].sub] = None /\ Moves(r, Ends(r, "error"))
    BY <1>2 DEF FindUser, InsertUser, InsertUserFails, RefindUser, Reads, FreshUsers,
                IInv, TablesOK
  <1> QED
    BY <1>3, <1>4, <1>5, <1>6, <1>7, <1>8

LEMMA CauseErrors ==
  ASSUME IInv, EInv, Grows, NEW r \in Requests, UNCHANGED prefs, req[r].pc # "done",
         Moves(r, [Ends(r, "error") EXCEPT !.faulted = TRUE])
  PROVE  EInv'
  <1> DEFINE q == [Ends(r, "error") EXCEPT !.faulted = TRUE]
  <1>1. q.pc = "done" /\ q.answer = "error" /\ q.faulted
    BY EFacts DEF RequestType, Ends
  <1> HIDE DEF q
  <1>2. PageFacts(q)
    BY <1>1 DEF PageFacts
  <1> QED
    BY <1>1, <1>2, CauseMoves DEF q

LEMMA CauseReplies ==
  ASSUME IInv, EInv, Grows, NEW r \in Requests, UNCHANGED prefs,
         req[r].pc \in {"look", "write"}, NEW a \in {"yes", "no"}, Replies(r, a)
  PROVE  EInv'
  <1> DEFINE f == [req[r] EXCEPT !.pc = "find", !.next = "list", !.answer = a]
             e == Ends(r, a)
  <1>1. req[r] \in RequestType /\ req[r].shown = {} /\ req[r].counted = {}
    BY EFacts DEF PageFacts
  <1>2. f.pc = "find" /\ f.answer = a /\ f.shown = {} /\ f.counted = {}
    BY <1>1 DEF RequestType
  <1>3. e.pc = "done" /\ e.answer = a /\ e.shown = {} /\ e.counted = {}
    BY <1>1 DEF RequestType, Ends
  <1>4. Moves(r, f) \/ Moves(r, e)
    BY DEF Replies
  <1> HIDE DEF f, e
  <1>5. PageFacts(f) /\ PageFacts(e)
    BY <1>2, <1>3 DEF PageFacts
  <1> QED
    BY <1>2, <1>3, <1>4, <1>5, CauseMoves

LEMMA CauseOperation ==
  ASSUME IInv, EInv, Grows, NEW r \in Requests,
         LookForPreferences(r) \/ LookForRow(r) \/ WriteRow(r)
  PROVE  EInv'
  <1>1. req[r].pc \in {"look", "write"} /\ UNCHANGED prefs
    BY DEF LookForPreferences, LookForRow, WriteRow, At, Reads, tables
  <1>2. /\ req[r] \in RequestType /\ PageFacts(req[r])
        /\ req[r].answer # "error"
    BY <1>1, EFacts DEF CauseFacts
  <1>3. ASSUME NEW t, Moves(r, [req[r] EXCEPT !.pc = "write", !.target = t])
        PROVE  EInv'
    <2> DEFINE q == [req[r] EXCEPT !.pc = "write", !.target = t]
    <2>1. q.pc = "write" /\ q.answer = req[r].answer /\ SamePage(q, req[r])
      BY <1>2 DEF RequestType, SamePage
    <2> HIDE DEF q
    <2>2. PageFacts(q)
      BY <1>1, <1>2, <2>1 DEF PageFacts, SamePage
    <2> QED
      BY <1>1, <1>2, <1>3, <2>1, <2>2, CauseMoves DEF q
  <1>4. CASE LookForPreferences(r)
    BY <1>3, <1>4 DEF LookForPreferences, Reads
  <1>5. CASE LookForRow(r)
    BY <1>1, <1>3, <1>5, CauseReplies DEF LookForRow, Reads
  <1>6. CASE WriteRow(r)
    BY <1>1, <1>6, CauseReplies DEF WriteRow
  <1> QED
    BY <1>4, <1>5, <1>6

\* The preferences now hold r's values; r is done.
LEMMA CauseSaved ==
  ASSUME IInv, EInv, Grows, NEW r \in Requests, req[r].pc = "write", req[r].kind = "save",
         SavePreferences(r), NEW q, Moves(r, q), q.pc = "done", q.kind = req[r].kind,
         q.answer = "error" => q.faulted
  PROVE  EInv'
  <1>1. \A u \in Users : prefs'[u] = prefs[u] \/ prefs'[u] = r
    BY DEF SavePreferences, IInv, TablesOK
  <1>2. CauseFacts(r, q, users', prefs')
    BY DEF CauseFacts
  <1>3. PageFacts(q)
    BY DEF PageFacts
  <1> QED
    BY <1>1, <1>2, <1>3, OthersKeepCause

LEMMA CauseWrite ==
  ASSUME IInv, EInv, Grows, NEW r \in Requests, WritePreferences(r) \/ WriteUnheard(r)
  PROVE  EInv'
  <1> DEFINE s == Ends(r, "saved")
             e == Ends(r, "error")
             f == [Ends(r, "error") EXCEPT !.faulted = TRUE]
  <1>1. req[r].pc = "write" /\ req[r] \in RequestType /\ CauseFacts(r, req[r], users, prefs)
    BY EFacts DEF WritePreferences, WriteUnheard, At
  <1>2. req[r].uid \in Users
    BY <1>1, RequestFacts DEF Facts, UserFacts
  <1>3. /\ s.pc = "done" /\ s.answer = "saved" /\ s.kind = req[r].kind
        /\ e.pc = "done" /\ e.answer = "error" /\ e.kind = req[r].kind /\ e.uid = req[r].uid
        /\ f.pc = "done" /\ f.answer = "error" /\ f.kind = req[r].kind /\ f.faulted
    BY <1>1 DEF RequestType, Ends
  <1>4. CASE WritePreferences(r) /\ Conflicts(r) /\ UNCHANGED prefs /\ Moves(r, e)
    <2>1. CauseFacts(r, e, users', prefs')
      BY <1>1, <1>2, <1>3, <1>4 DEF CauseFacts, Conflicts, WritePreferences
    <2>2. PageFacts(e)
      BY <1>3 DEF PageFacts
    <2> QED
      BY <1>4, <2>1, <2>2, OthersKeepCause
  <1>5. CASE WritePreferences(r) /\ SavePreferences(r) /\ Moves(r, s)
    <2>1. req[r].kind = "save"
      BY <1>5 DEF WritePreferences
    <2> HIDE DEF s
    <2> QED
      BY <1>1, <1>3, <1>5, <2>1, CauseSaved
  <1>6. CASE WriteUnheard(r)
    <2>1. Moves(r, f)
      BY <1>6 DEF WriteUnheard
    <2>2. CASE req[r].kind = "save" /\ SavePreferences(r)
      <3> HIDE DEF f
      <3> QED
        BY <1>1, <1>3, <2>1, <2>2, CauseSaved
    <2>3. CASE UNCHANGED prefs
      BY <1>1, <2>1, <2>3, CauseErrors
    <2> QED
      BY <1>6, <2>2, <2>3 DEF WriteUnheard
  <1> QED
    BY <1>4, <1>5, <1>6 DEF WritePreferences

LEMMA CausePage ==
  ASSUME IInv, EInv, Grows, NEW r \in Requests, ListRows(r) \/ CountUnread(r)
  PROVE  EInv'
  <1>1. /\ req[r].pc \in {"list", "count"} /\ req[r] \in RequestType
        /\ PageFacts(req[r]) /\ CauseFacts(r, req[r], users, prefs)
    BY EFacts DEF ListRows, CountUnread, At
  <1>2. req[r].kind = "read" /\ req[r].answer = "yes" => req[r].key \notin UnreadOf(req[r].uid)
    BY RequestFacts DEF Facts, AnswerFacts, Read, UnreadOf
  <1>3. ASSUME NEW q, Moves(r, q), UNCHANGED prefs, q.pc \in {"count", "done"},
               q.answer = req[r].answer, q.kind = req[r].kind, q.key = req[r].key,
               q.pc = "count" => q.counted = {},
               q.shown \cup q.counted \subseteq
                   req[r].shown \cup req[r].counted \cup UnreadOf(req[r].uid)
        PROVE  EInv'
    <2>1. PageFacts(q)
      BY <1>1, <1>2, <1>3 DEF PageFacts
    <2> QED
      BY <1>1, <1>3, <2>1, CauseMoves DEF CauseFacts
  <1>4. CASE Moves(r, [req[r] EXCEPT !.pc = "done"]) /\ UNCHANGED prefs
    <2> DEFINE q == [req[r] EXCEPT !.pc = "done"]
    <2>1. q.pc = "done" /\ q.answer = req[r].answer /\ SamePage(q, req[r])
      BY <1>1 DEF RequestType, SamePage
    <2> HIDE DEF q
    <2> QED
      BY <1>3, <1>4, <2>1 DEF SamePage, q
  <1>5. ASSUME At(r, "list"), NEW page, UNCHANGED prefs,
               Moves(r, [req[r] EXCEPT !.pc = "count", !.shown = page \cap UnreadOf(req[r].uid)])
        PROVE  EInv'
    <2> DEFINE x == page \cap UnreadOf(req[r].uid)
               q == [req[r] EXCEPT !.pc = "count", !.shown = x]
    <2>1. x \subseteq UnreadOf(req[r].uid)
      OBVIOUS
    <2> HIDE DEF x
    <2>2. /\ q.pc = "count" /\ q.answer = req[r].answer /\ q.kind = req[r].kind
          /\ q.key = req[r].key /\ q.shown = x /\ q.counted = req[r].counted
      BY <1>1 DEF RequestType
    <2>3. req[r].counted = {}
      BY <1>1, <1>5 DEF PageFacts, At
    <2>4. Moves(r, q)
      BY <1>5 DEF x
    <2> HIDE DEF q
    <2> QED
      BY <1>3, <1>5, <2>1, <2>2, <2>3, <2>4
  <1>6. CASE UNCHANGED prefs /\ Moves(r, [req[r] EXCEPT !.pc = "done",
                                                        !.counted = UnreadOf(req[r].uid)])
    <2> DEFINE x == UnreadOf(req[r].uid)
               q == [req[r] EXCEPT !.pc = "done", !.counted = x]
    <2> HIDE DEF x
    <2>1. /\ q.pc = "done" /\ q.answer = req[r].answer /\ q.kind = req[r].kind
          /\ q.key = req[r].key /\ q.shown = req[r].shown /\ q.counted = x
      BY <1>1 DEF RequestType
    <2>2. Moves(r, q)
      BY <1>6 DEF x
    <2> HIDE DEF q
    <2> QED
      BY <1>3, <1>6, <2>1, <2>2 DEF x
  <1> QED
    BY <1>4, <1>5, <1>6 DEF ListRows, CountUnread, Reads, tables

LEMMA CauseBegin ==
  ASSUME IInv, EInv, Grows, NEW r \in Requests, NEW k \in Kinds, NEW s \in Subjects,
         NEW key \in Devices \cup Notes \cup {None}, Begin(r, k, s, key)
  PROVE  EInv'
  <1> DEFINE q == [Unused EXCEPT !.pc = "find", !.kind = k, !.sub = s, !.key = key]
  <1>1. q.pc = "find" /\ q.answer = "none" /\ q.shown = {} /\ q.counted = {}
    BY DEF Unused
  <1>2. Moves(r, q) /\ UNCHANGED prefs /\ req[r].pc = "idle"
    BY DEF Begin, Reads, tables, At
  <1> HIDE DEF q
  <1>3. PageFacts(q)
    BY <1>1 DEF PageFacts
  <1> QED
    BY <1>1, <1>2, <1>3, CauseMoves

LEMMA EInvHolds == Spec => []EInv
  <1>1. Init => EInv
    <2> SUFFICES ASSUME Init PROVE EInv
      OBVIOUS
    <2>1. \A r \in Requests : req[r] = Unused
      BY DEF Init
    <2>2. /\ Unused.pc = "idle" /\ Unused.answer = "none"
          /\ Unused.shown = {} /\ Unused.counted = {}
      BY DEF Unused
    <2>3. \A u \in Users, r \in Requests : prefs[u] # r
      BY DEF Init
    <2> QED
      BY <2>1, <2>2, <2>3 DEF EInv, CauseFacts, PageFacts
  <1>2. IInv /\ EInv /\ [Next]_vars => EInv'
    <2> SUFFICES ASSUME IInv, EInv, [Next]_vars PROVE EInv'
      OBVIOUS
    <2>1. Grows
      BY NextIInv
    <2>2. ASSUME NEW r \in Requests, Step(r) PROVE EInv'
      <3>1. CASE FindUser(r) \/ InsertUser(r) \/ InsertUserFails(r) \/ RefindUser(r)
        <4>1. UNCHANGED prefs
          BY <3>1 DEF FindUser, InsertUser, InsertUserFails, RefindUser, Reads, tables
        <4> QED
          BY <2>1, <3>1, <4>1, CauseLookup
      <3>2. CASE StatementFails(r)
        <4>1. UNCHANGED prefs /\ req[r].pc # "done"
          BY <3>2 DEF StatementFails, Reads, tables, Statements
        <4> QED
          BY <2>1, <3>2, <4>1, CauseErrors DEF StatementFails, Reads
      <3> QED
        BY <2>1, <2>2, <3>1, <3>2, CauseOperation, CauseWrite, CausePage DEF Step
    <2>3. CASE UNCHANGED <<users, prefs, req>>
      BY <2>3 DEF EInv, CauseFacts, PageFacts
    <2>4. (UNCHANGED vars) \/ (\E i \in Sessions, s \in Subjects, d \in Devices : Observe(i, s, d))
              \/ (\E n \in Notes, s \in Subjects : create_notification(n, s))
            => UNCHANGED <<users, prefs, req>>
      BY DEF vars, Observe, create_notification
    <2> QED
      BY <2>1, <2>2, <2>3, <2>4, CauseBegin DEF Next
  <1> QED
    BY <1>1, <1>2, Invariance, PTL DEF Spec

\* store.rs:42-50: a lost race is no error; a request is refused for a fault, or
\* because another's first save of the same preferences came in between.
THEOREM NoErrorWithoutCause == Spec => []ErrorsHaveACause
  <1>1. EInv => ErrorsHaveACause
    BY DEF EInv, CauseFacts, ErrorsHaveACause
  <1> QED
    BY <1>1, EInvHolds, PTL

\* main.rs:2015-2053: a fragment never contradicts what its own request did.
THEOREM FragmentShowsWrite == Spec => []ReadsOwnWrite
  <1>1. EInv => ReadsOwnWrite
    BY DEF EInv, PageFacts, ReadsOwnWrite
  <1> QED
    BY <1>1, EInvHolds, PTL
=============================================================================
