--------------------------- MODULE ApiKeysProofs ---------------------------
(***************************************************************************)
(* The API-key handlers, for any number of keys, submissions and loads of  *)
(* the page.                                                               *)
(*                                                                         *)
(* The authority's books (Authority): no mutation without an idempotency   *)
(* key of its own (Spent), and every answer names a version that the key   *)
(* has reached, a new one each time.  What a handler carries (Carries) and *)
(* what was told is such an answer, so that a list read later shows it.    *)
(***************************************************************************)
EXTENDS ApiKeys, TLAPS, FiniteSetTheorems

----------------------------------------------------------------------------
Row == [version : 0..(MaxPresses + 1), revoked : BOOLEAN]

Given == {<<>>} \cup {<<a>> : a \in Answers}

CallType == [pc : {"free", "mutate", "list", "fragment"}, rows : Rows, answer : Answers]

PageType(n) == [form : [Forms -> 0..n], rows : Rows, load : 1..MaxLoads]

\* The idempotency keys that have been used up.
Spent(op, k) == {id \in Asked(op, k) : done[id] # <<>>}

Created == {k \in KeyIds : issued[k].version > 0}

Counted ==
    /\ Cardinality(Created) <= Already + Cardinality(Spent("create", None))
    /\ \A k \in KeyIds : issued[k].version <= 1 + Cardinality(Spent("rotate", k))

\* An answer a to a mutation `op`, as the keys now stand.
Backed(op, a, rows) ==
    a # Refused =>
       /\ a.key \in KeyIds
       /\ a.version > 0 /\ a.version <= rows[a.key].version
       /\ op = "revoke" => rows[a.key].revoked

Authority ==
    /\ \A id \in 1..MaxPresses : \A a \in Answers :
          done[id] = <<a>> => id \in Ids /\ Backed(pressed[id].op, a, issued)
    /\ \A id, other \in Ids :
          id # other /\ done[id] = done[other] /\ done[id] \notin {<<>>, <<Refused>>}
             => pressed[id].op = "revoke" \/ pressed[other].op = "revoke"
    /\ Counted

\* Request c in state q: the answer it carries is the one its idempotency key was given,
\* and a fragment's list is later than it.
Carries(c, q, dn, pr) ==
    /\ c # None /\ q.pc \in {"list", "fragment"} =>
          c \in 1..Len(pr) /\ dn[c] = <<q.answer>> /\ q.answer # Refused
    /\ c = None \/ q.pc \in {"free", "mutate"} => q.answer = Refused
    /\ c = None => q.pc # "mutate"
    /\ q.pc = "fragment" /\ q.answer # Refused =>
          /\ q.rows[q.answer.key].version >= q.answer.version
          /\ pr[c].op = "revoke" => ~Active(q.rows, q.answer.key)

ToldTrue(tl, dn) ==
    \A id \in 1..MaxPresses : tl[id] # <<>> => tl[id] = dn[id] /\ tl[id] # <<Refused>>

IInv ==
    /\ TypeOK
    /\ Authority
    /\ \A c \in 0..MaxPresses : Carries(c, call[c], done, pressed)
    /\ ToldTrue(told, done)

----------------------------------------------------------------------------
(* Values.                                                                   *)

LEMMA Constants ==
  /\ MaxKeys \in Nat /\ Already \in Nat /\ Already <= MaxKeys /\ MaxPresses \in Nat
  /\ MaxLoads \in Nat /\ 1 \in 1..MaxLoads /\ None = 0 /\ None \notin KeyIds
  BY KeyLedgerAssumption DEF None, KeyIds

LEMMA Refusal ==
  /\ Refused \in Answers /\ Refused.key = None /\ Refused.version = 0
  BY Constants DEF Refused, Answer, Answers

LEMMA EmptyRows == NoRows \in Rows
  BY Constants DEF NoRows, Rows

LEMMA Asking ==
  ASSUME NEW pc \in {"mutate", "list"}
  PROVE  /\ Asks(pc) \in CallType /\ Asks(pc).pc = pc /\ Asks(pc).answer = Refused
         /\ Free \in CallType /\ Free.pc = "free" /\ Free.answer = Refused
  <1>1. Free \in CallType /\ Free.pc = "free" /\ Free.answer = Refused
    BY EmptyRows, Refusal DEF Free, CallType
  <1> QED
    BY <1>1, EmptyRows, Refusal DEF Asks, Free, CallType

\* A fresh request, or none, carries nothing; the page's own list neither.
LEMMA NothingCarried ==
  ASSUME NEW c \in 0..MaxPresses, NEW dn, NEW pr
  PROVE  /\ Carries(c, Free, dn, pr) /\ (c # None => Carries(c, Asks("mutate"), dn, pr))
         /\ Carries(None, Asks("list"), dn, pr)
  BY Asking DEF Carries

LEMMA FormFacts ==
  /\ \A f \in Forms : \/ f[1] = "create" /\ f[2] = None
                      \/ f[1] \in {"rotate", "revoke"} /\ f[2] \in KeyIds
  /\ \A i \in Intent :
        /\ \/ i.op = "create" /\ i.key = None
           \/ i.op \in {"rotate", "revoke"} /\ i.key \in KeyIds
        /\ i.via \in Json..MaxLoads
  /\ \A f \in Forms : \A v \in Json..MaxLoads : [op |-> f[1], key |-> f[2], via |-> v] \in Intent
  <1>1. \A f \in Forms : \/ f[1] = "create" /\ f[2] = None
                         \/ f[1] \in {"rotate", "revoke"} /\ f[2] \in KeyIds
    BY DEF Forms
  <1>2. ASSUME NEW i \in Intent
        PROVE  /\ \/ i.op = "create" /\ i.key = None
                  \/ i.op \in {"rotate", "revoke"} /\ i.key \in KeyIds
               /\ i.via \in Json..MaxLoads
    <2>1. PICK f \in Forms, v \in Json..MaxLoads : i = [op |-> f[1], key |-> f[2], via |-> v]
      BY DEF Intent
    <2>2. i.op = f[1] /\ i.key = f[2] /\ i.via = v
      BY <2>1
    <2> QED
      BY <1>1, <2>2
  <1>3. \A f \in Forms : \A v \in Json..MaxLoads :
           [op |-> f[1], key |-> f[2], via |-> v] \in Intent
    BY DEF Intent
  <1> QED
    BY <1>1, <1>2, <1>3

LEMMA TypeFacts ==
  ASSUME TypeOK
  PROVE  /\ issued \in [KeyIds -> Row]
         /\ pressed \in Seq(Intent) /\ Len(pressed) \in Nat /\ Len(pressed) <= MaxPresses
         /\ done \in [1..MaxPresses -> Given] /\ told \in [1..MaxPresses -> Given]
         /\ page \in PageType(Len(pressed))
         /\ call \in [0..MaxPresses -> CallType]
         /\ orphans \subseteq Ids /\ Ids \subseteq 1..MaxPresses /\ Ids = 1..Len(pressed)
         /\ None \notin Ids
  <1>1. pressed \in Seq(Intent) /\ Len(pressed) \in Nat /\ Len(pressed) <= MaxPresses
    BY DEF TypeOK
  <1>2. Ids \subseteq 1..MaxPresses /\ Ids = 1..Len(pressed) /\ None \notin Ids
    BY <1>1, Constants DEF Ids
  <1> QED
    BY <1>1, <1>2 DEF TypeOK, Rows, Row, Given, PageType, CallType, Ids

LEMMA OneGiven ==
  ASSUME NEW g \in Given, g # <<>>
  PROVE  g[1] \in Answers /\ g = <<g[1]>>
  BY DEF Given

\* What carried an answer still carries it when more was pressed and answered since.
LEMMA StillCarries ==
  ASSUME NEW c \in 0..MaxPresses, NEW q, NEW dn, NEW dn2, NEW pr, NEW pr2,
         Carries(c, q, dn, pr), Len(pr) \in Nat, Len(pr2) \in Nat, Len(pr) <= Len(pr2),
         \A id \in 1..Len(pr) : pr2[id] = pr[id],
         \A id \in 1..MaxPresses : dn[id] # <<>> => dn2[id] = dn[id]
  PROVE  Carries(c, q, dn2, pr2)
  <1>1. \A a : <<a>> # <<>>
    OBVIOUS
  <1>2. CASE c = None
    BY <1>2 DEF Carries
  <1>3. CASE c # None
    <2>1. c \in 1..MaxPresses
      BY <1>3, Constants
    <2>2. ASSUME q.pc \in {"list", "fragment"}
          PROVE  /\ c \in 1..Len(pr2) /\ dn2[c] = <<q.answer>> /\ q.answer # Refused
                 /\ pr2[c] = pr[c]
      <3>1. c \in 1..Len(pr) /\ dn[c] = <<q.answer>> /\ q.answer # Refused
        BY <1>3, <2>2 DEF Carries
      <3>2. c \in 1..Len(pr2) /\ pr2[c] = pr[c]
        BY <3>1
      <3>3. dn2[c] = dn[c]
        BY <1>1, <2>1, <3>1
      <3> QED
        BY <3>1, <3>2, <3>3
    <2> QED
      BY <1>3, <2>2 DEF Carries
  <1> QED
    BY <1>2, <1>3

----------------------------------------------------------------------------
(* The authority.                                                            *)

LEMMA SpentFinite ==
  ASSUME TypeOK, NEW op, NEW k
  PROVE  /\ IsFiniteSet(Asked(op, k)) /\ IsFiniteSet(Spent(op, k))
         /\ Cardinality(Asked(op, k)) \in Nat /\ Cardinality(Spent(op, k)) \in Nat
         /\ Cardinality(Spent(op, k)) <= Cardinality(Asked(op, k))
         /\ Cardinality(Asked(op, k)) <= Len(pressed)
  <1>1. Len(pressed) \in Nat /\ Ids = 1..Len(pressed)
    BY TypeFacts
  <1>2. IsFiniteSet(Ids) /\ Cardinality(Ids) = Len(pressed)
    BY <1>1, FS_Interval
  <1>3. Asked(op, k) \subseteq Ids /\ Spent(op, k) \subseteq Asked(op, k)
    BY DEF Asked, Spent
  <1>4. IsFiniteSet(Asked(op, k)) /\ Cardinality(Asked(op, k)) <= Len(pressed)
    BY <1>2, <1>3, FS_Subset
  <1>5. IsFiniteSet(Spent(op, k)) /\ Cardinality(Spent(op, k)) <= Cardinality(Asked(op, k))
    BY <1>3, <1>4, FS_Subset
  <1> QED
    BY <1>4, <1>5, FS_CardinalityType

LEMMA KeysFinite ==
  IsFiniteSet(KeyIds) /\ IsFiniteSet(Created)
  <1>1. IsFiniteSet(KeyIds)
    BY Constants, FS_Interval DEF KeyIds
  <1> QED
    BY <1>1, FS_Subset DEF Created

LEMMA ServesFacts ==
  ASSUME TypeOK, NEW id \in Ids, NEW answer, Serves(id, answer)
  PROVE  \/ done[id] # <<>> /\ answer = done[id][1] /\ UNCHANGED <<issued, done>>
         \/ /\ done[id] = <<>> /\ done' = [done EXCEPT ![id] = <<answer>>]
            /\ answer = Refused /\ UNCHANGED issued
         \/ /\ done[id] = <<>> /\ done' = [done EXCEPT ![id] = <<answer>>]
            /\ \E k \in Targets(pressed[id]) :
                  /\ issued' = [issued EXCEPT ![k] = Mutated(pressed[id].op, @)]
                  /\ answer = Answer(k, issued'[k].version)
  <1>1. id # None
    BY TypeFacts
  <1> QED
    BY <1>1 DEF Serves, Header, Seen, TakesEffect

\* A key that is mutated: which it was, and what it is now.
LEMMA TargetFacts ==
  ASSUME TypeOK, NEW id \in Ids, NEW k \in Targets(pressed[id])
  PROVE  LET i == pressed[id] IN
         /\ i \in Intent /\ k \in KeyIds /\ issued[k] \in Row
         /\ i.op = "create" => issued[k].version = 0
         /\ i.op # "create" => i.key = k /\ issued[k].version > 0
         /\ i.op = "revoke" => Mutated(i.op, issued[k]) = [issued[k] EXCEPT !.revoked = TRUE]
         /\ i.op # "revoke" => Mutated(i.op, issued[k]) = [issued[k] EXCEPT !.version = @ + 1]
  <1>1. pressed[id] \in Intent
    BY TypeFacts
  <1>2. k \in KeyIds
    BY <1>1, FormFacts DEF Targets
  <1> QED
    BY <1>1, <1>2, TypeFacts DEF Targets, Active, Mutated

\* The mutation takes effect: the key moves on, and only this key.
LEMMA Takes ==
  ASSUME TypeOK, NEW id \in Ids, NEW k \in Targets(pressed[id]),
         issued' = [issued EXCEPT ![k] = Mutated(pressed[id].op, @)]
  PROVE  LET op == pressed[id].op IN
         /\ k \in KeyIds /\ \A j \in KeyIds \ {k} : issued'[j] = issued[j]
         /\ issued'[k].version \in Nat /\ issued[k].version \in Nat
         /\ issued' \in [KeyIds -> [version : Nat, revoked : BOOLEAN]]
         /\ op = "revoke" => /\ issued'[k].version = issued[k].version
                             /\ issued[k].version > 0 /\ issued'[k].revoked
         /\ op # "revoke" => /\ issued'[k].version = issued[k].version + 1
                             /\ issued'[k].revoked = issued[k].revoked
         /\ op = "create" => issued[k].version = 0
         /\ op # "create" => pressed[id].key = k /\ issued[k].version > 0
         /\ issued[k].revoked => issued'[k].revoked
  <1> DEFINE i == pressed[id]
             new == Mutated(i.op, issued[k])
  <1>1. /\ i \in Intent /\ k \in KeyIds /\ issued[k] \in Row
        /\ i.op = "create" => issued[k].version = 0
        /\ i.op # "create" => i.key = k /\ issued[k].version > 0
        /\ i.op = "revoke" => new = [issued[k] EXCEPT !.revoked = TRUE]
        /\ i.op # "revoke" => new = [issued[k] EXCEPT !.version = @ + 1]
    BY TargetFacts
  <1>2. issued \in [KeyIds -> Row]
    BY TypeFacts
  <1>3. issued'[k] = new /\ \A j \in KeyIds \ {k} : issued'[j] = issued[j]
    BY <1>1, <1>2
  <1>4. issued[k].version \in Nat /\ issued[k].revoked \in BOOLEAN
    BY <1>1, Constants DEF Row
  <1>5. CASE i.op = "revoke"
    <2>1. new.version = issued[k].version /\ new.revoked = TRUE
          /\ new \in [version : Nat, revoked : BOOLEAN]
      BY <1>1, <1>4, <1>5 DEF Row
    <2>2. issued' \in [KeyIds -> [version : Nat, revoked : BOOLEAN]]
      BY <1>1, <1>2, <1>3, <2>1, Constants DEF Row
    <2> HIDE DEF new
    <2> QED
      BY <1>1, <1>3, <1>4, <1>5, <2>1, <2>2
  <1>6. CASE i.op # "revoke"
    <2>1. new.version = issued[k].version + 1 /\ new.revoked = issued[k].revoked
          /\ new \in [version : Nat, revoked : BOOLEAN]
      BY <1>1, <1>4, <1>6 DEF Row
    <2>2. issued' \in [KeyIds -> [version : Nat, revoked : BOOLEAN]]
      BY <1>1, <1>2, <1>3, <2>1, Constants DEF Row
    <2> HIDE DEF new
    <2> QED
      BY <1>1, <1>3, <1>4, <1>6, <2>1, <2>2
  <1> QED
    BY <1>5, <1>6

\* Idempotency key `id` is used up.
LEMMA SpentGrows ==
  ASSUME TypeOK, NEW id \in Ids, NEW answer, NEW op, NEW k, done[id] = <<>>,
         done' = [done EXCEPT ![id] = <<answer>>], UNCHANGED pressed
  PROVE  /\ Cardinality(Spent(op, k)) \in Nat /\ Cardinality(Spent(op, k)') \in Nat
         /\ Cardinality(Spent(op, k)) <= Cardinality(Spent(op, k)')
         /\ id \in Asked(op, k) => Cardinality(Spent(op, k)') = Cardinality(Spent(op, k)) + 1
         /\ Cardinality(Spent(op, k)') <= MaxPresses
  <1>1. /\ done \in [1..MaxPresses -> Given] /\ Ids \subseteq 1..MaxPresses
        /\ Len(pressed) \in Nat /\ Len(pressed) <= MaxPresses /\ MaxPresses \in Nat
    BY TypeFacts, Constants
  <1>2. /\ Asked(op, k)' = Asked(op, k) /\ Asked(op, k) \subseteq Ids
        /\ Spent(op, k) \subseteq Asked(op, k)
    BY DEF Asked, Ids, Spent
  <1>3. <<answer>> # <<>>
    OBVIOUS
  <1>4. Spent(op, k)' = Spent(op, k) \cup (Asked(op, k) \cap {id}) /\ id \notin Spent(op, k)
    BY <1>1, <1>2, <1>3 DEF Spent
  <1>5. /\ IsFiniteSet(Asked(op, k)) /\ Cardinality(Asked(op, k)) <= MaxPresses
        /\ IsFiniteSet(Spent(op, k)) /\ Cardinality(Spent(op, k)) \in Nat
        /\ Cardinality(Asked(op, k)) \in Nat
    BY <1>1, SpentFinite
  <1>6. Spent(op, k)' \subseteq Asked(op, k) /\ Spent(op, k) \subseteq Spent(op, k)'
    BY <1>2, <1>4
  <1>7. /\ IsFiniteSet(Spent(op, k)')
        /\ Cardinality(Spent(op, k)') <= Cardinality(Asked(op, k))
    BY <1>5, <1>6, FS_Subset
  <1>8. Cardinality(Spent(op, k)) <= Cardinality(Spent(op, k)')
    BY <1>6, <1>7, FS_Subset
  <1>9. Cardinality(Spent(op, k)') \in Nat
    BY <1>7, FS_CardinalityType
  <1>10. ASSUME id \in Asked(op, k)
         PROVE  Cardinality(Spent(op, k)') = Cardinality(Spent(op, k)) + 1
    <2>1. Spent(op, k)' = Spent(op, k) \cup {id}
      BY <1>4, <1>10
    <2> QED
      BY <1>4, <1>5, <2>1, FS_AddElement
  <1> QED
    BY <1>1, <1>5, <1>7, <1>8, <1>9, <1>10

\* What stood behind an answer still does when a key moves on.
LEMMA StillBacked ==
  ASSUME NEW op, NEW a, NEW rows, NEW rows2, Backed(op, a, rows), a.version \in Nat,
         \A k \in KeyIds : /\ rows[k].version \in Nat /\ rows2[k].version \in Nat
                           /\ rows[k].version <= rows2[k].version
                           /\ rows[k].revoked => rows2[k].revoked
  PROVE  Backed(op, a, rows2)
  BY DEF Backed

LEMMA ServedKeeps ==
  ASSUME TypeOK, Authority, NEW id \in Ids, NEW answer \in Answers, Serves(id, answer),
         UNCHANGED pressed
  PROVE  /\ issued' \in Rows /\ done' \in [1..MaxPresses -> Given] /\ Authority'
         /\ done'[id] = <<answer>>
         /\ \A o \in 1..MaxPresses : done[o] # <<>> => done'[o] = done[o]
  <1>1. /\ done \in [1..MaxPresses -> Given] /\ id \in 1..MaxPresses /\ issued \in [KeyIds -> Row]
        /\ Ids \subseteq 1..MaxPresses /\ Ids' = Ids /\ MaxPresses \in Nat
    BY TypeFacts, Constants DEF Ids
  <1>2. /\ \A o \in Ids : pressed'[o] = pressed[o] /\ pressed[o] \in Intent
        /\ pressed' = pressed
    BY TypeFacts
  <1>3. \A k \in KeyIds : issued[k].version \in Nat
    BY <1>1 DEF Row
  <1>4. \A a \in Answers : a.version \in Nat
    BY <1>1 DEF Answers
  <1>5. CASE done[id] # <<>> /\ answer = done[id][1] /\ UNCHANGED <<issued, done>>
    <2>1. done[id] = <<answer>>
      BY <1>1, <1>5, OneGiven
    <2>2. Authority'
      BY <1>5, <1>1, <1>2 DEF Authority, Counted, Created, Spent, Asked
    <2> QED
      BY <1>1, <1>5, <2>1, <2>2 DEF TypeOK
  <1>6. ASSUME done[id] = <<>>, done' = [done EXCEPT ![id] = <<answer>>]
        PROVE  /\ done' \in [1..MaxPresses -> Given] /\ done'[id] = <<answer>>
               /\ \A o \in 1..MaxPresses \ {id} : done'[o] = done[o]
               /\ \A o \in 1..MaxPresses : done[o] # <<>> => done'[o] = done[o]
               /\ <<answer>> # <<>>
    <2>1. <<answer>> \in Given
      BY DEF Given
    <2>2. <<answer>> # <<>>
      OBVIOUS
    <2> QED
      BY <1>1, <1>6, <2>1, <2>2
  <1>7. CASE /\ done[id] = <<>> /\ done' = [done EXCEPT ![id] = <<answer>>]
             /\ answer = Refused /\ UNCHANGED issued
    <2>1. /\ done'[id] = <<Refused>>
          /\ \A o \in 1..MaxPresses \ {id} : done'[o] = done[o]
      BY <1>6, <1>7
    <2>2. ASSUME NEW o \in 1..MaxPresses, NEW a \in Answers, done'[o] = <<a>>
          PROVE  o \in Ids /\ Backed(pressed[o].op, a, issued)
      <3>1. CASE o = id
        <4>1. <<a>>[1] = <<Refused>>[1]
          BY <2>1, <2>2, <3>1
        <4>2. a = Refused
          BY <4>1
        <4> QED
          BY <3>1, <4>2 DEF Backed
      <3>2. CASE o # id
        BY <2>1, <2>2, <3>2 DEF Authority
      <3> QED
        BY <3>1, <3>2
    <2>3. ASSUME NEW o \in Ids, NEW other \in Ids, o # other, done'[o] = done'[other],
                 done'[o] \notin {<<>>, <<Refused>>}
          PROVE  pressed[o].op = "revoke" \/ pressed[other].op = "revoke"
      <3>1. o # id /\ other # id
        BY <2>1, <2>3
      <3> QED
        BY <1>1, <2>1, <2>3, <3>1 DEF Authority
    <2>4. Counted'
      <3>1. \A op, k : /\ Cardinality(Spent(op, k)) \in Nat /\ Cardinality(Spent(op, k)') \in Nat
                      /\ Cardinality(Spent(op, k)) <= Cardinality(Spent(op, k)')
        BY <1>7, SpentGrows
      <3>2. Created' = Created /\ Cardinality(Created) \in Nat
        BY <1>7, KeysFinite, FS_CardinalityType DEF Created
      <3>3. Cardinality(Created') <= Already + Cardinality(Spent("create", None)')
        BY <3>1, <3>2, Constants DEF Authority, Counted
      <3>4. ASSUME NEW k \in KeyIds
            PROVE  issued'[k].version <= 1 + Cardinality(Spent("rotate", k)')
        BY <1>3, <1>7, <3>1 DEF Authority, Counted
      <3> QED
        BY <3>3, <3>4 DEF Counted
    <2>5. Authority'
      BY <1>1, <1>2, <1>7, <2>2, <2>3, <2>4 DEF Authority
    <2> QED
      BY <1>6, <1>7, <2>5 DEF TypeOK
  <1>8. ASSUME done[id] = <<>>, done' = [done EXCEPT ![id] = <<answer>>],
               NEW k \in Targets(pressed[id]),
               issued' = [issued EXCEPT ![k] = Mutated(pressed[id].op, @)],
               answer = Answer(k, issued'[k].version)
        PROVE  issued' \in Rows /\ Authority'
    <2> DEFINE op == pressed[id].op
    <2>1. /\ k \in KeyIds /\ \A j \in KeyIds \ {k} : issued'[j] = issued[j]
          /\ issued'[k].version \in Nat /\ issued[k].version \in Nat
          /\ issued' \in [KeyIds -> [version : Nat, revoked : BOOLEAN]]
          /\ op = "revoke" => /\ issued'[k].version = issued[k].version
                              /\ issued[k].version > 0 /\ issued'[k].revoked
          /\ op # "revoke" => /\ issued'[k].version = issued[k].version + 1
                              /\ issued'[k].revoked = issued[k].revoked
          /\ op = "create" => issued[k].version = 0
          /\ op # "create" => pressed[id].key = k /\ issued[k].version > 0
          /\ issued[k].revoked => issued'[k].revoked
      BY <1>8, Takes
    <2>2. /\ done'[id] = <<answer>>
          /\ \A o \in 1..MaxPresses \ {id} : done'[o] = done[o]
          /\ answer.key = k /\ answer.version = issued'[k].version /\ answer # Refused
      BY <1>6, <1>8, <2>1, Refusal, Constants DEF Answer
    <2>3. op \in {"create", "rotate", "revoke"}
      BY <1>2, FormFacts
    <2> HIDE DEF op
    <2>4. \A j \in KeyIds : /\ issued[j].version \in Nat /\ issued'[j].version \in Nat
                            /\ issued[j].version <= issued'[j].version
                            /\ issued[j].revoked => issued'[j].revoked
      BY <1>3, <2>1
    <2>5. ASSUME NEW o \in 1..MaxPresses, NEW a \in Answers, done'[o] = <<a>>
          PROVE  o \in Ids /\ Backed(pressed[o].op, a, issued')
      <3>1. CASE o = id
        <4>1. <<a>>[1] = <<answer>>[1]
          BY <2>2, <2>5, <3>1
        <4>2. a = answer
          BY <4>1
        <4>3. answer.version > 0 /\ (op = "revoke" => issued'[k].revoked)
          BY <2>1, <2>2, <2>3
        <4> QED
          BY <2>1, <2>2, <3>1, <4>2, <4>3 DEF Backed, op
      <3>2. CASE o # id
        <4>1. o \in Ids /\ Backed(pressed[o].op, a, issued)
          BY <2>2, <2>5, <3>2 DEF Authority
        <4> QED
          BY <1>4, <2>4, <4>1, StillBacked
      <3> QED
        BY <3>1, <3>2
    <2>6. ASSUME NEW o \in Ids, o # id, done'[o] = <<answer>>, op # "revoke"
          PROVE  pressed[o].op = "revoke"
      <3>1. Backed(pressed[o].op, answer, issued)
        BY <1>1, <2>2, <2>6 DEF Authority
      <3>2. answer.version <= issued[k].version
        BY <2>2, <3>1 DEF Backed
      <3> QED
        BY <2>1, <2>2, <2>6, <3>2
    <2>7. ASSUME NEW o \in Ids, NEW other \in Ids, o # other, done'[o] = done'[other],
                 done'[o] \notin {<<>>, <<Refused>>}
          PROVE  pressed[o].op = "revoke" \/ pressed[other].op = "revoke"
      <3>1. CASE o = id
        BY <2>2, <2>6, <2>7, <3>1 DEF op
      <3>2. CASE other = id
        BY <2>2, <2>6, <2>7, <3>2 DEF op
      <3>3. CASE o # id /\ other # id
        BY <1>1, <2>2, <2>7, <3>3 DEF Authority
      <3> QED
        BY <3>1, <3>2, <3>3
    <2>8. ASSUME NEW p, NEW j
          PROVE  /\ Cardinality(Spent(p, j)) \in Nat /\ Cardinality(Spent(p, j)') \in Nat
                 /\ Cardinality(Spent(p, j)) <= Cardinality(Spent(p, j)')
                 /\ id \in Asked(p, j) =>
                      Cardinality(Spent(p, j)') = Cardinality(Spent(p, j)) + 1
                 /\ Cardinality(Spent(p, j)') <= MaxPresses
      BY <1>8, SpentGrows
    <2>9. Cardinality(Created') <= Already + Cardinality(Spent("create", None)')
      <3>1. IsFiniteSet(Created) /\ Cardinality(Created) \in Nat
            /\ Cardinality(Created) <= Already + Cardinality(Spent("create", None))
        BY KeysFinite, FS_CardinalityType DEF Authority, Counted
      <3>2. CASE op = "create"
        <4>1. id \in Asked("create", None)
          BY <3>2 DEF Asked, op
        <4>2. Created' = Created \cup {k} /\ k \notin Created
          BY <2>1, <2>4, <3>2 DEF Created
        <4>3. Cardinality(Created') = Cardinality(Created) + 1
          BY <3>1, <4>2, FS_AddElement
        <4> QED
          BY <2>8, <3>1, <4>1, <4>3, Constants
      <3>3. CASE op # "create"
        <4>1. Created' = Created
          BY <2>1, <2>4, <3>3 DEF Created
        <4> QED
          BY <2>8, <3>1, <4>1, Constants
      <3> QED
        BY <3>2, <3>3
    <2>10. ASSUME NEW j \in KeyIds
           PROVE  /\ issued'[j].version <= 1 + Cardinality(Spent("rotate", j)')
                  /\ issued'[j].version <= MaxPresses + 1
      <3>1. issued[j].version <= 1 + Cardinality(Spent("rotate", j))
        BY DEF Authority, Counted
      <3>0. /\ Cardinality(Spent("rotate", j)) \in Nat /\ Cardinality(Spent("rotate", j)') \in Nat
            /\ Cardinality(Spent("rotate", j)) <= Cardinality(Spent("rotate", j)')
            /\ id \in Asked("rotate", j) =>
                 Cardinality(Spent("rotate", j)') = Cardinality(Spent("rotate", j)) + 1
            /\ Cardinality(Spent("rotate", j)') <= MaxPresses
        BY <1>8, SpentGrows
      <3>2. CASE j # k \/ op = "revoke"
        <4>1. issued'[j].version = issued[j].version /\ issued[j].version \in Nat
          BY <2>1, <2>4, <3>2
        <4> QED
          BY <1>1, <3>1, <3>0, <4>1
      <3>3. CASE j = k /\ op = "create"
        <4>1. issued'[j].version = 1
          BY <2>1, <3>3
        <4> QED
          BY <1>1, <3>0, <4>1
      <3>4. CASE j = k /\ op = "rotate"
        <4>1. id \in Asked("rotate", j)
          BY <2>1, <3>4 DEF Asked, op
        <4>2. issued'[j].version = issued[j].version + 1 /\ issued[j].version \in Nat
          BY <2>1, <3>4
        <4> QED
          BY <1>1, <3>1, <3>0, <4>1, <4>2
      <3> QED
        BY <2>3, <3>2, <3>3, <3>4
    <2>11. Authority'
      BY <1>1, <1>2, <2>5, <2>7, <2>9, <2>10 DEF Authority, Counted
    <2>12. issued' \in Rows
      <3>1. \A j \in KeyIds : issued'[j].version <= MaxPresses + 1
        BY <2>10
      <3>2. \A j \in KeyIds : issued'[j] \in Row
        BY <1>1, <2>1, <3>1 DEF Row
      <3> QED
        BY <2>1, <3>2 DEF Rows, Row
    <2> QED
      BY <2>11, <2>12
  <1> QED
    BY <1>5, <1>6, <1>7, <1>8, ServesFacts

----------------------------------------------------------------------------
(* The steps.                                                                *)

\* A request goes on as q, the authority as it was.
LEMMA CallMoves ==
  ASSUME IInv, NEW c \in 0..MaxPresses, NEW q \in CallType,
         Carries(c, q, done, pressed), call' = [call EXCEPT ![c] = q],
         UNCHANGED <<issued, done, pressed>>,
         told' \in [1..MaxPresses -> Given], ToldTrue(told', done),
         page' \in PageType(Len(pressed)), orphans' \subseteq Ids
  PROVE  IInv'
  <1>1. \A d \in 0..MaxPresses : call'[d] = IF d = c THEN q ELSE call[d]
    BY TypeFacts DEF IInv
  <1>2. call' \in [0..MaxPresses -> CallType]
    BY TypeFacts DEF IInv
  <1>3. TypeOK'
    BY <1>2 DEF IInv, TypeOK, Given, PageType, CallType, Ids
  <1>4. Authority'
    BY DEF IInv, Authority, Counted, Created, Spent, Asked, Ids
  <1>5. \A d \in 0..MaxPresses : Carries(d, call'[d], done', pressed')
    BY <1>1 DEF IInv
  <1> QED
    BY <1>3, <1>4, <1>5 DEF IInv

LEMMA WaitingSteps ==
  ASSUME IInv, NEW c \in Ids, Retry(c) \/ Drop(c)
  PROVE  IInv'
  <1>1. c \in 0..MaxPresses /\ TypeOK /\ c # None
    BY TypeFacts, Constants DEF IInv
  <1>2. /\ told \in [1..MaxPresses -> Given] /\ ToldTrue(told, done)
        /\ page \in PageType(Len(pressed)) /\ orphans \subseteq Ids
    BY TypeFacts DEF IInv
  <1>3. UNCHANGED <<issued, done, pressed, told, page>> /\ orphans' \subseteq Ids
    BY <1>2 DEF Retry, Drop
  <1>4. \E q \in {Free, Asks("mutate")} : call' = [call EXCEPT ![c] = q]
    BY DEF Retry, Drop, Goes, Ends
  <1> QED
    BY <1>1, <1>2, <1>3, <1>4, Asking, NothingCarried, CallMoves

LEMMA ListSteps ==
  ASSUME IInv, NEW c \in Requests, List(c) \/ ListFails(c)
  PROVE  IInv'
  <1>1. c \in 0..MaxPresses /\ TypeOK
    BY TypeFacts, Constants DEF IInv, Requests
  <1>2. /\ told \in [1..MaxPresses -> Given] /\ ToldTrue(told, done)
        /\ page \in PageType(Len(pressed)) /\ orphans \subseteq Ids
        /\ call[c] \in CallType
    BY <1>1, TypeFacts DEF IInv
  <1>3. UNCHANGED <<issued, done, pressed, told, page, orphans>>
    BY DEF List, ListFails
  <1>4. CASE ListFails(c)
    BY <1>1, <1>2, <1>3, <1>4, Asking, NothingCarried, CallMoves DEF ListFails, Ends
  <1>5. CASE List(c)
    <2> DEFINE q == [call[c] EXCEPT !.pc = "fragment", !.rows = issued]
    <2>1. /\ q \in CallType /\ q.pc = "fragment" /\ q.rows = issued
          /\ q.answer = call[c].answer
      BY <1>1, <1>2 DEF CallType, TypeOK
    <2>2. call' = [call EXCEPT ![c] = q] /\ call[c].pc = "list"
      BY <1>2, <1>5, TypeFacts DEF List, ListRead, CallType
    <2>3. Carries(c, call[c], done, pressed)
      BY <1>1 DEF IInv
    <2> HIDE DEF q
    <2>4. CASE c = None
      <3>1. Carries(c, q, done, pressed)
        BY <2>1, <2>3, <2>4 DEF Carries
      <3> QED
        BY <1>1, <1>2, <1>3, <2>1, <2>2, <3>1, CallMoves
    <2>5. CASE c # None
      <3>1. /\ c \in 1..Len(pressed) /\ done[c] = <<q.answer>> /\ q.answer # Refused
        BY <2>1, <2>2, <2>3, <2>5 DEF Carries
      <3>2. c \in 1..MaxPresses /\ q.answer \in Answers
        BY <1>1, <2>1, <2>5, Constants DEF CallType
      <3>3. Backed(pressed[c].op, q.answer, issued)
        BY <3>1, <3>2 DEF IInv, Authority
      <3>4. /\ q.answer.key \in KeyIds /\ q.answer.version <= issued[q.answer.key].version
            /\ q.answer.version \in Nat /\ issued[q.answer.key].version \in Nat
            /\ pressed[c].op = "revoke" => issued[q.answer.key].revoked
        BY <3>1, <3>2, <3>3, <1>1, TypeFacts, Constants DEF Backed, Answers, Row
      <3>5. Carries(c, q, done, pressed)
        BY <2>1, <2>5, <3>1, <3>4 DEF Carries, Active
      <3> QED
        BY <1>1, <1>2, <1>3, <2>1, <2>2, <3>5, CallMoves
    <2> QED
      BY <2>4, <2>5
  <1> QED
    BY <1>4, <1>5

\* An answer that a request carries may be told.
LEMMA Telling ==
  ASSUME IInv, NEW c \in Ids, NEW a \in Answers, done[c] = <<a>>, a # Refused,
         told' = [told EXCEPT ![c] = <<a>>]
  PROVE  told' \in [1..MaxPresses -> Given] /\ ToldTrue(told', done)
  <1>1. c \in 1..MaxPresses /\ told \in [1..MaxPresses -> Given] /\ <<a>> \in Given
    BY TypeFacts DEF IInv, Given
  <1>2. <<a>> # <<Refused>>
    <2>1. <<a>>[1] = a /\ <<Refused>>[1] = Refused
      OBVIOUS
    <2> QED
      BY <2>1
  <1> QED
    BY <1>1, <1>2 DEF IInv, ToldTrue

LEMMA DeliverStep ==
  ASSUME IInv, NEW c \in Requests, DeliverFragment(c)
  PROVE  IInv'
  <1>1. c \in 0..MaxPresses /\ TypeOK
    BY TypeFacts, Constants DEF IInv, Requests
  <1>2. /\ told \in [1..MaxPresses -> Given] /\ ToldTrue(told, done)
        /\ page \in PageType(Len(pressed)) /\ orphans \subseteq Ids
        /\ call[c] \in CallType /\ Len(pressed) \in Nat
    BY <1>1, TypeFacts DEF IInv
  <1>3. /\ UNCHANGED <<issued, done, pressed, orphans>> /\ call' = [call EXCEPT ![c] = Free]
        /\ page' = [page EXCEPT !.form = [f \in Forms |-> Swapped(f)], !.rows = call[c].rows]
        /\ call[c].pc = "fragment"
    BY DEF DeliverFragment, Ends
  <1>4. page' \in PageType(Len(pressed))
    <2>1. [f \in Forms |-> Swapped(f)] \in [Forms -> 0..Len(pressed)]
      BY <1>2, Constants DEF Swapped, PageType
    <2> QED
      BY <1>2, <1>3, <2>1 DEF PageType, CallType
  <1>5. told' \in [1..MaxPresses -> Given] /\ ToldTrue(told', done)
    <2>1. CASE c = None
      BY <1>2, <2>1 DEF DeliverFragment
    <2>2. CASE c # None
      <3>1. Carries(c, call[c], done, pressed)
        BY <1>1 DEF IInv
      <3>2. /\ c \in Ids /\ call[c].answer \in Answers /\ done[c] = <<call[c].answer>>
            /\ call[c].answer # Refused
        BY <1>2, <1>3, <2>2, <3>1 DEF Carries, Ids, CallType
      <3>3. told' = [told EXCEPT ![c] = <<call[c].answer>>]
        BY <2>2 DEF DeliverFragment, Hears
      <3> QED
        BY <3>2, <3>3, Telling
    <2> QED
      BY <2>1, <2>2
  <1> QED
    BY <1>1, <1>2, <1>3, <1>4, <1>5, Asking, NothingCarried, CallMoves

\* The authority serves mutation `id` while its request goes on as q.
LEMMA ServedMoves ==
  ASSUME IInv, NEW c \in Ids, NEW answer \in Answers, Serves(c, answer), UNCHANGED pressed,
         NEW q \in CallType, Carries(c, q, [done EXCEPT ![c] = <<answer>>], pressed),
         \/ call' = [call EXCEPT ![c] = q]
         \/ UNCHANGED call,
         UNCHANGED page, orphans' \subseteq Ids,
         \/ UNCHANGED told
         \/ answer # Refused /\ told' = [told EXCEPT ![c] = <<answer>>]
  PROVE  IInv'
  <1>1. /\ TypeOK /\ Authority /\ c \in 1..MaxPresses /\ c \in 0..MaxPresses
        /\ done \in [1..MaxPresses -> Given] /\ told \in [1..MaxPresses -> Given]
        /\ pressed' = pressed /\ Len(pressed) \in Nat /\ call \in [0..MaxPresses -> CallType]
        /\ Ids = 1..Len(pressed)
    BY TypeFacts, Constants DEF IInv
  <1>2. /\ issued' \in Rows /\ done' \in [1..MaxPresses -> Given] /\ Authority'
        /\ done'[c] = <<answer>>
        /\ \A o \in 1..MaxPresses : done[o] # <<>> => done'[o] = done[o]
    BY <1>1, ServedKeeps
  <1>3. Carries(c, q, done', pressed)
    BY <1>1, <1>2 DEF Carries
  <1>4. ASSUME NEW d \in 0..MaxPresses
        PROVE  Carries(d, call[d], done', pressed)
    <2>1. Carries(d, call[d], done, pressed)
      BY DEF IInv
    <2> QED
      <3>1. /\ \A id \in 1..Len(pressed) : pressed[id] = pressed[id]
            /\ Len(pressed) \in Nat /\ Len(pressed) <= Len(pressed)
            /\ \A id \in 1..MaxPresses : done[id] # <<>> => done'[id] = done[id]
        BY <1>1, <1>2
      <3> QED
        BY <2>1, <3>1, StillCarries
  <1>5. \A d \in 0..MaxPresses : Carries(d, call'[d], done', pressed')
    <2> SUFFICES ASSUME NEW d \in 0..MaxPresses PROVE Carries(d, call'[d], done', pressed)
      BY <1>1
    <2>1. call'[d] = call[d] \/ (d = c /\ call'[d] = q)
      BY <1>1
    <2> QED
      BY <1>3, <1>4, <2>1
  <1>6. told' \in [1..MaxPresses -> Given] /\ ToldTrue(told', done')
    <2>1. \A id \in 1..MaxPresses :
             told[id] # <<>> => told[id] = done'[id] /\ told[id] # <<Refused>>
      BY <1>2 DEF IInv, ToldTrue
    <2>2. CASE UNCHANGED told
      BY <1>1, <2>1, <2>2 DEF ToldTrue
    <2>3. CASE answer # Refused /\ told' = [told EXCEPT ![c] = <<answer>>]
      <3>1. <<answer>> \in Given
        BY DEF Given
      <3>2. <<answer>> # <<Refused>>
        <4>1. <<answer>>[1] = answer /\ <<Refused>>[1] = Refused
          OBVIOUS
        <4> QED
          BY <2>3, <4>1
      <3>3. /\ told' \in [1..MaxPresses -> Given]
            /\ \A id \in 1..MaxPresses :
                  told'[id] = told[id] \/ (id = c /\ told'[id] = <<answer>>)
        BY <1>1, <2>3, <3>1
      <3> QED
        BY <1>2, <2>1, <3>2, <3>3 DEF ToldTrue
    <2> QED
      BY <2>2, <2>3
  <1>7. call' \in [0..MaxPresses -> CallType]
    BY <1>1
  <1>8. TypeOK'
    BY <1>1, <1>2, <1>6, <1>7, TypeFacts DEF TypeOK, Given, CallType, PageType, Ids
  <1> QED
    BY <1>2, <1>5, <1>6, <1>8 DEF IInv

LEMMA MutateSteps ==
  ASSUME IInv, NEW c \in Ids, Mutate(c) \/ MutateFails(c) \/ ServeOrphan(c)
  PROVE  IInv'
  <1>1. /\ TypeOK /\ c \in 1..MaxPresses /\ c \in 0..MaxPresses /\ c # None
        /\ call[c] \in CallType /\ orphans \subseteq Ids /\ c \in 1..Len(pressed)
        /\ done \in [1..MaxPresses -> Given] /\ told \in [1..MaxPresses -> Given]
        /\ ToldTrue(told, done) /\ page \in PageType(Len(pressed))
        /\ call \in [0..MaxPresses -> CallType]
    BY TypeFacts, Constants DEF IInv
  <1>2. UNCHANGED <<pressed, page>> /\ orphans' \subseteq Ids
    BY <1>1 DEF Mutate, MutateFails, ServeOrphan
  <1>3. \A dn : Carries(c, Free, dn, pressed)
    BY <1>1, NothingCarried
  <1>4. Free \in CallType
    BY Asking
  <1>5. CASE Mutate(c)
    <2>1. PICK answer \in Answers :
            /\ Serves(c, answer)
            /\ \/ answer = Refused /\ Ends(c) /\ UNCHANGED told
               \/ answer # Refused /\ pressed[c].via = Json /\ Ends(c) /\ Hears(c, answer)
               \/ /\ answer # Refused /\ pressed[c].via # Json
                  /\ call' = [call EXCEPT ![c].pc = "list", ![c].answer = answer]
                  /\ UNCHANGED told
      BY <1>5 DEF Mutate
    <2>2. CASE Ends(c) /\ (UNCHANGED told \/ (answer # Refused /\ Hears(c, answer)))
      BY <1>2, <1>3, <1>4, <2>1, <2>2, ServedMoves DEF Ends, Hears
    <2>3. CASE /\ answer # Refused /\ UNCHANGED told
               /\ call' = [call EXCEPT ![c].pc = "list", ![c].answer = answer]
      <3> DEFINE q == [call[c] EXCEPT !.pc = "list", !.answer = answer]
      <3>1. q \in CallType /\ q.pc = "list" /\ q.answer = answer
        BY <1>1 DEF CallType
      <3>2. call' = [call EXCEPT ![c] = q]
        BY <1>1, <2>3 DEF CallType
      <3> HIDE DEF q
      <3>3. Carries(c, q, [done EXCEPT ![c] = <<answer>>], pressed)
        BY <1>1, <2>3, <3>1 DEF Carries
      <3> QED
        BY <1>2, <2>1, <2>3, <3>1, <3>2, <3>3, ServedMoves
    <2> QED
      BY <2>1, <2>2, <2>3
  <1>6. ASSUME NEW answer \in Answers, Serves(c, answer), MutateFails(c) \/ ServeOrphan(c)
        PROVE  IInv'
    <2>1. UNCHANGED told /\ (call' = [call EXCEPT ![c] = Free] \/ UNCHANGED call)
      BY <1>6 DEF MutateFails, ServeOrphan, Ends
    <2> QED
      BY <1>2, <1>3, <1>4, <1>6, <2>1, ServedMoves
  <1>7. CASE UNCHANGED <<issued, done>> /\ (MutateFails(c) \/ ServeOrphan(c))
    <2>1. UNCHANGED told /\ (call' = [call EXCEPT ![c] = Free] \/ UNCHANGED call)
      BY <1>7 DEF MutateFails, ServeOrphan, Ends
    <2>2. CASE call' = [call EXCEPT ![c] = Free]
      BY <1>1, <1>2, <1>3, <1>4, <1>7, <2>1, <2>2, CallMoves
    <2>3. CASE UNCHANGED call
      <3>1. call' = [call EXCEPT ![c] = call[c]] /\ Carries(c, call[c], done, pressed)
        BY <1>1, <2>3 DEF IInv
      <3> QED
        BY <1>1, <1>2, <1>7, <2>1, <3>1, CallMoves
    <2> QED
      BY <2>1, <2>2, <2>3
  <1> QED
    BY <1>5, <1>6, <1>7 DEF MutateFails, ServeOrphan

\* Something is pressed: its idempotency key is new.
LEMMA PressSteps ==
  ASSUME IInv, NEW f \in Forms, Press(f) \/ Command(f)
  PROVE  IInv'
  <1> DEFINE n == Len(pressed) + 1
  <1>1. /\ TypeOK /\ pressed \in Seq(Intent) /\ Len(pressed) \in Nat
        /\ done \in [1..MaxPresses -> Given] /\ Ids = 1..Len(pressed)
        /\ call \in [0..MaxPresses -> CallType] /\ page \in PageType(Len(pressed))
        /\ issued \in [KeyIds -> Row] /\ orphans \subseteq Ids
    BY TypeFacts DEF IInv
  <1>2. PICK via \in Json..MaxLoads : Submit(f[1], f[2], via)
    <2>1. CASE Press(f)
      BY <1>1, <2>1, Constants DEF Press, PageType, Json
    <2>2. CASE Command(f)
      BY <2>2, Constants DEF Command, Json
    <2> QED
      BY <2>1, <2>2
  <1> DEFINE i == [op |-> f[1], key |-> f[2], via |-> via]
  <1>3. /\ Len(pressed) < MaxPresses /\ pressed' = Append(pressed, i)
        /\ call' = [call EXCEPT ![n] = Asks("mutate")] /\ i \in Intent
        /\ UNCHANGED <<issued, done, told, orphans>>
    BY <1>2, FormFacts DEF Submit, Goes, Press, Command
  <1> HIDE DEF i
  <1>4. /\ pressed' \in Seq(Intent) /\ Len(pressed') = n /\ n <= MaxPresses
        /\ \A d \in 1..Len(pressed) : pressed'[d] = pressed[d]
        /\ Ids' = Ids \cup {n} /\ n \notin Ids /\ n \in 1..MaxPresses /\ n \in 0..MaxPresses
        /\ n # None
    BY <1>1, <1>3, Constants DEF Ids
  <1>5. page' \in PageType(n)
    <2>1. page \in PageType(n) /\ n \in 0..n
      BY <1>1, <1>4, Constants DEF PageType
    <2>2. CASE Press(f)
      <3>1. page' = [page EXCEPT !.form[f] = n]
        BY <2>2 DEF Press
      <3> HIDE DEF n
      <3>2. page.form \in [Forms -> 0..n]
        BY <2>1 DEF PageType
      <3>3. [page.form EXCEPT ![f] = n] \in [Forms -> 0..n]
        BY <2>1, <3>2
      <3> QED
        BY <2>1, <3>1, <3>3 DEF PageType
    <2>3. CASE Command(f)
      BY <2>1, <2>3 DEF Command
    <2> QED
      BY <2>2, <2>3
  <1>6. call' \in [0..MaxPresses -> CallType]
    BY <1>1, <1>3, Asking
  <1>7. TypeOK'
    BY <1>1, <1>3, <1>4, <1>5, <1>6, TypeFacts DEF TypeOK, Given, CallType, PageType, Ids
  <1>8. done[n] = <<>>
    <2>1. \A a \in Answers : done[n] # <<a>>
      BY <1>4 DEF IInv, Authority
    <2> QED
      BY <1>1, <1>4, <2>1 DEF Given
  <1>9. \A d \in 0..MaxPresses : Carries(d, call'[d], done', pressed')
    <2> SUFFICES ASSUME NEW d \in 0..MaxPresses PROVE Carries(d, call'[d], done, pressed')
      BY <1>3
    <2>1. Carries(d, call[d], done, pressed)
      BY DEF IInv
    <2>2. Carries(d, call[d], done, pressed')
      BY <1>1, <1>4, <2>1, StillCarries
    <2> QED
      <3>1. CASE d # n
        BY <1>1, <1>3, <2>2, <3>1
      <3>2. CASE d = n
        BY <1>1, <1>3, <1>4, <3>2, NothingCarried
      <3> QED
        BY <3>1, <3>2
  <1>10. Counted'
    <2>1. ASSUME NEW op, NEW k
          PROVE  /\ Cardinality(Spent(op, k)) \in Nat /\ Cardinality(Spent(op, k)') \in Nat
                 /\ Cardinality(Spent(op, k)) <= Cardinality(Spent(op, k)')
      <3>1. Spent(op, k)' = Spent(op, k)
        BY <1>1, <1>3, <1>4, <1>8 DEF Spent, Asked
      <3>2. Cardinality(Spent(op, k)) \in Nat
        BY <1>1, SpentFinite
      <3> QED
        BY <3>1, <3>2
    <2>2. Created' = Created /\ Cardinality(Created) \in Nat
      BY <1>3, KeysFinite, FS_CardinalityType DEF Created
    <2>3. Cardinality(Created') <= Already + Cardinality(Spent("create", None)')
      BY <2>1, <2>2, Constants DEF IInv, Authority, Counted
    <2>4. ASSUME NEW k \in KeyIds
          PROVE  issued'[k].version <= 1 + Cardinality(Spent("rotate", k)')
      <3>1. issued[k].version <= 1 + Cardinality(Spent("rotate", k)) /\ issued[k].version \in Nat
        BY <1>1, Constants DEF IInv, Authority, Counted, Row
      <3> QED
        BY <1>3, <2>1, <3>1
    <2> QED
      BY <2>3, <2>4 DEF Counted
  <1>11. Authority'
    <2>1. ASSUME NEW id \in 1..MaxPresses, NEW a \in Answers, done[id] = <<a>>
          PROVE  id \in Ids' /\ Backed(pressed'[id].op, a, issued)
      <3>1. id \in Ids /\ Backed(pressed[id].op, a, issued)
        BY <2>1 DEF IInv, Authority
      <3> QED
        BY <1>1, <1>4, <3>1
    <2>2. ASSUME NEW id \in Ids', NEW other \in Ids', id # other, done[id] = done[other],
                 done[id] \notin {<<>>, <<Refused>>}
          PROVE  pressed'[id].op = "revoke" \/ pressed'[other].op = "revoke"
      <3>1. id # n /\ other # n
        BY <1>8, <2>2
      <3>2. id \in Ids /\ other \in Ids
        BY <1>4, <2>2, <3>1
      <3>3. pressed[id].op = "revoke" \/ pressed[other].op = "revoke"
        BY <2>2, <3>2 DEF IInv, Authority
      <3> QED
        BY <1>1, <1>4, <3>2, <3>3
    <2> QED
      BY <1>3, <1>10, <2>1, <2>2 DEF Authority
  <1> QED
    BY <1>3, <1>7, <1>9, <1>11 DEF IInv

LEMMA ReloadStep ==
  ASSUME IInv, Reload
  PROVE  IInv'
  <1>1. /\ TypeOK /\ call \in [0..MaxPresses -> CallType] /\ orphans \subseteq Ids
        /\ page \in PageType(Len(pressed)) /\ Len(pressed) \in Nat
        /\ Ids \subseteq 1..MaxPresses
    BY TypeFacts DEF IInv
  <1>2. /\ page' = PageLoaded(page.load + 1) /\ page.load < MaxLoads
        /\ UNCHANGED <<issued, done, pressed, told>>
        /\ DOMAIN call = 0..MaxPresses
    BY <1>1 DEF Reload
  <1>3. page' \in PageType(Len(pressed))
    BY <1>1, <1>2, EmptyRows, Constants DEF PageLoaded, PageType
  <1>4. /\ call' \in [0..MaxPresses -> CallType]
        /\ \A c \in 0..MaxPresses : \/ c = None /\ call'[c] = Asks("list")
                                   \/ call'[c] = Free
                                   \/ call'[c] = call[c]
    BY <1>1, <1>2, Asking DEF Reload
  <1>5. orphans' \subseteq Ids
    <2>1. call[None].pc # "mutate"
      BY Constants DEF IInv, Carries
    <2> QED
      BY <1>1, <2>1 DEF Reload
  <1>6. \A c \in 0..MaxPresses : Carries(c, call'[c], done', pressed')
    BY <1>2, <1>4, NothingCarried DEF IInv
  <1>7. TypeOK'
    BY <1>1, <1>2, <1>3, <1>4, <1>5 DEF TypeOK, Given, CallType, PageType, Ids
  <1>8. Authority'
    BY <1>2 DEF IInv, Authority, Counted, Created, Spent, Asked, Ids
  <1> QED
    BY <1>2, <1>6, <1>7, <1>8 DEF IInv

----------------------------------------------------------------------------
(* The results.                                                              *)

\* Whatever is retried, dropped, served late or reloaded, the books are right.
THEOREM Invariance == Spec => []IInv
  <1>1. Init => IInv
    <2> SUFFICES ASSUME Init PROVE IInv
      OBVIOUS
    <2>1. /\ issued = [k \in KeyIds |-> [version |-> IF k <= Already THEN 1 ELSE 0,
                                        revoked |-> FALSE]]
          /\ done = [id \in 1..MaxPresses |-> <<>>] /\ told = [id \in 1..MaxPresses |-> <<>>]
          /\ pressed = <<>> /\ page = PageLoaded(1) /\ orphans = {}
          /\ call = [c \in 0..MaxPresses |-> IF c = None THEN Asks("list") ELSE Free]
      BY DEF Init, LedgerInit
    <2>2. issued \in Rows
      BY <2>1, Constants DEF Rows
    <2>3. pressed \in Seq(Intent) /\ Len(pressed) = 0 /\ Ids = {}
      BY <2>1 DEF Ids
    <2>4. page \in PageType(0)
      BY <2>1, EmptyRows, Constants DEF PageLoaded, PageType
    <2>5. call \in [0..MaxPresses -> CallType]
      BY <2>1, Asking
    <2>6. TypeOK
      <3>1. /\ done \in [1..MaxPresses -> {<<>>} \cup {<<a>> : a \in Answers}]
            /\ told \in [1..MaxPresses -> {<<>>} \cup {<<a>> : a \in Answers}]
        BY <2>1
      <3>2. page \in PageType(Len(pressed)) /\ Len(pressed) <= MaxPresses
        BY <2>3, <2>4, Constants
      <3>3. orphans \subseteq 1..Len(pressed)
        BY <2>1
      <3> QED
        BY <2>2, <2>3, <2>5, <3>1, <3>2, <3>3 DEF TypeOK, PageType, CallType
    <2>7. \A a : <<a>> # <<>>
      OBVIOUS
    <2>8. Counted
      <3>1. Created = 1..Already
        BY <2>1, Constants DEF Created, KeyIds
      <3>2. Cardinality(Created) = Already
        BY <3>1, Constants, FS_Interval
      <3>3. Cardinality(Created) <= Already + Cardinality(Spent("create", None))
        BY <2>6, <3>2, Constants, SpentFinite
      <3>4. ASSUME NEW k \in KeyIds
            PROVE  issued[k].version <= 1 + Cardinality(Spent("rotate", k))
        <4>1. issued[k].version \in {0, 1}
          BY <2>1
        <4>2. Cardinality(Spent("rotate", k)) \in Nat
          BY <2>6, SpentFinite
        <4> QED
          BY <4>1, <4>2
      <3> QED
        BY <3>3, <3>4 DEF Counted
    <2>9. Authority
      BY <2>1, <2>3, <2>7, <2>8 DEF Authority
    <2>10. \A c \in 0..MaxPresses : Carries(c, call[c], done, pressed)
      BY <2>1, NothingCarried
    <2>11. ToldTrue(told, done)
      BY <2>1 DEF ToldTrue
    <2> QED
      BY <2>6, <2>9, <2>10, <2>11 DEF IInv
  <1>2. IInv /\ [Next]_vars => IInv'
    <2> SUFFICES ASSUME IInv, [Next]_vars PROVE IInv'
      OBVIOUS
    <2>1. CASE UNCHANGED vars
      <3>1. UNCHANGED <<issued, done, pressed, told, page, call, orphans>>
        BY <2>1 DEF vars
      <3>2. TypeOK'
        BY <3>1 DEF IInv, TypeOK, Ids
      <3>3. Authority'
        BY <3>1 DEF IInv, Authority, Counted, Created, Spent, Asked, Ids
      <3> QED
        BY <3>1, <3>2, <3>3 DEF IInv
    <2> QED
      BY <2>1, PressSteps, WaitingSteps, MutateSteps, ListSteps, DeliverStep, ReloadStep DEF Next
  <1> QED
    BY <1>1, <1>2, PTL DEF Spec

\* The keys, the page and the calls keep their types: no key is at a version that was not
\* asked for (main.rs:2245-2250), and no call carries an answer that was not given.
THEOREM Types == Spec => []TypeOK
  <1>1. IInv => TypeOK
    BY DEF IInv
  <1> QED
    BY <1>1, Invariance, PTL

\* However often a form or a command is repeated, it takes effect once
\* (main.rs:830-851, 877-879).
THEOREM TakesEffectOnce == Spec => []OneEffectEach
  <1>1. ASSUME IInv PROVE OneEffectEach
    <2>1. TypeOK /\ issued \in [KeyIds -> Row]
      BY <1>1, TypeFacts DEF IInv
    <2>2. Cardinality(Created) <= Already + Cardinality(Asked("create", None))
      <3>1. /\ Cardinality(Created) <= Already + Cardinality(Spent("create", None))
            /\ Cardinality(Created) \in Nat
        BY <1>1, KeysFinite, FS_CardinalityType DEF IInv, Authority, Counted
      <3>2. /\ Cardinality(Spent("create", None)) <= Cardinality(Asked("create", None))
            /\ Cardinality(Spent("create", None)) \in Nat
            /\ Cardinality(Asked("create", None)) \in Nat
        BY <2>1, SpentFinite
      <3> QED
        BY <3>1, <3>2, Constants
    <2>3. ASSUME NEW k \in KeyIds
          PROVE  issued[k].version <= 1 + Cardinality(Asked("rotate", k))
      <3>1. issued[k].version <= 1 + Cardinality(Spent("rotate", k)) /\ issued[k].version \in Nat
        BY <1>1, <2>1, Constants DEF IInv, Authority, Counted, Row
      <3>2. /\ Cardinality(Spent("rotate", k)) <= Cardinality(Asked("rotate", k))
            /\ Cardinality(Spent("rotate", k)) \in Nat
            /\ Cardinality(Asked("rotate", k)) \in Nat
        BY <2>1, SpentFinite
      <3> QED
        BY <3>1, <3>2
    <2> QED
      BY <2>2, <2>3 DEF OneEffectEach, Created
  <1> QED
    BY <1>1, Invariance, PTL

\* The list of a fragment is later than the mutation it answers (main.rs:2083, 2141, 2166).
THEOREM ListIsLater == Spec => []ListFollowsMutation
  <1>1. ASSUME IInv PROVE ListFollowsMutation
    <2>1. \A c \in Requests : c \in 0..MaxPresses
      BY <1>1, TypeFacts, Constants DEF IInv, Requests
    <2>2. \A c \in Requests : Carries(c, call[c], done, pressed)
      BY <1>1, <2>1 DEF IInv
    <2> QED
      BY <2>2 DEF ListFollowsMutation, Carries
  <1> QED
    BY <1>1, Invariance, PTL

\* Each request is told what its one mutation produced, and no request another's secret
\* (main.rs:2245-2250).
THEOREM NobodyElsesSecret == Spec => []SecretsNeverMixed
  <1>1. ASSUME IInv PROVE SecretsNeverMixed
    <2>1. Ids \subseteq 1..MaxPresses
      BY <1>1, TypeFacts DEF IInv
    <2>2. \A id \in Ids : told[id] # <<>> => told[id] = done[id] /\ told[id] # <<Refused>>
      BY <1>1, <2>1 DEF IInv, ToldTrue
    <2>3. \A id, other \in Ids :
             id # other /\ done[id] = done[other] /\ done[id] \notin {<<>>, <<Refused>>}
                => pressed[id].op = "revoke" \/ pressed[other].op = "revoke"
      BY <1>1 DEF IInv, Authority
    <2> QED
      BY <2>2, <2>3 DEF SecretsNeverMixed
  <1> QED
    BY <1>1, Invariance, PTL

----------------------------------------------------------------------------
(* The ledger.                                                               *)

\* A mutation served is one carried out now, or the answer to one that was.
LEMMA ServedOnce ==
  ASSUME IInv, NEW id \in Ids, NEW answer \in Answers, Serves(id, answer), UNCHANGED pressed
  PROVE  (CarryOut(id) \/ UNCHANGED <<issued, done>>) /\ done'[id] = <<answer>>
  <1>1. TypeOK /\ Authority
    BY DEF IInv
  <1>2. done'[id] = <<answer>>
    BY <1>1, ServedKeeps
  <1>3. CarryOut(id) \/ UNCHANGED <<issued, done>>
    <2>1. id # None
      BY <1>1, TypeFacts
    <2> QED
      BY <2>1 DEF Serves, Header, Seen, CarryOut
  <1> QED
    BY <1>2, <1>3

\* Only an answer that is no refusal is told, and it is the one on the books.
LEMMA InformedRightly ==
  ASSUME NEW id \in Ids, NEW answer, answer # Refused, done'[id] = <<answer>>, Hears(id, answer)
  PROVE  Inform(id)
  <1>1. <<answer>> # <<>> /\ <<answer>>[1] = answer /\ <<Refused>>[1] = Refused
    OBVIOUS
  <1> QED
    BY <1>1 DEF Inform, Hears

LEMMA AskedFor ==
  ASSUME IInv, NEW f \in Forms, Press(f) \/ Command(f)
  PROVE  \E i \in Intent : AskFor(i)
  <1>1. page.load \in Json..MaxLoads /\ Json \in Json..MaxLoads
    BY TypeFacts, Constants DEF IInv, PageType, Json
  <1>2. PICK v \in Json..MaxLoads : Submit(f[1], f[2], v) /\ UNCHANGED <<issued, done, told>>
    BY <1>1 DEF Press, Command
  <1> QED
    BY <1>2, FormFacts DEF Submit, AskFor

\* Every step of the handlers is a step of the ledger, or changes nothing in it.
LEMMA StepPromised ==
  IInv /\ [Next]_vars => [LedgerNext]_<<issued, done, pressed, told>>
  <1> SUFFICES ASSUME IInv, Next PROVE [LedgerNext]_<<issued, done, pressed, told>>
    BY DEF vars
  <1>1. ASSUME NEW f \in Forms, Press(f) \/ Command(f) PROVE LedgerNext
    BY <1>1, AskedFor DEF LedgerNext
  <1>2. ASSUME NEW c \in Ids, Mutate(c) \/ MutateFails(c) \/ ServeOrphan(c)
        PROVE  LedgerNext \/ UNCHANGED <<issued, done, pressed, told>>
    <2>1. UNCHANGED pressed
      BY <1>2 DEF Mutate, MutateFails, ServeOrphan
    <2>2. CASE Mutate(c)
      <3>1. PICK answer \in Answers :
               Serves(c, answer) /\ (UNCHANGED told \/ (answer # Refused /\ Hears(c, answer)))
        BY <2>2 DEF Mutate
      <3>2. (CarryOut(c) \/ UNCHANGED <<issued, done>>) /\ done'[c] = <<answer>>
        BY <2>1, <3>1, ServedOnce
      <3> QED
        BY <2>1, <3>1, <3>2, InformedRightly DEF LedgerNext
    <2>3. CASE MutateFails(c) \/ ServeOrphan(c)
      <3>1. /\ UNCHANGED told
            /\ UNCHANGED <<issued, done>> \/ \E answer \in Answers : Serves(c, answer)
        BY <2>3 DEF MutateFails, ServeOrphan
      <3> QED
        BY <2>1, <3>1, ServedOnce DEF LedgerNext
    <2> QED
      BY <1>2, <2>2, <2>3
  <1>3. ASSUME NEW c \in Requests, DeliverFragment(c)
        PROVE  LedgerNext \/ UNCHANGED <<issued, done, pressed, told>>
    <2>1. UNCHANGED <<issued, done, pressed>> /\ call[c].pc = "fragment"
      BY <1>3 DEF DeliverFragment
    <2>2. CASE c = None
      BY <1>3, <2>1, <2>2 DEF DeliverFragment
    <2>3. CASE c # None
      <3>1. c \in Ids /\ c \in 0..MaxPresses
        BY <2>3, TypeFacts, Constants DEF IInv, Requests
      <3>2. Carries(c, call[c], done, pressed)
        BY <3>1 DEF IInv
      <3>3. done'[c] = <<call[c].answer>> /\ call[c].answer # Refused
        BY <2>1, <2>3, <3>2 DEF Carries
      <3>4. Hears(c, call[c].answer)
        BY <1>3, <2>3 DEF DeliverFragment
      <3> QED
        BY <2>1, <3>1, <3>3, <3>4, InformedRightly DEF LedgerNext
    <2> QED
      BY <2>2, <2>3
  <1>4. ASSUME NEW c \in Requests, List(c) \/ ListFails(c)
        PROVE  UNCHANGED <<issued, done, pressed, told>>
    BY <1>4 DEF List, ListFails
  <1>5. ASSUME NEW c \in Ids, Retry(c) \/ Drop(c)
        PROVE  UNCHANGED <<issued, done, pressed, told>>
    BY <1>5 DEF Retry, Drop
  <1>6. Reload => UNCHANGED <<issued, done, pressed, told>>
    BY DEF Reload
  <1> QED
    BY <1>1, <1>2, <1>3, <1>4, <1>5, <1>6 DEF Next

\* However attempts are repeated, lost, dropped, served late or forgotten by a new page,
\* a submission is carried out once at most, at one instant, and who is told the outcome
\* is told that of the one time (main.rs:830-851, 874-882).
THEOREM Implements == Spec => KeyLedgerImplemented
  <1>1. Init => LedgerInit
    BY DEF Init
  <1> QED
    BY <1>1, StepPromised, Invariance, PTL DEF Spec, KeyLedgerImplemented, LedgerSpec
=============================================================================
