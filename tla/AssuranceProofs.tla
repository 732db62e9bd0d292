--------------------------- MODULE AssuranceProofs ---------------------------
(***************************************************************************)
(* Proofs about Assurance, for every set of browsers, requests, factors    *)
(* and tokens.                                                             *)
(*                                                                         *)
(* The inductive invariant says of each request what its handler knows at  *)
(* each await (SlotFacts), that the two history flags keep up with the     *)
(* account (Current), and that a token just granted is known to nobody but *)
(* the request it was granted to (GotAlone), which is what keeps the       *)
(* pending cookie and the sessions apart.  The facts that depend on the    *)
(* answer to a factor lookup hold only when Supabase sends no empty body.  *)
(***************************************************************************)
EXTENDS Assurance, TLAPS

\* The request was, for an aal1 credential, let in by a live lookup.
LetIn(q) == EmptyBodies \/ (q.cred \in Aal1 => q.unenrolled)

\* What holds of a request at each point of its handler.
SlotFacts(q) ==
    /\ q.pc = "idle" => q = Idle
    /\ q.pc = "grant" => q.kind = "login"
    /\ q.pc = "list" => q.kind = "login" /\ q.got \in Aal1
    /\ q.pc = "challenge" =>
           /\ q.kind \in {"login", "activate", "disable"}
           /\ q.factor \in Factors
           /\ q.kind = "login" => q.got \in Aal1 /\ q.enrolled
           /\ q.kind # "login" => LetIn(q)
    /\ q.pc = "verify" =>
           /\ q.kind \in {"mfa", "activate", "disable"}
           /\ q.factor \in Factors
           /\ q.kind # "mfa" => LetIn(q)
    /\ q.pc = "finalize" =>
           \/ q.kind = "login" /\ q.got \in Aal1 /\ (EmptyBodies \/ q.unenrolled)
           \/ q.kind = "mfa" /\ q.got \in Aal2
    /\ q.pc \in {"gate", "gatelist", "handler"} =>
           q.kind \in {"page", "enroll", "activate", "disable"}
    /\ q.kind \in {"enroll", "activate", "disable"} => q.factor \in Factors
    /\ q.pc \in {"handler", "enroll"} => LetIn(q)
    /\ q.pc = "enroll" => q.kind = "enroll"
    /\ q.pc = "unenroll" => q.kind = "disable" /\ q.proved = {q.factor}
    /\ q.kind = "disable" /\ q.pc \in {"challenge", "verify", "unenroll"} => q.cred \in Aal2
    /\ q.kind = "mfa" => q.factor \in Factors
    /\ q.pc = "logout" => q.kind = "logout"
    /\ q.setSession \in {Keep, None, q.got}
    /\ q.setPending \in {Keep, None, q.got} \cap (Aal1 \cup {None, Keep})
    /\ q.setPending \in Tokens => q.setSession = Keep
    /\ q.pc \notin {"reply"} => q.setSession = Keep /\ q.setPending = Keep
    /\ q.setSession \in Aal1 => EmptyBodies \/ q.unenrolled
    /\ q.acted /\ q.kind # "logout" => LetIn(q)
    /\ q.demanded => q.enrolled

\* The history flags of a request in flight cover the present moment.
Current(q, fac) ==
    q.pc # "idle" => /\ Verified(fac) = {} => q.unenrolled
                     /\ Verified(fac) # {} => q.enrolled

\* The token request r was granted is held by no cookie and no other request.
GotAlone(r, got, reqs, jars) ==
    got # None =>
        /\ \A o \in Requests \ {r} : reqs[o].got # got
        /\ \A b \in Browsers : jars[b].session # got /\ jars[b].pending # got

JarsApart(jars) ==
    \A b, c \in Browsers : jars[b].pending # None => jars[c].session # jars[b].pending

IInv ==
    /\ TypeOK
    /\ \A r \in Requests : SlotFacts(req[r]) /\ Current(req[r], factor)
    /\ \A r \in Requests : GotAlone(r, req[r].got, req, jar)
    /\ JarsApart(jar)

----------------------------------------------------------------------------
LEMMA IdleFacts == Idle \in RequestType /\ SlotFacts(Idle) /\ Idle.pc = "idle"
                   /\ Idle.got = None /\ Idle.cred = None
  BY AssuranceAssumption DEF Idle, RequestType, SlotFacts, Awaits, Kinds, Tokens, LetIn

\* The state as each action's proof uses it, for one request.
LEMMA OneSlot ==
  ASSUME IInv, NEW r \in Requests
  PROVE  /\ req[r] \in RequestType
         /\ SlotFacts(req[r])
         /\ Current(req[r], factor)
         /\ GotAlone(r, req[r].got, req, jar)
  BY DEF IInv, TypeOK

\* Request r goes on as q.
LEMMA SlotMoves ==
  ASSUME IInv, NEW r \in Requests, NEW q \in RequestType,
         SlotFacts(q), Current(q, factor), GotAlone(r, q.got, req, jar),
         Goes(r, q)
  PROVE  IInv'
  <1>1. req' = [req EXCEPT ![r] = q] /\ UNCHANGED <<factor, expired, jar>>
    BY DEF Goes
  <1>2. req \in [Requests -> RequestType]
    BY DEF IInv, TypeOK
  <1>3. req'[r] = q /\ \A o \in Requests \ {r} : req'[o] = req[o]
    BY <1>1, <1>2
  <1>4. TypeOK'
    BY <1>1, <1>2 DEF IInv, TypeOK
  <1>5. \A o \in Requests : SlotFacts(req[o])' /\ Current(req[o], factor)'
    <2>1. \A o \in Requests : SlotFacts(req'[o]) /\ Current(req'[o], factor)
      BY <1>3 DEF IInv
    <2> QED
      BY <2>1, <1>1 DEF SlotFacts, Current, LetIn, Verified
  <1>6. \A o \in Requests : GotAlone(o, req[o].got, req, jar)'
    <2> SUFFICES ASSUME NEW o \in Requests, req'[o].got # None
                 PROVE  /\ \A p \in Requests \ {o} : req'[p].got # req'[o].got
                        /\ \A b \in Browsers : jar[b].session # req'[o].got
                                               /\ jar[b].pending # req'[o].got
      BY <1>1 DEF GotAlone
    <2>1. CASE o = r
      BY <2>1, <1>3 DEF GotAlone
    <2>2. CASE o # r
      BY <2>2, <1>3 DEF GotAlone, IInv
    <2> QED
      BY <2>1, <2>2
  <1>7. JarsApart(jar)'
    BY <1>1 DEF IInv, JarsApart
  <1> QED
    BY <1>4, <1>5, <1>6, <1>7 DEF IInv

\* What a handler knows, it still knows when the account changes.
LEMMA FactsGrow ==
  ASSUME NEW q \in RequestType, SlotFacts(q), q.pc # "idle", NEW seen,
         \/ seen = [q EXCEPT !.unenrolled = TRUE]
         \/ seen = [q EXCEPT !.enrolled = TRUE]
  PROVE  seen \in RequestType /\ SlotFacts(seen) /\ seen.got = q.got
  <1>1. seen \in RequestType
    BY DEF RequestType
  <1>2. /\ seen.pc = q.pc /\ seen.kind = q.kind /\ seen.cred = q.cred /\ seen.got = q.got
        /\ seen.factor = q.factor /\ seen.setSession = q.setSession
        /\ seen.setPending = q.setPending /\ seen.acted = q.acted
        /\ seen.demanded = q.demanded /\ seen.proved = q.proved
    BY DEF RequestType
  <1>3. (q.unenrolled => seen.unenrolled) /\ (q.enrolled => seen.enrolled)
    BY DEF RequestType
  <1>4. SlotFacts(seen)
    BY <1>2, <1>3 DEF SlotFacts, LetIn
  <1> QED
    BY <1>1, <1>2, <1>4

\* The account's factors change, and request r goes on as q.
LEMMA FactorsMove ==
  ASSUME IInv, NEW r \in Requests, NEW q \in RequestType,
         SlotFacts(q), q.pc # "idle", GotAlone(r, q.got, req, jar),
         NEW f \in Factors, NEW state \in {"absent", "unverified", "verified"},
         SetFactor(f, state, [req EXCEPT ![r] = q]), UNCHANGED <<expired, jar>>
  PROVE  IInv'
  <1> DEFINE reqs == [req EXCEPT ![r] = q]
  <1>1. factor' = [factor EXCEPT ![f] = state] /\ req' = Observe(reqs, factor')
    BY DEF SetFactor
  <1>2. req \in [Requests -> RequestType]
    BY DEF IInv, TypeOK
  <1>3. reqs \in [Requests -> RequestType] /\ reqs[r] = q
        /\ \A o \in Requests \ {r} : reqs[o] = req[o]
    BY <1>2
  <1>4. \A o \in Requests : SlotFacts(reqs[o])
    BY <1>3 DEF IInv
  <1> HIDE DEF reqs
  <1>5. \A o \in Requests : /\ req'[o] \in RequestType
                            /\ SlotFacts(req'[o])
                            /\ Current(req'[o], factor')
                            /\ req'[o].got = reqs[o].got
    <2> SUFFICES ASSUME NEW o \in Requests
                 PROVE  /\ req'[o] \in RequestType
                        /\ SlotFacts(req'[o])
                        /\ Current(req'[o], factor')
                        /\ req'[o].got = reqs[o].got
      OBVIOUS
    <2>1. CASE reqs[o].pc = "idle"
      <3>1. req'[o] = reqs[o]
        BY <2>1, <1>1 DEF Observe
      <3> QED
        BY <3>1, <2>1, <1>3, <1>4 DEF Current
    <2>2. CASE reqs[o].pc # "idle" /\ Verified(factor') = {}
      <3>1. req'[o] = [reqs[o] EXCEPT !.unenrolled = TRUE]
        BY <2>2, <1>1 DEF Observe
      <3>2. req'[o] \in RequestType /\ SlotFacts(req'[o]) /\ req'[o].got = reqs[o].got
        BY <3>1, <2>2, <1>3, <1>4, FactsGrow
      <3> QED
        BY <3>1, <3>2, <2>2, <1>3 DEF Current, RequestType
    <2>3. CASE reqs[o].pc # "idle" /\ Verified(factor') # {}
      <3>1. req'[o] = [reqs[o] EXCEPT !.enrolled = TRUE]
        BY <2>3, <1>1 DEF Observe
      <3>2. req'[o] \in RequestType /\ SlotFacts(req'[o]) /\ req'[o].got = reqs[o].got
        BY <3>1, <2>3, <1>3, <1>4, FactsGrow
      <3> QED
        BY <3>1, <3>2, <2>3, <1>3 DEF Current, RequestType
    <2> QED
      BY <2>1, <2>2, <2>3
  <1>6. TypeOK'
    <2>1. req' \in [Requests -> RequestType]
      BY <1>1, <1>5 DEF Observe
    <2> QED
      BY <2>1, <1>1 DEF IInv, TypeOK
  <1>7. \A o \in Requests : SlotFacts(req[o])' /\ Current(req[o], factor)'
    BY <1>5 DEF SlotFacts, Current, LetIn, Verified
  <1>8. \A o \in Requests : GotAlone(o, req[o].got, req, jar)'
    <2>1. /\ req'[r].got = q.got
          /\ \A o \in Requests \ {r} : req'[o].got = req[o].got
      BY <1>3, <1>5
    <2> SUFFICES ASSUME NEW o \in Requests, req'[o].got # None
                 PROVE  /\ \A p \in Requests \ {o} : req'[p].got # req'[o].got
                        /\ \A b \in Browsers : jar[b].session # req'[o].got
                                               /\ jar[b].pending # req'[o].got
      BY DEF GotAlone
    <2>2. CASE o = r
      BY <2>1, <2>2 DEF GotAlone
    <2>3. CASE o # r
      BY <2>1, <2>3 DEF GotAlone, IInv
    <2> QED
      BY <2>2, <2>3
  <1>9. JarsApart(jar)'
    BY DEF IInv, JarsApart
  <1> QED
    BY <1>6, <1>7, <1>8, <1>9 DEF IInv

\* The cookie jars change; a request may end with the change.
JarType == [Browsers -> [session : Tokens \cup {None}, pending : Aal1 \cup {None}]]

LEMMA JarsMove ==
  ASSUME IInv, NEW jars \in JarType, JarsApart(jars),
         req' \in [Requests -> RequestType],
         \A o \in Requests : req'[o] = req[o] \/ req'[o] = Idle,
         \A o \in Requests : req'[o] = req[o] => GotAlone(o, req[o].got, req, jars),
         jar' = jars, expired' \subseteq Tokens, factor' = factor
  PROVE  IInv'
  <1>1. TypeOK'
    BY DEF IInv, TypeOK, JarType
  <1>2. \A o \in Requests : SlotFacts(req[o])' /\ Current(req[o], factor)'
    <2>1. \A o \in Requests : SlotFacts(req'[o]) /\ Current(req'[o], factor)
      BY IdleFacts DEF IInv, Current
    <2> QED
      BY <2>1 DEF SlotFacts, Current, LetIn, Verified
  <1>3. \A o \in Requests : GotAlone(o, req[o].got, req, jar)'
    <2> SUFFICES ASSUME NEW o \in Requests, req'[o].got # None
                 PROVE  /\ \A p \in Requests \ {o} : req'[p].got # req'[o].got
                        /\ \A b \in Browsers : jars[b].session # req'[o].got
                                               /\ jars[b].pending # req'[o].got
      BY DEF GotAlone
    <2>1. req'[o] = req[o]
      BY IdleFacts
    <2> QED
      BY <2>1, IdleFacts DEF GotAlone
  <1>4. JarsApart(jar)'
    BY DEF JarsApart
  <1> QED
    BY <1>1, <1>2, <1>3, <1>4 DEF IInv

----------------------------------------------------------------------------
LEMMA InitHolds == Init => IInv
  BY IdleFacts DEF Init, IInv, TypeOK, Current, GotAlone, JarsApart

LEMMA RefuseKeeps ==
  ASSUME IInv, NEW r \in Requests, Refuse(r) PROVE IInv'
  <1> DEFINE q == [req[r] EXCEPT !.pc = "reply"]
  <1>1. /\ q.pc = "reply" /\ q.kind = req[r].kind /\ q.cred = req[r].cred
        /\ q.got = req[r].got /\ q.factor = req[r].factor /\ q.setSession = req[r].setSession
        /\ q.setPending = req[r].setPending /\ q.acted = req[r].acted /\ q.demanded = req[r].demanded
        /\ q.unenrolled = req[r].unenrolled /\ q.enrolled = req[r].enrolled /\ q.proved = req[r].proved
    BY OneSlot DEF RequestType
  <1>2. q \in RequestType
    <2>1. "reply" \in Awaits \cup {"idle", "reply"}
      BY OneSlot, AssuranceAssumption DEF Refuse, SlotFacts, Awaits, Tokens
    <2> QED
      BY <2>1, OneSlot DEF RequestType
  <1> HIDE DEF q
  <1>3. SlotFacts(q)
    BY <1>1, OneSlot, AssuranceAssumption DEF Refuse, SlotFacts, LetIn, Awaits, Tokens
  <1>4. Current(q, factor) /\ GotAlone(r, q.got, req, jar)
    BY <1>1, OneSlot DEF Refuse, Current, Awaits
  <1> QED
    BY <1>2, <1>3, <1>4, SlotMoves DEF Refuse, q

LEMMA FreshIsAlone ==
  ASSUME NEW t \in Fresh, NEW r \in Requests PROVE GotAlone(r, t, req, jar)
  BY DEF GotAlone, Fresh, HeldBy

LEMMA GrantKeeps ==
  ASSUME IInv, NEW r \in Requests, Grant(r) PROVE IInv'
  <1> PICK t \in Fresh \cap Aal1 : Goes(r, [req[r] EXCEPT !.pc = "list", !.got = t])
    BY DEF Grant
  <1> DEFINE q == [req[r] EXCEPT !.pc = "list", !.got = t]
  <1>1. /\ q.pc = "list" /\ q.kind = req[r].kind /\ q.cred = req[r].cred
        /\ q.got = t /\ q.factor = req[r].factor /\ q.setSession = req[r].setSession
        /\ q.setPending = req[r].setPending /\ q.acted = req[r].acted /\ q.demanded = req[r].demanded
        /\ q.unenrolled = req[r].unenrolled /\ q.enrolled = req[r].enrolled /\ q.proved = req[r].proved
    BY OneSlot DEF RequestType
  <1>2. q \in RequestType
    <2>1. /\ "list" \in Awaits \cup {"idle", "reply"}
          /\ t \in Tokens \cup {None}
      BY OneSlot, AssuranceAssumption DEF Grant, SlotFacts, Awaits, Tokens
    <2> QED
      BY <2>1, OneSlot DEF RequestType
  <1> HIDE DEF q
  <1>3. SlotFacts(q)
    BY <1>1, OneSlot, AssuranceAssumption DEF Grant, SlotFacts, LetIn, Awaits, Tokens
  <1>4. Current(q, factor)
    BY <1>1, OneSlot DEF Grant, Current
  <1>5. GotAlone(r, q.got, req, jar)
    BY <1>1, FreshIsAlone
  <1> QED
    BY <1>2, <1>3, <1>4, <1>5, SlotMoves DEF q

LEMMA ListFactorsKeeps ==
  ASSUME IInv, NEW r \in Requests, ListFactors(r) PROVE IInv'
  <1> PICK seen \in FactorAnswers :
          \/ /\ seen = {}
             /\ Goes(r, [req[r] EXCEPT !.pc = "finalize"])
          \/ \E f \in seen :
                Goes(r, [req[r] EXCEPT !.pc = "challenge", !.factor = f])
    BY DEF ListFactors
  <1>1. CASE seen = {} /\ Goes(r, [req[r] EXCEPT !.pc = "finalize"])
    <2> DEFINE q == [req[r] EXCEPT !.pc = "finalize"]
    <2>0. EmptyBodies \/ req[r].unenrolled
      BY <1>1, OneSlot, AssuranceAssumption DEF FactorAnswers, Current, ListFactors
    <2>1. /\ q.pc = "finalize" /\ q.kind = req[r].kind /\ q.cred = req[r].cred
          /\ q.got = req[r].got /\ q.factor = req[r].factor /\ q.setSession = req[r].setSession
          /\ q.setPending = req[r].setPending /\ q.acted = req[r].acted /\ q.demanded = req[r].demanded
          /\ q.unenrolled = req[r].unenrolled /\ q.enrolled = req[r].enrolled /\ q.proved = req[r].proved
      BY OneSlot DEF RequestType
    <2>2. q \in RequestType
      <3>1. "finalize" \in Awaits \cup {"idle", "reply"}
        BY <2>0, OneSlot, AssuranceAssumption DEF ListFactors, SlotFacts, Awaits, Tokens
      <3> QED
        BY <3>1, OneSlot DEF RequestType
    <2> HIDE DEF q
    <2>3. SlotFacts(q)
      BY <2>0, <2>1, OneSlot, AssuranceAssumption DEF ListFactors, SlotFacts, LetIn, Awaits, Tokens
    <2>4. Current(q, factor) /\ GotAlone(r, q.got, req, jar)
      BY <2>1, OneSlot DEF ListFactors, Current, Awaits
    <2> QED
      BY <2>2, <2>3, <2>4, <1>1, SlotMoves DEF q
  <1>2. CASE \E f \in seen : Goes(r, [req[r] EXCEPT !.pc = "challenge", !.factor = f])
    <2> PICK f \in seen : Goes(r, [req[r] EXCEPT !.pc = "challenge", !.factor = f])
      BY <1>2
    <2> DEFINE q == [req[r] EXCEPT !.pc = "challenge", !.factor = f]
    <2>0. f \in Factors /\ req[r].enrolled
      BY OneSlot DEF FactorAnswers, Verified, Current, ListFactors
    <2>1. /\ q.pc = "challenge" /\ q.kind = req[r].kind /\ q.cred = req[r].cred
          /\ q.got = req[r].got /\ q.factor = f /\ q.setSession = req[r].setSession
          /\ q.setPending = req[r].setPending /\ q.acted = req[r].acted /\ q.demanded = req[r].demanded
          /\ q.unenrolled = req[r].unenrolled /\ q.enrolled = req[r].enrolled /\ q.proved = req[r].proved
      BY OneSlot DEF RequestType
    <2>2. q \in RequestType
      <3>1. /\ "challenge" \in Awaits \cup {"idle", "reply"}
            /\ f \in Factors \cup {None}
        BY <2>0, OneSlot, AssuranceAssumption DEF ListFactors, SlotFacts, Awaits, Tokens
      <3> QED
        BY <3>1, OneSlot DEF RequestType
    <2> HIDE DEF q
    <2>3. SlotFacts(q)
      BY <2>0, <2>1, OneSlot, AssuranceAssumption DEF ListFactors, SlotFacts, LetIn, Awaits, Tokens
    <2>4. Current(q, factor) /\ GotAlone(r, q.got, req, jar)
      BY <2>1, OneSlot DEF ListFactors, Current, Awaits
    <2> QED
      BY <2>2, <2>3, <2>4, SlotMoves DEF q
  <1> QED
    BY <1>1, <1>2

LEMMA BeginStepUpKeeps ==
  ASSUME IInv, NEW r \in Requests, BeginStepUp(r) PROVE IInv'
  <1> DEFINE q == [req[r] EXCEPT !.pc = "reply", !.setPending = req[r].got, !.demanded = TRUE]
  <1>1. /\ q.pc = "reply" /\ q.kind = req[r].kind /\ q.cred = req[r].cred
        /\ q.got = req[r].got /\ q.factor = req[r].factor /\ q.setSession = req[r].setSession
        /\ q.setPending = req[r].got /\ q.acted = req[r].acted /\ q.demanded = TRUE
        /\ q.unenrolled = req[r].unenrolled /\ q.enrolled = req[r].enrolled /\ q.proved = req[r].proved
    BY OneSlot DEF RequestType
  <1>2. q \in RequestType
    <2>1. /\ "reply" \in Awaits \cup {"idle", "reply"}
          /\ req[r].got \in Tokens \cup {None, Keep}
      BY OneSlot, AssuranceAssumption DEF BeginStepUp, SlotFacts, Awaits, Tokens
    <2> QED
      BY <2>1, OneSlot DEF RequestType
  <1> HIDE DEF q
  <1>3. SlotFacts(q)
    BY <1>1, OneSlot, AssuranceAssumption DEF BeginStepUp, SlotFacts, LetIn, Awaits, Tokens
  <1>4. Current(q, factor) /\ GotAlone(r, q.got, req, jar)
    BY <1>1, OneSlot DEF BeginStepUp, Current, Awaits
  <1> QED
    BY <1>2, <1>3, <1>4, SlotMoves DEF BeginStepUp, q

LEMMA FinalizeKeeps ==
  ASSUME IInv, NEW r \in Requests, Finalize(r) PROVE IInv'
  <1> DEFINE q == [req[r] EXCEPT !.pc = "reply", !.setSession = req[r].got, !.setPending = None]
  <1>1. /\ q.pc = "reply" /\ q.kind = req[r].kind /\ q.cred = req[r].cred
        /\ q.got = req[r].got /\ q.factor = req[r].factor /\ q.setSession = req[r].got
        /\ q.setPending = None /\ q.acted = req[r].acted /\ q.demanded = req[r].demanded
        /\ q.unenrolled = req[r].unenrolled /\ q.enrolled = req[r].enrolled /\ q.proved = req[r].proved
    BY OneSlot DEF RequestType
  <1>2. q \in RequestType
    <2>1. /\ "reply" \in Awaits \cup {"idle", "reply"}
          /\ req[r].got \in Tokens \cup {None, Keep}
          /\ None \in Tokens \cup {None, Keep}
      BY OneSlot, AssuranceAssumption DEF Finalize, SlotFacts, Awaits, Tokens
    <2> QED
      BY <2>1, OneSlot DEF RequestType
  <1> HIDE DEF q
  <1>3. SlotFacts(q)
    BY <1>1, OneSlot, AssuranceAssumption DEF Finalize, SlotFacts, LetIn, Awaits, Tokens
  <1>4. Current(q, factor) /\ GotAlone(r, q.got, req, jar)
    BY <1>1, OneSlot DEF Finalize, Current, Awaits
  <1> QED
    BY <1>2, <1>3, <1>4, SlotMoves DEF Finalize, q

LEMMA VerifyCodeKeeps ==
  ASSUME IInv, NEW r \in Requests, VerifyCode(r) PROVE IInv'
  <1> PICK t \in Fresh \cap Aal2 :
          SetFactor(req[r].factor, "verified",
                    [req EXCEPT ![r] = [req[r] EXCEPT !.pc = AfterCode(req[r].kind),
                                                      !.got = t,
                                                      !.proved = {req[r].factor}]])
    BY DEF VerifyCode
  <1> DEFINE q == [req[r] EXCEPT !.pc = AfterCode(req[r].kind), !.got = t,
                                 !.proved = {req[r].factor}]
  <1>0. /\ req[r].factor \in Factors
        /\ \/ req[r].kind = "mfa" /\ AfterCode(req[r].kind) = "finalize"
           \/ req[r].kind = "activate" /\ AfterCode(req[r].kind) = "reply"
           \/ req[r].kind = "disable" /\ AfterCode(req[r].kind) = "unenroll"
    BY OneSlot DEF VerifyCode, SlotFacts, AfterCode
  <1>1. /\ q.pc = AfterCode(req[r].kind) /\ q.kind = req[r].kind /\ q.cred = req[r].cred
        /\ q.got = t /\ q.factor = req[r].factor /\ q.setSession = req[r].setSession
        /\ q.setPending = req[r].setPending /\ q.acted = req[r].acted /\ q.demanded = req[r].demanded
        /\ q.unenrolled = req[r].unenrolled /\ q.enrolled = req[r].enrolled /\ q.proved = {req[r].factor}
    BY OneSlot DEF RequestType
  <1>2. q \in RequestType
    <2>1. /\ AfterCode(req[r].kind) \in Awaits \cup {"idle", "reply"}
          /\ t \in Tokens \cup {None}
          /\ {req[r].factor} \in SUBSET Factors
      BY <1>0, OneSlot, AssuranceAssumption DEF VerifyCode, SlotFacts, Awaits, Tokens
    <2> QED
      BY <2>1, OneSlot DEF RequestType
  <1> HIDE DEF q
  <1>3. SlotFacts(q)
    BY <1>0, <1>1, OneSlot, AssuranceAssumption DEF VerifyCode, SlotFacts, LetIn, Awaits, Tokens
  <1>4. GotAlone(r, q.got, req, jar) /\ q.pc # "idle"
    BY <1>0, <1>1, FreshIsAlone
  <1> QED
    BY <1>0, <1>2, <1>3, <1>4, FactorsMove DEF VerifyCode, q

LEMMA VerifyCodeUnheardKeeps ==
  ASSUME IInv, NEW r \in Requests, VerifyCodeUnheard(r) PROVE IInv'
  <1> DEFINE q == [req[r] EXCEPT !.pc = "reply"]
  <1>1. /\ q.pc = "reply" /\ q.kind = req[r].kind /\ q.cred = req[r].cred
        /\ q.got = req[r].got /\ q.factor = req[r].factor /\ q.setSession = req[r].setSession
        /\ q.setPending = req[r].setPending /\ q.acted = req[r].acted /\ q.demanded = req[r].demanded
        /\ q.unenrolled = req[r].unenrolled /\ q.enrolled = req[r].enrolled /\ q.proved = req[r].proved
    BY OneSlot DEF RequestType
  <1>2. q \in RequestType
    <2>1. "reply" \in Awaits \cup {"idle", "reply"}
      BY OneSlot, AssuranceAssumption DEF VerifyCodeUnheard, SlotFacts, Awaits, Tokens
    <2> QED
      BY <2>1, OneSlot DEF RequestType
  <1> HIDE DEF q
  <1>3. SlotFacts(q)
    BY <1>1, OneSlot, AssuranceAssumption DEF VerifyCodeUnheard, SlotFacts, LetIn, Awaits, Tokens
  <1>4. GotAlone(r, q.got, req, jar) /\ q.pc # "idle" /\ req[r].factor \in Factors
    BY <1>1, OneSlot DEF VerifyCodeUnheard, SlotFacts
  <1>5. [req EXCEPT ![r].pc = "reply"] = [req EXCEPT ![r] = q]
    BY DEF IInv, TypeOK, q
  <1> QED
    BY <1>2, <1>3, <1>4, <1>5, FactorsMove DEF VerifyCodeUnheard

LEMMA EnrollKeeps ==
  ASSUME IInv, NEW r \in Requests, Enroll(r) PROVE IInv'
  <1> DEFINE q == [req[r] EXCEPT !.pc = "reply"]
  <1>1. /\ q.pc = "reply" /\ q.kind = req[r].kind /\ q.cred = req[r].cred
        /\ q.got = req[r].got /\ q.factor = req[r].factor /\ q.setSession = req[r].setSession
        /\ q.setPending = req[r].setPending /\ q.acted = req[r].acted /\ q.demanded = req[r].demanded
        /\ q.unenrolled = req[r].unenrolled /\ q.enrolled = req[r].enrolled /\ q.proved = req[r].proved
    BY OneSlot DEF RequestType
  <1>2. q \in RequestType
    <2>1. "reply" \in Awaits \cup {"idle", "reply"}
      BY OneSlot, AssuranceAssumption DEF Enroll, SlotFacts, Awaits, Tokens
    <2> QED
      BY <2>1, OneSlot DEF RequestType
  <1> HIDE DEF q
  <1>3. SlotFacts(q)
    BY <1>1, OneSlot, AssuranceAssumption DEF Enroll, SlotFacts, LetIn, Awaits, Tokens
  <1>4. GotAlone(r, q.got, req, jar) /\ q.pc # "idle" /\ req[r].factor \in Factors
    BY <1>1, OneSlot DEF Enroll, SlotFacts
  <1>5. [req EXCEPT ![r].pc = "reply"] = [req EXCEPT ![r] = q]
    BY DEF IInv, TypeOK, q
  <1> QED
    BY <1>2, <1>3, <1>4, <1>5, FactorsMove DEF Enroll

LEMMA UnenrollKeeps ==
  ASSUME IInv, NEW r \in Requests, Unenroll(r) PROVE IInv'
  <1> DEFINE q == [req[r] EXCEPT !.pc = "reply"]
  <1>1. /\ q.pc = "reply" /\ q.kind = req[r].kind /\ q.cred = req[r].cred
        /\ q.got = req[r].got /\ q.factor = req[r].factor /\ q.setSession = req[r].setSession
        /\ q.setPending = req[r].setPending /\ q.acted = req[r].acted /\ q.demanded = req[r].demanded
        /\ q.unenrolled = req[r].unenrolled /\ q.enrolled = req[r].enrolled /\ q.proved = req[r].proved
    BY OneSlot DEF RequestType
  <1>2. q \in RequestType
    <2>1. "reply" \in Awaits \cup {"idle", "reply"}
      BY OneSlot, AssuranceAssumption DEF Unenroll, SlotFacts, Awaits, Tokens
    <2> QED
      BY <2>1, OneSlot DEF RequestType
  <1> HIDE DEF q
  <1>3. SlotFacts(q)
    BY <1>1, OneSlot, AssuranceAssumption DEF Unenroll, SlotFacts, LetIn, Awaits, Tokens
  <1>4. GotAlone(r, q.got, req, jar) /\ q.pc # "idle" /\ req[r].factor \in Factors
    BY <1>1, OneSlot DEF Unenroll, SlotFacts
  <1>5. [req EXCEPT ![r].pc = "reply"] = [req EXCEPT ![r] = q]
    BY DEF IInv, TypeOK, q
  <1> QED
    BY <1>2, <1>3, <1>4, <1>5, FactorsMove DEF Unenroll

LEMMA GateKeeps ==
  ASSUME IInv, NEW r \in Requests, Gate(r) PROVE IInv'
  <1> DEFINE next == IF req[r].cred \in Aal2 THEN "handler" ELSE "gatelist"
             q == [req[r] EXCEPT !.pc = next]
  <1>0. next \in {"handler", "gatelist"} /\ (next = "handler" => req[r].cred \in Aal2)
    OBVIOUS
  <1>1. q = [req[r] EXCEPT !.pc = next]
    OBVIOUS
  <1> HIDE DEF next
  <1>2. /\ q.pc = next /\ q.kind = req[r].kind /\ q.cred = req[r].cred
        /\ q.got = req[r].got /\ q.factor = req[r].factor /\ q.setSession = req[r].setSession
        /\ q.setPending = req[r].setPending /\ q.acted = req[r].acted /\ q.demanded = req[r].demanded
        /\ q.unenrolled = req[r].unenrolled /\ q.enrolled = req[r].enrolled /\ q.proved = req[r].proved
    BY OneSlot DEF RequestType
  <1>3. q \in RequestType
    <2>1. next \in Awaits \cup {"idle", "reply"}
      BY <1>0, OneSlot, AssuranceAssumption DEF Gate, SlotFacts, Awaits, Tokens
    <2> QED
      BY <2>1, OneSlot DEF RequestType
  <1> HIDE DEF q
  <1>4. SlotFacts(q)
    BY <1>0, <1>2, OneSlot, AssuranceAssumption DEF Gate, SlotFacts, LetIn, Awaits, Tokens
  <1>5. Current(q, factor) /\ GotAlone(r, q.got, req, jar)
    BY <1>0, <1>2, OneSlot DEF Gate, Current
  <1> QED
    BY <1>3, <1>4, <1>5, SlotMoves DEF Gate, q, next

LEMMA GateLookupKeeps ==
  ASSUME IInv, NEW r \in Requests, GateLookup(r) PROVE IInv'
  <1> PICK seen \in FactorAnswers :
          IF seen = {}
          THEN Goes(r, [req[r] EXCEPT !.pc = "handler"])
          ELSE Goes(r, [req[r] EXCEPT !.pc = "reply", !.demanded = TRUE])
    BY DEF GateLookup
  <1>1. CASE seen = {}
    <2> DEFINE q == [req[r] EXCEPT !.pc = "handler"]
    <2>0. LetIn(req[r])
      BY <1>1, OneSlot, AssuranceAssumption DEF FactorAnswers, Current, GateLookup, LetIn
    <2>1. /\ q.pc = "handler" /\ q.kind = req[r].kind /\ q.cred = req[r].cred
          /\ q.got = req[r].got /\ q.factor = req[r].factor /\ q.setSession = req[r].setSession
          /\ q.setPending = req[r].setPending /\ q.acted = req[r].acted /\ q.demanded = req[r].demanded
          /\ q.unenrolled = req[r].unenrolled /\ q.enrolled = req[r].enrolled /\ q.proved = req[r].proved
      BY OneSlot DEF RequestType
    <2>2. q \in RequestType
      <3>1. "handler" \in Awaits \cup {"idle", "reply"}
        BY <2>0, OneSlot, AssuranceAssumption DEF GateLookup, SlotFacts, Awaits, Tokens
      <3> QED
        BY <3>1, OneSlot DEF RequestType
    <2> HIDE DEF q
    <2>3. SlotFacts(q)
      BY <2>0, <2>1, OneSlot, AssuranceAssumption DEF GateLookup, SlotFacts, LetIn, Awaits, Tokens
    <2>4. Current(q, factor) /\ GotAlone(r, q.got, req, jar)
      BY <2>1, OneSlot DEF GateLookup, Current, Awaits
    <2> QED
      BY <2>2, <2>3, <2>4, <1>1, SlotMoves DEF q
  <1>2. CASE seen # {}
    <2> DEFINE q == [req[r] EXCEPT !.pc = "reply", !.demanded = TRUE]
    <2>0. req[r].enrolled
      BY <1>2, OneSlot DEF FactorAnswers, Current, GateLookup
    <2>1. /\ q.pc = "reply" /\ q.kind = req[r].kind /\ q.cred = req[r].cred
          /\ q.got = req[r].got /\ q.factor = req[r].factor /\ q.setSession = req[r].setSession
          /\ q.setPending = req[r].setPending /\ q.acted = req[r].acted /\ q.demanded = TRUE
          /\ q.unenrolled = req[r].unenrolled /\ q.enrolled = req[r].enrolled /\ q.proved = req[r].proved
      BY OneSlot DEF RequestType
    <2>2. q \in RequestType
      <3>1. "reply" \in Awaits \cup {"idle", "reply"}
        BY <2>0, OneSlot, AssuranceAssumption DEF GateLookup, SlotFacts, Awaits, Tokens
      <3> QED
        BY <3>1, OneSlot DEF RequestType
    <2> HIDE DEF q
    <2>3. SlotFacts(q)
      BY <2>0, <2>1, OneSlot, AssuranceAssumption DEF GateLookup, SlotFacts, LetIn, Awaits, Tokens
    <2>4. Current(q, factor) /\ GotAlone(r, q.got, req, jar)
      BY <2>1, OneSlot DEF GateLookup, Current, Awaits
    <2> QED
      BY <2>2, <2>3, <2>4, <1>2, SlotMoves DEF q
  <1> QED
    BY <1>1, <1>2

LEMMA HandlerKeeps ==
  ASSUME IInv, NEW r \in Requests, Handler(r) PROVE IInv'
  <1> DEFINE next == AfterHandler(req[r].kind)
             q == [req[r] EXCEPT !.pc = next, !.acted = TRUE]
  <1>0. \/ req[r].kind = "page" /\ next = "reply"
        \/ req[r].kind = "enroll" /\ next = "enroll"
        \/ req[r].kind \in {"activate", "disable"} /\ next = "challenge"
    BY OneSlot DEF Handler, SlotFacts, AfterHandler
  <1> HIDE DEF next
  <1>1. /\ q.pc = next /\ q.kind = req[r].kind /\ q.cred = req[r].cred
        /\ q.got = req[r].got /\ q.factor = req[r].factor /\ q.setSession = req[r].setSession
        /\ q.setPending = req[r].setPending /\ q.acted = TRUE /\ q.demanded = req[r].demanded
        /\ q.unenrolled = req[r].unenrolled /\ q.enrolled = req[r].enrolled /\ q.proved = req[r].proved
    BY OneSlot DEF RequestType
  <1>2. q \in RequestType
    <2>1. next \in Awaits \cup {"idle", "reply"}
      BY <1>0, OneSlot, AssuranceAssumption DEF Handler, SlotFacts, Awaits, Tokens
    <2> QED
      BY <2>1, OneSlot DEF RequestType
  <1> HIDE DEF q
  <1>3. SlotFacts(q)
    BY <1>0, <1>1, OneSlot, AssuranceAssumption DEF Handler, SlotFacts, LetIn, Awaits, Tokens
  <1>4. Current(q, factor) /\ GotAlone(r, q.got, req, jar)
    BY <1>0, <1>1, OneSlot DEF Handler, Current
  <1> QED
    BY <1>2, <1>3, <1>4, SlotMoves DEF Handler, q, next

LEMMA OpenChallengeKeeps ==
  ASSUME IInv, NEW r \in Requests, OpenChallenge(r) PROVE IInv'
  <1> DEFINE q == [req[r] EXCEPT !.pc = "verify"]
  <1>1. /\ q.pc = "verify" /\ q.kind = req[r].kind /\ q.cred = req[r].cred
        /\ q.got = req[r].got /\ q.factor = req[r].factor /\ q.setSession = req[r].setSession
        /\ q.setPending = req[r].setPending /\ q.acted = req[r].acted /\ q.demanded = req[r].demanded
        /\ q.unenrolled = req[r].unenrolled /\ q.enrolled = req[r].enrolled /\ q.proved = req[r].proved
    BY OneSlot DEF RequestType
  <1>2. q \in RequestType
    <2>1. "verify" \in Awaits \cup {"idle", "reply"}
      BY OneSlot, AssuranceAssumption DEF OpenChallenge, SlotFacts, Awaits, Tokens
    <2> QED
      BY <2>1, OneSlot DEF RequestType
  <1> HIDE DEF q
  <1>3. SlotFacts(q)
    BY <1>1, OneSlot, AssuranceAssumption DEF OpenChallenge, SlotFacts, LetIn, Awaits, Tokens
  <1>4. Current(q, factor) /\ GotAlone(r, q.got, req, jar)
    BY <1>1, OneSlot DEF OpenChallenge, Current, Awaits
  <1> QED
    BY <1>2, <1>3, <1>4, SlotMoves DEF OpenChallenge, q

LEMMA LogoutKeeps ==
  ASSUME IInv, NEW r \in Requests, Logout(r) PROVE IInv'
  <1> DEFINE q == [req[r] EXCEPT !.pc = "reply", !.acted = TRUE, !.setSession = None, !.setPending = None]
  <1>1. /\ q.pc = "reply" /\ q.kind = req[r].kind /\ q.cred = req[r].cred
        /\ q.got = req[r].got /\ q.factor = req[r].factor /\ q.setSession = None
        /\ q.setPending = None /\ q.acted = TRUE /\ q.demanded = req[r].demanded
        /\ q.unenrolled = req[r].unenrolled /\ q.enrolled = req[r].enrolled /\ q.proved = req[r].proved
    BY OneSlot DEF RequestType
  <1>2. q \in RequestType
    <2>1. /\ "reply" \in Awaits \cup {"idle", "reply"}
          /\ None \in Tokens \cup {None, Keep}
          /\ None \in Tokens \cup {None, Keep}
      BY OneSlot, AssuranceAssumption DEF Logout, SlotFacts, Awaits, Tokens
    <2> QED
      BY <2>1, OneSlot DEF RequestType
  <1> HIDE DEF q
  <1>3. SlotFacts(q)
    BY <1>1, OneSlot, AssuranceAssumption DEF Logout, SlotFacts, LetIn, Awaits, Tokens
  <1>4. Current(q, factor) /\ GotAlone(r, q.got, req, jar)
    BY <1>1, OneSlot DEF Logout, Current, Awaits
  <1> QED
    BY <1>2, <1>3, <1>4, SlotMoves DEF Logout, q

LEMMA SendKeeps ==
  ASSUME IInv, NEW r \in Requests, NEW b \in Browsers, NEW kind \in Kinds,
         NEW f \in Factors \cup {None}, Send(r, b, kind, f)
  PROVE  IInv'
  <1> DEFINE first == FirstAwait(kind)
             cred == Presents(b, kind)
             without == Verified(factor) = {}
             with == Verified(factor) # {}
             q == [Idle EXCEPT !.pc = first, !.who = b, !.kind = kind,
                               !.cred = cred, !.factor = f,
                               !.unenrolled = without, !.enrolled = with]
  <1>1. /\ first \in {"grant", "verify", "logout", "gate"}
        /\ first = "grant" <=> kind = "login"
        /\ first = "verify" <=> kind = "mfa"
        /\ first = "logout" <=> kind = "logout"
    BY DEF FirstAwait, Kinds
  <1>2. cred \in Tokens \cup {None}
    BY DEF Presents, IInv, TypeOK, Tokens
  <1>3. without \in BOOLEAN /\ with \in BOOLEAN /\ (without \/ with)
    OBVIOUS
  <1>4. f = None <=> kind \in {"login", "page", "logout"}
    BY DEF Send
  <1> HIDE DEF first, cred
  <1>5. q \in RequestType
    <2>1. first \in Awaits \cup {"idle", "reply"} /\ kind \in Kinds \cup {"none"}
      BY <1>1 DEF Awaits
    <2>2. b \in Browsers \cup {None} /\ f \in Factors \cup {None}
      OBVIOUS
    <2> HIDE DEF without, with
    <2>3. \A p \in RequestType :
             [p EXCEPT !.pc = first, !.who = b, !.kind = kind, !.cred = cred] \in RequestType
      BY <2>1, <2>2, <1>2 DEF RequestType
    <2>4. \A p \in RequestType :
             [p EXCEPT !.factor = f, !.unenrolled = without, !.enrolled = with] \in RequestType
      BY <2>2, <1>3 DEF RequestType
    <2>5. q = [[Idle EXCEPT !.pc = first, !.who = b, !.kind = kind, !.cred = cred]
                  EXCEPT !.factor = f, !.unenrolled = without, !.enrolled = with]
      OBVIOUS
    <2> HIDE DEF q
    <2> QED
      BY <2>3, <2>4, <2>5, IdleFacts
  <1>6. /\ q.pc = first /\ q.kind = kind /\ q.cred = cred /\ q.got = None
        /\ q.factor = f /\ q.setSession = Keep /\ q.setPending = Keep
        /\ q.acted = FALSE /\ q.demanded = FALSE
    BY DEF Idle
  <1>7. Current(q, factor)
    <2>1. (without => q.unenrolled) /\ (with => q.enrolled)
      <3> HIDE DEF without, with
      <3> QED
        BY <1>3 DEF Idle
    <2> HIDE DEF q
    <2> QED
      BY <2>1 DEF Current
  <1>8. Goes(r, q)
    BY DEF Send, first, cred
  <1> HIDE DEF q
  <1>9. SlotFacts(q)
    BY <1>1, <1>4, <1>6, AssuranceAssumption DEF SlotFacts, LetIn, Kinds, Tokens
  <1>10. GotAlone(r, q.got, req, jar)
    BY <1>6 DEF GotAlone
  <1> QED
    BY <1>5, <1>7, <1>8, <1>9, <1>10, SlotMoves

LEMMA AbandonKeeps ==
  ASSUME IInv, NEW r \in Requests, Abandon(r) PROVE IInv'
  <1>1. /\ req' = [req EXCEPT ![r] = Idle] /\ jar' = jar
        /\ expired' = expired \cap HeldBy(jar', req') /\ factor' = factor
    BY DEF Abandon, Ends
  <1>2. /\ jar \in JarType /\ JarsApart(jar)
        /\ req \in [Requests -> RequestType]
        /\ expired' \subseteq Tokens
        /\ \A o \in Requests : GotAlone(o, req[o].got, req, jar)
    BY <1>1 DEF IInv, TypeOK, JarType
  <1>3. req' \in [Requests -> RequestType]
        /\ \A o \in Requests : req'[o] = req[o] \/ req'[o] = Idle
    BY <1>1, <1>2, IdleFacts
  <1> QED
    BY <1>1, <1>2, <1>3, JarsMove

LEMMA DeliverKeeps ==
  ASSUME IInv, NEW r \in Requests, Deliver(r) PROVE IInv'
  <1> DEFINE d == req[r].who
             session == Cookie(jar[d].session, req[r].setSession)
             pending == Cookie(jar[d].pending, req[r].setPending)
             jars == [jar EXCEPT ![d] = [session |-> session, pending |-> pending]]
  <1>1. /\ req' = [req EXCEPT ![r] = Idle] /\ jar' = jars
        /\ expired' = expired \cap HeldBy(jar', req') /\ factor' = factor
    BY DEF Deliver, Ends
  <1>2. /\ jar \in JarType /\ JarsApart(jar)
        /\ req \in [Requests -> RequestType]
        /\ expired' \subseteq Tokens
        /\ \A o \in Requests : GotAlone(o, req[o].got, req, jar)
    BY <1>1 DEF IInv, TypeOK, JarType
  <1>3. /\ SlotFacts(req[r])
        /\ req[r].setSession \in Tokens \cup {None, Keep}
        /\ req[r].got \in Tokens \cup {None}
    BY OneSlot DEF RequestType
  <1>4. \A b \in Browsers : /\ jars[b].session \in {jar[b].session, None, req[r].got}
                            /\ jars[b].pending \in {jar[b].pending, None, req[r].got}
                            /\ b # d => jars[b] = jar[b]
    BY <1>2, <1>3 DEF Cookie, SlotFacts, JarType
  <1>5. d \in Browsers => /\ session \in Tokens \cup {None}
                          /\ pending \in Aal1 \cup {None}
    BY <1>2, <1>3, AssuranceAssumption DEF Cookie, SlotFacts, JarType, Tokens
  <1>6. jars \in JarType
    BY <1>2, <1>5 DEF JarType
  <1>7. JarsApart(jars)
    <2> SUFFICES ASSUME NEW b \in Browsers, NEW c \in Browsers,
                        jars[b].pending # None, jars[c].session = jars[b].pending
                 PROVE  FALSE
      BY DEF JarsApart
    <2> DEFINE t == req[r].got
    <2>1. t # None => /\ jar[b].pending # t /\ jar[c].session # t
      BY <1>2 DEF GotAlone
    <2>2. jar[b].pending # None => jar[c].session # jar[b].pending
      BY <1>2 DEF JarsApart
    <2>3. jars[b].pending = t /\ jars[c].session = t
      BY <2>1, <2>2, <1>4
    <2>4. b = d /\ c = d
      BY <2>1, <2>3, <1>4
    <2>5. jars[d].pending = pending /\ jars[d].session = session
      BY <2>4, <1>2 DEF JarType
    <2>6. req[r].setPending = t
      BY <2>1, <2>3, <2>4, <2>5, <1>3 DEF Cookie, SlotFacts
    <2>7. req[r].setSession = t
      BY <2>1, <2>3, <2>4, <2>5, <1>3 DEF Cookie, SlotFacts
    <2> HIDE DEF t
    <2>8. t # Keep /\ t \in Tokens
      BY <2>3, <1>3, AssuranceAssumption DEF t, Tokens
    <2> QED
      BY <2>6, <2>7, <2>8, <1>3 DEF SlotFacts
  <1>8. req' \in [Requests -> RequestType]
        /\ \A o \in Requests : req'[o] = req[o] \/ req'[o] = Idle
    BY <1>1, <1>2, IdleFacts
  <1>9. \A o \in Requests : req'[o] = req[o] => GotAlone(o, req[o].got, req, jars)
    <2> SUFFICES ASSUME NEW o \in Requests, req'[o] = req[o], req[o].got # None
                 PROVE  GotAlone(o, req[o].got, req, jars)
      BY DEF GotAlone
    <2>1. o # r
      BY <1>1, <1>2, IdleFacts
    <2>2. req[r].got # req[o].got
      BY <2>1, <1>2 DEF GotAlone
    <2> HIDE DEF jars
    <2> QED
      BY <2>2, <1>2, <1>4 DEF GotAlone
  <1> HIDE DEF jars
  <1> QED
    BY <1>1, <1>2, <1>6, <1>7, <1>8, <1>9, JarsMove

LEMMA CookieLapsesKeeps ==
  ASSUME IInv, NEW b \in Browsers, NEW cookie \in {"session", "pending"},
         CookieLapses(b, cookie)
  PROVE  IInv'
  <1> DEFINE jars == [jar EXCEPT ![b][cookie] = None]
  <1>1. /\ jar' = jars /\ UNCHANGED <<factor, req>>
        /\ expired' = expired \cap HeldBy(jar', req)
    BY DEF CookieLapses
  <1>2. /\ jar \in JarType /\ JarsApart(jar)
        /\ req \in [Requests -> RequestType]
        /\ expired' \subseteq Tokens
        /\ \A o \in Requests : GotAlone(o, req[o].got, req, jar)
    BY <1>1 DEF IInv, TypeOK, JarType
  <1>3. jars \in JarType
    BY <1>2 DEF JarType
  <1>4. \A c \in Browsers : /\ jars[c].session \in {jar[c].session, None}
                            /\ jars[c].pending \in {jar[c].pending, None}
    BY <1>2 DEF JarType
  <1> HIDE DEF jars
  <1>5. JarsApart(jars)
    BY <1>2, <1>4 DEF JarsApart
  <1>6. \A o \in Requests : GotAlone(o, req[o].got, req, jars)
    BY <1>2, <1>4 DEF GotAlone
  <1> QED
    BY <1>1, <1>2, <1>3, <1>5, <1>6, JarsMove

LEMMA ExpireKeeps ==
  ASSUME IInv, NEW t \in Tokens, Expire(t) PROVE IInv'
  <1>1. UNCHANGED <<factor, jar, req>> /\ expired' = expired \cup {t}
    BY DEF Expire
  <1>2. TypeOK'
    BY <1>1 DEF IInv, TypeOK
  <1> QED
    BY <1>1, <1>2 DEF IInv, SlotFacts, Current, GotAlone, JarsApart, LetIn, Verified

----------------------------------------------------------------------------
LEMMA StepKeeps == IInv /\ [Next]_vars => IInv'
  <1> SUFFICES ASSUME IInv, [Next]_vars PROVE IInv'
    OBVIOUS
  <1>1. ASSUME NEW r \in Requests, Step(r) PROVE IInv'
    BY <1>1, RefuseKeeps, GrantKeeps, ListFactorsKeeps, BeginStepUpKeeps, VerifyCodeKeeps,
       VerifyCodeUnheardKeeps, FinalizeKeeps, GateKeeps, GateLookupKeeps, HandlerKeeps,
       EnrollKeeps, OpenChallengeKeeps, UnenrollKeeps, LogoutKeeps
    DEF Step
  <1>2. ASSUME NEW r \in Requests, Deliver(r) \/ Abandon(r) PROVE IInv'
    BY <1>2, DeliverKeeps, AbandonKeeps
  <1>3. ASSUME NEW r \in Requests, NEW b \in Browsers, NEW k \in Kinds,
               NEW f \in Factors \cup {None}, Send(r, b, k, f)
        PROVE  IInv'
    BY <1>3, SendKeeps
  <1>4. ASSUME NEW b \in Browsers, NEW cookie \in {"session", "pending"},
               CookieLapses(b, cookie)
        PROVE  IInv'
    BY <1>4, CookieLapsesKeeps
  <1>5. ASSUME NEW t \in Tokens, Expire(t) PROVE IInv'
    BY <1>5, ExpireKeeps
  <1>6. CASE UNCHANGED vars
    BY <1>6 DEF vars, IInv, TypeOK, SlotFacts, Current, GotAlone, JarsApart, LetIn, Verified
  <1> QED
    BY <1>1, <1>2, <1>3, <1>4, <1>5, <1>6 DEF Next

\* The inductive invariant holds in every reachable state.
THEOREM IInvInvariant == Spec => []IInv
  BY InitHolds, StepKeeps, PTL DEF Spec

\* Type correctness of the sign-in and assurance state.
THEOREM TypeCorrect == Spec => []TypeOK
  <1>1. IInv => TypeOK
    BY DEF IInv
  <1> QED
    BY <1>1, IInvInvariant, PTL

\* No single-factor session without a moment in which the account had no
\* verified factor (login.rs:107-128, 637-644), provided a factor lookup is
\* never answered with an empty body.
THEOREM IssueIsAssured == ASSUME ~EmptyBodies PROVE Spec => []IssueAssured
  <1>1. IInv => IssueAssured
    BY DEF IInv, SlotFacts, IssueAssured
  <1> QED
    BY <1>1, IInvInvariant, PTL

\* No handler runs for an aal1 credential past the gate unless the live lookup
\* could have found no verified factor (main.rs:508-531), on the same proviso.
THEOREM ServeIsAssured == ASSUME ~EmptyBodies PROVE Spec => []ServeAssured
  <1>1. IInv => ServeAssured
    BY DEF IInv, SlotFacts, ServeAssured, LetIn
  <1> QED
    BY <1>1, IInvInvariant, PTL

\* A second factor is asked for only if one was verified (supabase_auth.rs:84-89).
THEOREM StepUpIsJustified == Spec => []StepUpJustified
  <1>1. IInv => StepUpJustified
    BY DEF IInv, SlotFacts, StepUpJustified
  <1> QED
    BY <1>1, IInvInvariant, PTL

\* The token set aside for a step-up never becomes a session (login.rs:650-670).
THEOREM PendingStaysPending == Spec => []PendingIsNeverASession
  <1>1. IInv => PendingIsNeverASession
    <2> SUFFICES ASSUME IInv, NEW b \in Browsers, jar[b].pending # None
                 PROVE  /\ \A c \in Browsers : jar[c].session # jar[b].pending
                        /\ \A r \in Requests : req[r].setSession # jar[b].pending
      BY DEF PendingIsNeverASession
    <2>1. jar[b].pending \in Aal1
      BY DEF IInv, TypeOK
    <2>2. ASSUME NEW r \in Requests PROVE req[r].setSession # jar[b].pending
      BY <2>1, OneSlot, AssuranceAssumption DEF SlotFacts, GotAlone
    <2> QED
      BY <2>2 DEF IInv, JarsApart
  <1> QED
    BY <1>1, IInvInvariant, PTL

----------------------------------------------------------------------------
LEMMA OnlyUnenrollRemoves ==
  ASSUME IInv, Next, NEW f \in Factors, factor[f] = "verified", factor'[f] # "verified"
  PROVE  \E r \in Requests : Unenroll(r) /\ req[r].factor = f
  <1>1. factor \in [Factors -> {"absent", "unverified", "verified"}]
    BY DEF IInv, TypeOK
  <1>2. ~ UNCHANGED factor
    OBVIOUS
  <1>3. \E r \in Requests : Step(r)
    BY <1>2 DEF Next, Deliver, Abandon, Ends, Send, Goes, CookieLapses, Expire
  <1> PICK r \in Requests : Step(r)
    BY <1>3
  <1>4. VerifyCode(r) \/ VerifyCodeUnheard(r) \/ Enroll(r) \/ Unenroll(r)
    BY <1>2 DEF Step, Goes, Refuse, Grant, ListFactors, BeginStepUp, Finalize, Gate,
                GateLookup, Handler, OpenChallenge, Logout
  <1>5. CASE VerifyCode(r) \/ VerifyCodeUnheard(r)
    <2>1. factor' = [factor EXCEPT ![req[r].factor] = "verified"]
      BY <1>5 DEF VerifyCode, VerifyCodeUnheard, SetFactor
    <2> QED
      BY <2>1, <1>1
  <1>6. CASE Enroll(r)
    <2>1. factor[req[r].factor] = "absent"
          /\ factor' = [factor EXCEPT ![req[r].factor] = "unverified"]
      BY <1>6 DEF Enroll, SetFactor
    <2> QED
      BY <2>1, <1>1
  <1>7. CASE Unenroll(r)
    <2>1. factor' = [factor EXCEPT ![req[r].factor] = "absent"]
      BY <1>7 DEF Unenroll, SetFactor
    <2> QED
      BY <2>1, <1>1, <1>7
  <1> QED
    BY <1>4, <1>5, <1>6, <1>7

\* A verified factor is removed only by a request that presented an aal2 session
\* and has just verified a code of that factor (login.rs:898-949).
THEOREM RemovalIsProved == Spec => RemovalProved
  <1>1. ASSUME IInv, [Next]_vars
        PROVE  [\A f \in Factors :
                   factor[f] = "verified" /\ factor'[f] # "verified" =>
                       \E r \in Requests : RemovesWithProof(r, f)]_vars
    <2>1. CASE UNCHANGED vars
      BY <2>1
    <2>2. CASE Next
      <3> SUFFICES ASSUME NEW f \in Factors,
                          factor[f] = "verified", factor'[f] # "verified"
                   PROVE  \E r \in Requests : RemovesWithProof(r, f)
        OBVIOUS
      <3> PICK r \in Requests : Unenroll(r) /\ req[r].factor = f
        BY <1>1, <2>2, OnlyUnenrollRemoves
      <3> QED
        BY <1>1, OneSlot DEF Unenroll, SlotFacts, RemovesWithProof
    <2> QED
      BY <1>1, <2>1, <2>2
  <1> QED
    BY <1>1, IInvInvariant, PTL DEF Spec, RemovalProved
=============================================================================
