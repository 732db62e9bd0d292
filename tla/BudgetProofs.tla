----------------------------- MODULE BudgetProofs -----------------------------
(***************************************************************************)
(* What the sign-in budgets guarantee: the limiter's map (Throttle), the   *)
(* handlers that ask it (Dispatch), and both together (SignInBudgets), for *)
(* all buckets, keys, budgets, windows, ceilings and handlers.             *)
(*                                                                         *)
(* The map.  The invariant that carries the proof is LiveEventsTracked:    *)
(* whatever was admitted in this lifetime and is still in its window is    *)
(* still in the map.  With the size of each entry (EntriesBounded) it      *)
(* bounds what the history can show, and so the map keeps the promise of   *)
(* Limiter.                                                                *)
(*                                                                         *)
(* The handlers.  A handler's admissions and the budgets it has still to   *)
(* ask for make up its price (Accounted), and every admission is one entry *)
(* of the log, held once (InLog, Apart).  So the calls that one budget let *)
(* through in its window are no more than its live entries                 *)
(* (CallsAdmitted), which the limiter bounds (LimiterInv).                 *)
(*                                                                         *)
(* Together.  A step of a handler on the map is one on what the map        *)
(* promises (HandlersOnTheMap), and the handlers' guarantees carry over.   *)
(***************************************************************************)
EXTENDS SignInBudgets, TLAPS, FiniteSetTheorems, FunctionTheorems, WellFoundedInduction

(***************************************************************************)
(* The map.                                                                *)
(***************************************************************************)

USE ThrottleAssumption

\* An entry remembers no more than the budget, and only what was admitted.
EntriesBounded ==
    \A s \in Slots : /\ windows[s] \subseteq DOMAIN log[s]
                     /\ IsFiniteSet(windows[s])
                     /\ Cardinality(windows[s]) <= Limit[s[1]]

\* TypeOK without the reply: the part of the state the next step reads.
StateType ==
    /\ now \in Nat
    /\ boots \in Seq(Nat)
    /\ log \in [Slots -> Seq(Event)]
    /\ windows \in [Slots -> SUBSET Nat]

\* No admission is dated after the process's current lifetime.
HistoryPast ==
    \A s \in Slots : \A e \in DOMAIN log[s] : log[s][e].boot <= Boot

MapInv == /\ StateType
        /\ EntriesBounded
        /\ HistoryPast
        /\ LiveEventsTracked
        /\ CapacityRespected

----------------------------------------------------------------------------
LEMMA SlotsFinite == IsFiniteSet(Slots)
  BY FS_Product DEF Slots

LEMMA TrackedFinite ==
  ASSUME NEW w PROVE IsFiniteSet(Tracked(w)) /\ Cardinality(Tracked(w)) \in Nat
  <1>1. Tracked(w) \subseteq Slots
    BY DEF Tracked
  <1> QED
    BY <1>1, SlotsFinite, FS_Subset, FS_CardinalityType

\* Sweeping or retaining can only shrink an entry.
LEMMA LiveShrinks ==
  ASSUME EntriesBounded, NEW s \in Slots
  PROVE  LET live == Live(s, windows[s])
         IN /\ live \subseteq windows[s]
            /\ IsFiniteSet(live)
            /\ Cardinality(live) \in Nat
            /\ Cardinality(live) <= Limit[s[1]]
  <1>1. Live(s, windows[s]) \subseteq windows[s]
    BY DEF Live
  <1>2. IsFiniteSet(windows[s]) /\ Cardinality(windows[s]) <= Limit[s[1]]
    BY DEF EntriesBounded
  <1>3. /\ IsFiniteSet(Live(s, windows[s]))
        /\ Cardinality(Live(s, windows[s])) <= Cardinality(windows[s])
    BY <1>1, <1>2, FS_Subset
  <1>4. /\ Cardinality(windows[s]) \in Nat
        /\ Cardinality(Live(s, windows[s])) \in Nat
    BY <1>2, <1>3, FS_CardinalityType
  <1>5. Limit[s[1]] \in Nat
    BY DEF Slots
  <1> QED
    BY <1>1, <1>2, <1>3, <1>4, <1>5

LEMMA EventTyped ==
  ASSUME StateType, NEW s \in Slots, NEW e \in DOMAIN log[s]
  PROVE  /\ log[s][e].at \in Nat
         /\ log[s][e].boot \in Nat
         /\ Window[s[1]] \in Nat
         /\ Limit[s[1]] \in Nat
  <1>1. log[s] \in Seq(Event)
    BY DEF StateType
  <1>2. log[s][e] \in Event
    BY <1>1
  <1> QED
    BY <1>2 DEF Event, Slots

\* Whether or not the check swept the map, the live events are the same.
LEMMA LiveOfSwept ==
  ASSUME StateType, NEW s \in Slots, NEW t \in Slots
  PROVE  /\ Swept(s) \in [Slots -> SUBSET Nat]
         /\ Swept(s)[t] = windows[t] \/ Swept(s)[t] = Live(t, windows[t])
         /\ Live(t, Swept(s)[t]) = Live(t, windows[t])
  BY DEF Swept, PruneExpired, Live, StateType

LEMMA InitMapInv == Init => MapInv
  <1> SUFFICES ASSUME Init PROVE MapInv
    OBVIOUS
  <1>1. StateType
    BY DEF Init, StateType
  <1>2. EntriesBounded
    BY FS_EmptySet DEF Init, EntriesBounded, Slots
  <1>3. LiveEventsTracked
    BY DEF Init, LiveEventsTracked, LiveThisBoot
  <1>4. CapacityRespected
    <2>1. Tracked(windows) = {}
      BY DEF Init, Tracked
    <2> QED
      BY <2>1, FS_EmptySet DEF CapacityRespected
  <1>5. HistoryPast
    BY DEF Init, HistoryPast
  <1> QED
    BY <1>1, <1>2, <1>3, <1>4, <1>5 DEF MapInv

----------------------------------------------------------------------------
\* A check that admits nobody only shrinks entries, and only by aged events.
LEMMA ShrinkKeepsMapInv ==
  ASSUME MapInv,
         UNCHANGED <<now, boots, log>>,
         windows' \in [Slots -> SUBSET Nat],
         \A t \in Slots : windows'[t] = windows[t] \/ windows'[t] = Live(t, windows[t])
  PROVE  MapInv'
  <1> USE DEF MapInv
  <1>1. StateType'
    BY DEF StateType
  <1>2. EntriesBounded'
    <2> SUFFICES ASSUME NEW t \in Slots
                 PROVE  /\ windows'[t] \subseteq DOMAIN log[t]
                        /\ IsFiniteSet(windows'[t])
                        /\ Cardinality(windows'[t]) <= Limit[t[1]]
      BY DEF EntriesBounded
    <2>1. CASE windows'[t] = windows[t]
      BY <2>1 DEF EntriesBounded
    <2>2. CASE windows'[t] = Live(t, windows[t])
      BY <2>2, LiveShrinks DEF EntriesBounded
    <2> QED
      BY <2>1, <2>2
  <1>3. HistoryPast'
    BY DEF HistoryPast, Boot
  <1>4. LiveEventsTracked'
    <2> SUFFICES ASSUME NEW t \in Slots
                 PROVE  LiveThisBoot(t)' \subseteq windows'[t]
      BY DEF LiveEventsTracked
    <2>1. LiveThisBoot(t)' = LiveThisBoot(t)
      BY DEF LiveThisBoot, InWindow, Boot
    <2>2. LiveThisBoot(t) \subseteq Live(t, windows[t])
      BY DEF LiveThisBoot, Live, LiveEventsTracked
    <2>3. Live(t, windows[t]) \subseteq windows'[t]
      BY DEF Live
    <2> QED
      BY <2>1, <2>2, <2>3
  <1>5. CapacityRespected'
    <2>1. Tracked(windows') \subseteq Tracked(windows)
      BY DEF Tracked, Live
    <2>2. Cardinality(Tracked(windows')) <= Cardinality(Tracked(windows))
      BY <2>1, TrackedFinite, FS_Subset
    <2> QED
      BY <2>2, TrackedFinite DEF CapacityRespected
  <1> QED
    BY <1>1, <1>2, <1>3, <1>4, <1>5

\* There is a place in the map for a key that was not refused.
LEMMA RoomForNewKey ==
  ASSUME NEW s \in Slots, ~NoRoom(s), s \notin Tracked(windows)
  PROVE  Cardinality(Tracked(Swept(s))) < MaxTracked
  BY TrackedFinite DEF NoRoom, MapFull, Swept

LEMMA AdmitKeepsMapInv ==
  ASSUME MapInv, NEW s \in Slots, Admit(s)
  PROVE  MapInv'
  <1> DEFINE live == Live(s, windows[s])
             new == Len(log[s]) + 1
  <1> USE DEF MapInv
  <1>1. /\ new \in Nat
        /\ \A t \in Slots : log'[t] = IF t = s THEN Append(log[s], [at |-> now, boot |-> Boot])
                                              ELSE log[t]
        /\ \A t \in Slots : windows'[t] = IF t = s THEN live \cup {new} ELSE Swept(s)[t]
        /\ windows' \in [Slots -> SUBSET Nat]
        /\ log' \in [Slots -> Seq(Event)]
    <2>1. Swept(s) \in [Slots -> SUBSET Nat] /\ Live(s, Swept(s)[s]) = live
      BY LiveOfSwept
    <2>2. live \subseteq Nat /\ new \in Nat
      BY DEF Live, StateType
    <2>3. Append(log[s], [at |-> now, boot |-> Boot]) \in Seq(Event)
      BY DEF StateType, Event, Boot
    <2> QED
      BY <2>1, <2>2, <2>3 DEF Admit, StateType
  <1>2. UNCHANGED <<now, boots>> /\ Boot' = Boot
    BY DEF Admit, Boot
  <1>3. StateType'
    BY <1>1, <1>2 DEF StateType
  <1>8. \A t \in Slots : \A e \in DOMAIN log[t] :
            e \in DOMAIN log'[t] /\ log'[t][e] = log[t][e]
    <2> SUFFICES ASSUME NEW t \in Slots, NEW e \in DOMAIN log[t]
                 PROVE  e \in DOMAIN log'[t] /\ log'[t][e] = log[t][e]
      OBVIOUS
    <2>1. log[t] \in Seq(Event)
      BY DEF StateType
    <2>2. CASE t # s
      BY <2>2, <1>1
    <2>3. CASE t = s
      <3>1. log'[s] = Append(log[s], [at |-> now, boot |-> Boot])
        BY <1>1
      <3>2. e \in 1..Len(log[s])
        BY <2>1, <2>3
      <3> QED
        BY <2>1, <2>3, <3>1, <3>2
    <2> QED
      BY <2>2, <2>3
  <1>9. \A t \in Slots : \A e \in DOMAIN log'[t] :
            e \notin DOMAIN log[t] =>
                t = s /\ e = new /\ log'[t][e] = [at |-> now, boot |-> Boot]
    <2> SUFFICES ASSUME NEW t \in Slots, NEW e \in DOMAIN log'[t], e \notin DOMAIN log[t]
                 PROVE  t = s /\ e = new /\ log'[t][e] = [at |-> now, boot |-> Boot]
      OBVIOUS
    <2>1. t = s
      BY <1>1
    <2>2. log[s] \in Seq(Event) /\ log'[s] = Append(log[s], [at |-> now, boot |-> Boot])
      BY <1>1 DEF StateType
    <2>3. e \in 1..new /\ e \notin 1..Len(log[s])
      BY <2>1, <2>2
    <2> QED
      BY <2>1, <2>2, <2>3
  <1>4. EntriesBounded'
    <2> SUFFICES ASSUME NEW t \in Slots
                 PROVE  /\ windows'[t] \subseteq DOMAIN log'[t]
                        /\ IsFiniteSet(windows'[t])
                        /\ Cardinality(windows'[t]) <= Limit[t[1]]
      BY DEF EntriesBounded
    <2>1. CASE t # s
      <3>1. windows'[t] = windows[t] \/ windows'[t] = Live(t, windows[t])
        BY <2>1, <1>1, LiveOfSwept
      <3>2. log'[t] = log[t]
        BY <2>1, <1>1
      <3>3. CASE windows'[t] = windows[t]
        BY <3>2, <3>3 DEF EntriesBounded
      <3>4. CASE windows'[t] = Live(t, windows[t])
        BY <3>2, <3>4, LiveShrinks DEF EntriesBounded
      <3> QED
        BY <3>1, <3>3, <3>4
    <2>2. CASE t = s
      <3>1. /\ live \subseteq windows[s]
            /\ IsFiniteSet(live)
            /\ Cardinality(live) \in Nat
        BY LiveShrinks
      <3>2. Cardinality(live) < Limit[s[1]]
        BY <3>1, LiveOfSwept DEF Admit, BudgetSpent, Slots
      <3>3. /\ IsFiniteSet(live \cup {new})
            /\ Cardinality(live \cup {new}) <= Cardinality(live) + 1
        <4>1. /\ IsFiniteSet(live \cup {new})
              /\ Cardinality(live \cup {new})
                   = IF new \in live THEN Cardinality(live) ELSE Cardinality(live) + 1
          BY <3>1, FS_AddElement
        <4> HIDE DEF live, new
        <4> QED
          BY <3>1, <4>1
      <3>4. Cardinality(live \cup {new}) <= Limit[s[1]]
        BY <3>1, <3>2, <3>3, FS_CardinalityType DEF Slots
      <3>5. live \cup {new} \subseteq DOMAIN log'[s]
        <4>1. live \subseteq DOMAIN log[s]
          BY <3>1 DEF EntriesBounded
        <4>2. log[s] \in Seq(Event) /\ log'[s] = Append(log[s], [at |-> now, boot |-> Boot])
          BY <1>1 DEF StateType
        <4>3. new \in DOMAIN log'[s]
          BY <4>2
        <4> QED
          BY <4>1, <4>3, <1>8
      <3> QED
        BY <2>2, <1>1, <3>3, <3>4, <3>5
    <2> QED
      BY <2>1, <2>2
  <1>5. HistoryPast'
    <2> SUFFICES ASSUME NEW t \in Slots, NEW e \in DOMAIN log'[t]
                 PROVE  log'[t][e].boot <= Boot
      BY <1>2 DEF HistoryPast
    <2>1. CASE e \in DOMAIN log[t]
      BY <2>1, <1>8 DEF HistoryPast
    <2>2. CASE e \notin DOMAIN log[t]
      BY <2>2, <1>9 DEF StateType, Boot
    <2> QED
      BY <2>1, <2>2
  <1>6. LiveEventsTracked'
    <2> SUFFICES ASSUME NEW t \in Slots, NEW e \in LiveThisBoot(t)'
                 PROVE  e \in windows'[t]
      BY DEF LiveEventsTracked
    <2>1. e \in DOMAIN log'[t] /\ log'[t][e].boot = Boot /\ now - log'[t][e].at < Window[t[1]]
      BY <1>2 DEF LiveThisBoot, InWindow, Boot
    <2>2. CASE e \in DOMAIN log[t]
      <3>1. log'[t][e] = log[t][e]
        BY <2>2, <1>8
      <3>2. e \in windows[t] /\ e \in Live(t, windows[t])
        BY <2>1, <2>2, <3>1 DEF LiveThisBoot, InWindow, LiveEventsTracked, Live, Boot
      <3> QED
        BY <3>2, <1>1, LiveOfSwept
    <2>3. CASE e \notin DOMAIN log[t]
      BY <2>1, <2>3, <1>1, <1>9
    <2> QED
      BY <2>2, <2>3
  <1>7. CapacityRespected'
    <2>1. CASE s \in Tracked(windows)
      <3>1. ASSUME NEW t \in Slots, windows'[t] # {}
            PROVE  windows[t] # {}
        <4>1. CASE t = s
          BY <2>1, <4>1 DEF Tracked
        <4>2. CASE t # s
          <5>1. windows'[t] = windows[t] \/ windows'[t] = Live(t, windows[t])
            BY <4>2, <1>1, LiveOfSwept
          <5> QED
            BY <3>1, <5>1 DEF Live
        <4> QED
          BY <4>1, <4>2
      <3>2. Tracked(windows') \subseteq Tracked(windows)
        BY <3>1 DEF Tracked
      <3>3. Cardinality(Tracked(windows')) <= Cardinality(Tracked(windows))
        BY <3>2, TrackedFinite, FS_Subset
      <3> QED
        BY <3>3, TrackedFinite DEF CapacityRespected
    <2>2. CASE s \notin Tracked(windows)
      <3>1. Tracked(windows') \subseteq Tracked(Swept(s)) \cup {s}
        BY <1>1 DEF Tracked
      <3>2. /\ IsFiniteSet(Tracked(Swept(s)) \cup {s})
            /\ Cardinality(Tracked(Swept(s)) \cup {s}) <= Cardinality(Tracked(Swept(s))) + 1
        BY TrackedFinite, FS_AddElement
      <3>3. Cardinality(Tracked(windows')) <= Cardinality(Tracked(Swept(s)) \cup {s})
        BY <3>1, <3>2, FS_Subset
      <3>4. Cardinality(Tracked(Swept(s))) < MaxTracked
        BY <2>2, RoomForNewKey DEF Admit
      <3>5. Cardinality(Tracked(Swept(s)) \cup {s}) \in Nat
        BY <3>2, FS_CardinalityType
      <3> QED
        BY <3>2, <3>3, <3>4, <3>5, TrackedFinite DEF CapacityRespected
    <2> QED
      BY <2>1, <2>2
  <1> QED
    BY <1>3, <1>4, <1>5, <1>6, <1>7

----------------------------------------------------------------------------
LEMMA CheckKeepsMapInv ==
  ASSUME MapInv, NEW s \in Slots, Check(s)
  PROVE  MapInv'
  <1>1. StateType
    BY DEF MapInv
  <1>2. CASE RefuseNewKey(s)
    <2>1. /\ windows' \in [Slots -> SUBSET Nat]
          /\ \A t \in Slots : windows'[t] = Live(t, windows[t])
      BY <1>1, <1>2 DEF RefuseNewKey, PruneExpired, Live, StateType
    <2> QED
      BY <2>1, <1>2, ShrinkKeepsMapInv DEF RefuseNewKey
  <1>3. CASE DenyOverBudget(s)
    <2>1. /\ Swept(s) \in [Slots -> SUBSET Nat]
          /\ Live(s, Swept(s)[s]) = Live(s, windows[s])
          /\ \A t \in Slots : \/ Swept(s)[t] = windows[t]
                             \/ Swept(s)[t] = Live(t, windows[t])
      BY <1>1, LiveOfSwept
    <2>2. windows' = [Swept(s) EXCEPT ![s] = Live(s, windows[s])]
      BY <2>1, <1>3 DEF DenyOverBudget
    <2>3. Live(s, windows[s]) \in SUBSET Nat
      BY <1>1 DEF StateType, Live
    <2>4. /\ windows' \in [Slots -> SUBSET Nat]
          /\ \A t \in Slots : windows'[t] = windows[t] \/ windows'[t] = Live(t, windows[t])
      BY <2>1, <2>2, <2>3
    <2> QED
      BY <2>4, <1>3, ShrinkKeepsMapInv DEF DenyOverBudget
  <1> QED
    BY <1>2, <1>3, AdmitKeepsMapInv DEF Check

\* Time only takes events out of their windows.
LEMMA TickKeepsMapInv ==
  ASSUME MapInv, Tick
  PROVE  MapInv'
  <1> USE DEF MapInv
  <1>1. UNCHANGED <<boots, windows, log>> /\ now' = now + 1
    BY DEF Tick
  <1>2. StateType'
    BY <1>1 DEF StateType
  <1>3. EntriesBounded' /\ HistoryPast' /\ CapacityRespected'
    BY <1>1 DEF EntriesBounded, HistoryPast, CapacityRespected, Boot
  <1>4. LiveEventsTracked'
    <2> SUFFICES ASSUME NEW t \in Slots, NEW e \in LiveThisBoot(t)'
                 PROVE  e \in windows'[t]
      BY DEF LiveEventsTracked
    <2>1. /\ e \in DOMAIN log[t]
          /\ log[t][e].boot = Boot
          /\ (now + 1) - log[t][e].at < Window[t[1]]
      BY <1>1 DEF LiveThisBoot, InWindow, Boot
    <2>2. log[t][e].at \in Nat /\ now \in Nat /\ Window[t[1]] \in Nat
      BY <2>1, EventTyped DEF StateType
    <2>3. InWindow(t, e)
      BY <2>1, <2>2 DEF InWindow
    <2> QED
      BY <1>1, <2>1, <2>3 DEF LiveEventsTracked, LiveThisBoot
  <1> QED
    BY <1>2, <1>3, <1>4

\* A restart empties the map, and nothing in the history is of the new lifetime.
LEMMA RestartKeepsMapInv ==
  ASSUME MapInv, Restart
  PROVE  MapInv'
  <1> USE DEF MapInv
  <1>1. /\ UNCHANGED <<now, log>>
        /\ windows' = [s \in Slots |-> {}]
        /\ boots' = Append(boots, now)
    BY DEF Restart
  <1>2. Boot \in Nat /\ Boot' = Boot + 1
    BY <1>1 DEF Boot, StateType
  <1>3. StateType'
    BY <1>1 DEF StateType
  <1>4. EntriesBounded'
    BY <1>1, FS_EmptySet DEF EntriesBounded, Slots
  <1>5. HistoryPast'
    <2> SUFFICES ASSUME NEW t \in Slots, NEW e \in DOMAIN log[t]
                 PROVE  log[t][e].boot <= Boot'
      BY <1>1 DEF HistoryPast
    <2>1. log[t][e].boot \in Nat /\ log[t][e].boot <= Boot
      BY EventTyped DEF HistoryPast
    <2> QED
      BY <2>1, <1>2
  <1>6. LiveEventsTracked'
    <2> SUFFICES ASSUME NEW t \in Slots, NEW e \in LiveThisBoot(t)'
                 PROVE  FALSE
      BY DEF LiveEventsTracked
    <2>1. e \in DOMAIN log[t] /\ log[t][e].boot = Boot + 1
      BY <1>1, <1>2 DEF LiveThisBoot, Boot
    <2>2. log[t][e].boot <= Boot
      BY <2>1 DEF HistoryPast
    <2> QED
      BY <2>1, <2>2, <1>2
  <1>7. CapacityRespected'
    <2>1. Tracked(windows') = {}
      BY <1>1 DEF Tracked
    <2> QED
      BY <2>1, FS_EmptySet DEF CapacityRespected
  <1> QED
    BY <1>3, <1>4, <1>5, <1>6, <1>7

LEMMA NextKeepsMapInv == MapInv /\ [Next]_vars => MapInv'
  <1> SUFFICES ASSUME MapInv, [Next]_vars PROVE MapInv'
    OBVIOUS
  <1>1. CASE Tick
    BY <1>1, TickKeepsMapInv
  <1>2. CASE Restart
    BY <1>2, RestartKeepsMapInv
  <1>3. ASSUME NEW s \in Slots, Check(s) PROVE MapInv'
    BY <1>3, CheckKeepsMapInv
  <1>4. CASE UNCHANGED vars
    BY <1>4 DEF vars, MapInv, StateType, EntriesBounded, HistoryPast, LiveEventsTracked,
                CapacityRespected, LiveThisBoot, InWindow, Boot
  <1> QED
    BY <1>1, <1>2, <1>3, <1>4 DEF Next

\* The inductive invariant holds of every behaviour of the limiter.
THEOREM MapInvariant == Spec => []MapInv
  BY InitMapInv, NextKeepsMapInv, PTL DEF Spec

----------------------------------------------------------------------------
\* The history never shows more admissions of one lifetime in a window than the
\* budget: they are all in the map, and the map's entry is no larger.
LEMMA MapInvBoundsHistory == MapInv => BudgetPerProcess
  <1> SUFFICES ASSUME MapInv, NEW s \in Slots
               PROVE  Cardinality(LiveThisBoot(s)) <= Limit[s[1]]
    BY DEF BudgetPerProcess
  <1>1. /\ LiveThisBoot(s) \subseteq windows[s]
        /\ IsFiniteSet(windows[s])
        /\ Cardinality(windows[s]) <= Limit[s[1]]
    BY DEF MapInv, LiveEventsTracked, EntriesBounded
  <1>2. /\ IsFiniteSet(LiveThisBoot(s))
        /\ Cardinality(LiveThisBoot(s)) <= Cardinality(windows[s])
    BY <1>1, FS_Subset
  <1>3. /\ Cardinality(LiveThisBoot(s)) \in Nat
        /\ Cardinality(windows[s]) \in Nat
        /\ Limit[s[1]] \in Nat
    BY <1>1, <1>2, FS_CardinalityType DEF Slots
  <1> QED
    BY <1>1, <1>2, <1>3

\* In one lifetime of the process no key is admitted more often than its budget
\* allows in any window, for every number of keys and every ceiling of the map.
THEOREM BudgetHolds == Spec => []BudgetPerProcess
  BY MapInvariant, MapInvBoundsHistory, PTL

\* No live key is ever evicted: the sweep only drops what has aged out.
THEOREM NoLiveKeyEvicted == Spec => []LiveEventsTracked
  <1>1. MapInv => LiveEventsTracked
    BY DEF MapInv
  <1> QED
    BY <1>1, MapInvariant, PTL

\* The map never holds more keys than its ceiling.
THEOREM CapacityHolds == Spec => []CapacityRespected
  <1>1. MapInv => CapacityRespected
    BY DEF MapInv
  <1> QED
    BY <1>1, MapInvariant, PTL

----------------------------------------------------------------------------
\* What remains of TypeOK, and why a denial is justified: the map holds nothing
\* but admissions of this lifetime, and a reply belongs to the present instant.
WindowsThisBoot ==
    \A s \in Slots : \A e \in windows[s] : log[s][e].boot = Boot

LEMMA LiveIsHistory ==
  ASSUME MapInv, WindowsThisBoot, NEW s \in Slots
  PROVE  Live(s, windows[s]) = LiveThisBoot(s)
  BY DEF MapInv, EntriesBounded, WindowsThisBoot, LiveEventsTracked, Live, LiveThisBoot, Boot

LEMMA CheckKeepsWindowsThisBoot ==
  ASSUME MapInv, WindowsThisBoot, NEW s \in Slots, Check(s)
  PROVE  WindowsThisBoot'
  <1> SUFFICES ASSUME NEW t \in Slots, NEW e \in windows'[t]
               PROVE  log'[t][e].boot = Boot
    BY DEF WindowsThisBoot, Check, RefuseNewKey, DenyOverBudget, Admit, Boot
  <1>1. StateType /\ windows[t] \subseteq DOMAIN log[t]
    BY DEF MapInv, EntriesBounded
  <1>2. /\ Swept(s) \in [Slots -> SUBSET Nat]
        /\ Swept(s)[t] \subseteq windows[t]
        /\ Live(t, Swept(s)[t]) \subseteq windows[t]
    BY <1>1, LiveOfSwept DEF Live
  <1>3. CASE RefuseNewKey(s)
    BY <1>3 DEF RefuseNewKey, PruneExpired, Live, WindowsThisBoot
  <1>4. CASE DenyOverBudget(s)
    <2>1. windows'[t] \subseteq windows[t] /\ log' = log
      BY <1>2, <1>4 DEF DenyOverBudget
    <2> QED
      BY <2>1 DEF WindowsThisBoot
  <1>5. CASE Admit(s)
    <2>1. log[t] \in Seq(Event) /\ Len(log[t]) \in Nat
      BY <1>1 DEF StateType
    <2>2. log'[t] = IF t = s THEN Append(log[t], [at |-> now, boot |-> Boot]) ELSE log[t]
      BY <1>1, <1>5 DEF Admit, StateType
    <2>3. e \in windows[t] \/ (t = s /\ e = Len(log[t]) + 1)
      BY <1>2, <1>5 DEF Admit
    <2>4. CASE e \in windows[t]
      <3>1. e \in 1..Len(log[t])
        BY <1>1, <2>1, <2>4
      <3>2. log'[t][e] = log[t][e]
        BY <2>1, <2>2, <3>1
      <3> QED
        BY <2>4, <3>2 DEF WindowsThisBoot
    <2>5. CASE t = s /\ e = Len(log[t]) + 1
      BY <2>1, <2>2, <2>5
    <2> QED
      BY <2>3, <2>4, <2>5
  <1> QED
    BY <1>3, <1>4, <1>5 DEF Check

LEMMA CheckJustified ==
  ASSUME MapInv, WindowsThisBoot, NEW s \in Slots, Check(s)
  PROVE  DenialJustified'
  <1>1. CASE RefuseNewKey(s)
    <2>1. /\ reply'.outcome = "capacity" /\ reply'.slot = s
          /\ \A t \in Slots : LiveThisBoot(t)' = LiveThisBoot(t)
      BY <1>1 DEF RefuseNewKey, LiveThisBoot, InWindow, Boot
    <2>2. /\ s \notin Tracked(windows)
          /\ Cardinality(Tracked(PruneExpired)) >= MaxTracked
      BY <1>1 DEF RefuseNewKey, NoRoom, MapFull, Swept
    <2>3. Tracked(PruneExpired) = {t \in Slots \ {s} : LiveThisBoot(t) # {}}
      BY <2>2, LiveIsHistory DEF Tracked, PruneExpired, Live
    <2>4. {t \in Slots \ {s} : LiveThisBoot(t)' # {}} = {t \in Slots \ {s} : LiveThisBoot(t) # {}}
      BY <2>1
    <2> QED
      BY <2>1, <2>2, <2>3, <2>4 DEF DenialJustified
  <1>2. CASE DenyOverBudget(s)
    <2>1. /\ reply'.outcome = "budget" /\ reply'.slot = s
          /\ LiveThisBoot(s)' = LiveThisBoot(s)
      BY <1>2 DEF DenyOverBudget, LiveThisBoot, InWindow, Boot
    <2>2. Cardinality(Live(s, Swept(s)[s])) >= Limit[s[1]]
      BY <1>2 DEF DenyOverBudget, BudgetSpent
    <2>3. Live(s, Swept(s)[s]) = LiveThisBoot(s)
      BY LiveOfSwept, LiveIsHistory DEF MapInv
    <2> QED
      BY <2>1, <2>2, <2>3 DEF DenialJustified
  <1>3. CASE Admit(s)
    BY <1>3 DEF Admit, DenialJustified
  <1> QED
    BY <1>1, <1>2, <1>3 DEF Check

LEMMA JustifiedInductive ==
  MapInv /\ WindowsThisBoot /\ DenialJustified /\ [Next]_vars
    => WindowsThisBoot' /\ DenialJustified'
  <1> SUFFICES ASSUME MapInv, WindowsThisBoot, DenialJustified, [Next]_vars
               PROVE  WindowsThisBoot' /\ DenialJustified'
    OBVIOUS
  <1>1. CASE Tick
    BY <1>1 DEF Tick, WindowsThisBoot, Boot, DenialJustified, NoReply
  <1>2. CASE Restart
    BY <1>2 DEF Restart, WindowsThisBoot, DenialJustified, NoReply
  <1>3. ASSUME NEW s \in Slots, Check(s) PROVE WindowsThisBoot' /\ DenialJustified'
    BY <1>3, CheckKeepsWindowsThisBoot, CheckJustified
  <1>4. CASE UNCHANGED vars
    BY <1>4 DEF vars, WindowsThisBoot, Boot, DenialJustified, LiveThisBoot, InWindow
  <1> QED
    BY <1>1, <1>2, <1>3, <1>4 DEF Next

\* Every denial is backed by the history: the key's own budget is spent, or as
\* many other keys as the map holds are live at this instant.
THEOREM DenialsAreJustified == Spec => []DenialJustified
  <1>1. Init => WindowsThisBoot /\ DenialJustified
    BY DEF Init, WindowsThisBoot, DenialJustified, NoReply
  <1> QED
    BY <1>1, MapInvariant, JustifiedInductive, PTL DEF Spec

----------------------------------------------------------------------------
LEMMA LeastExists ==
  ASSUME NEW T, T \subseteq Nat, T # {}
  PROVE  \E e \in T : \A f \in T : e <= f
  <1>1. PICK e \in T : \A f \in T : ~ (<<f, e>> \in OpToRel(<, Nat))
    BY NatLessThanWellFounded, WFMin
  <1>2. \A f \in T : ~ (f < e)
    BY <1>1 DEF OpToRel
  <1> QED
    BY <1>2

\* A denied key has an oldest live event, so the advice is a natural number.
LEMMA DenialTyped ==
  ASSUME MapInv, NEW s \in Slots, BudgetSpent(s)
  PROVE  UntilOldestAges(s) \in Nat
  <1> DEFINE live == Live(s, windows[s])
             oldest == CHOOSE e \in live : \A f \in live : e <= f
  <1>1. live \subseteq DOMAIN log[s] /\ live \subseteq Nat
    BY DEF MapInv, StateType, EntriesBounded, Live
  <1>2. live # {}
    <2>1. Cardinality(live) >= Limit[s[1]]
      BY LiveOfSwept DEF MapInv, BudgetSpent
    <2>2. Limit[s[1]] \in Nat \ {0}
      BY DEF Slots
    <2> HIDE DEF live
    <2> QED
      BY <2>1, <2>2, FS_EmptySet
  <1>3. oldest \in live
    BY <1>1, <1>2, LeastExists
  <1>4. now - log[s][oldest].at < Window[s[1]]
    BY <1>3 DEF Live, InWindow
  <1>5. log[s][oldest].at \in Nat /\ Window[s[1]] \in Nat /\ now \in Nat
    BY <1>1, <1>3, EventTyped DEF MapInv, StateType
  <1> QED
    BY <1>4, <1>5 DEF UntilOldestAges

LEMMA CheckTyped ==
  ASSUME TypeOK, MapInv, NEW s \in Slots, Check(s)
  PROVE  TypeOK'
  <1>1. StateType'
    BY CheckKeepsMapInv DEF MapInv
  <1>2. now' \in 0..MaxTime /\ boots' \in Seq(0..MaxTime)
    BY DEF TypeOK, Check, RefuseNewKey, DenyOverBudget, Admit
  <1>3. reply' \in [outcome : {"admit"}, slot : Slots] \cup Denial
    <2>1. CASE RefuseNewKey(s)
      <3>1. Window[s[1]] \in Nat /\ Window[s[1]] \div TicksPerSec \in Nat
        BY DEF Slots
      <3> QED
        BY <2>1, <3>1 DEF RefuseNewKey, Denial
    <2>2. CASE DenyOverBudget(s)
      <3>1. UntilOldestAges(s) \in Nat
        BY <2>2, DenialTyped DEF DenyOverBudget
      <3>2. AtLeastOne(UntilOldestAges(s) \div TicksPerSec) \in Nat
        BY <3>1 DEF AtLeastOne
      <3>3. reply' = [outcome |-> "budget", slot |-> s,
                      retry |-> AtLeastOne(UntilOldestAges(s) \div TicksPerSec),
                      wait |-> UntilOldestAges(s)]
        BY <2>2 DEF DenyOverBudget
      <3> QED
        BY <3>1, <3>2, <3>3 DEF Denial
    <2>3. CASE Admit(s)
      BY <2>3 DEF Admit
    <2> QED
      BY <2>1, <2>2, <2>3 DEF Check
  <1> QED
    BY <1>1, <1>2, <1>3 DEF TypeOK, StateType

LEMMA NextTyped == TypeOK /\ MapInv /\ [Next]_vars => TypeOK'
  <1> SUFFICES ASSUME TypeOK, MapInv, [Next]_vars PROVE TypeOK'
    OBVIOUS
  <1>1. CASE Tick
    BY <1>1 DEF Tick, TypeOK
  <1>2. CASE Restart
    BY <1>2 DEF Restart, TypeOK
  <1>3. ASSUME NEW s \in Slots, Check(s) PROVE TypeOK'
    BY <1>3, CheckTyped
  <1>4. CASE UNCHANGED vars
    BY <1>4 DEF vars, TypeOK
  <1> QED
    BY <1>1, <1>2, <1>3, <1>4 DEF Next

\* Every reachable state is well typed; in particular a denial's advice and wait
\* are natural numbers, so the saturating subtraction never saturates.
THEOREM TypeCorrect == Spec => []TypeOK
  <1>1. Init => TypeOK
    BY DEF Init, TypeOK
  <1> QED
    BY <1>1, MapInvariant, NextTyped, PTL DEF Spec

----------------------------------------------------------------------------
\* The quotient is the last multiple of the divisor that fits.
LEMMA Quotient ==
  ASSUME NEW n \in Nat, NEW k \in Nat \ {0}
  PROVE  /\ n \div k \in Nat
         /\ (n \div k) * k <= n
         /\ n < (n \div k + 1) * k
  OBVIOUS

\* What is rounded down is less than a second short, and what is rounded up is one second.
LEMMA AdviceOf ==
  ASSUME NEW n \in Nat
  PROVE  LET advice == AtLeastOne(n \div TicksPerSec)
         IN /\ advice >= 1
            /\ advice > 1 => advice * TicksPerSec <= n
            /\ (advice + 1) * TicksPerSec > n
  <1> DEFINE seconds == n \div TicksPerSec
  <1>1. /\ seconds \in Nat /\ seconds * TicksPerSec <= n
        /\ n < (seconds + 1) * TicksPerSec
    BY Quotient
  <1> HIDE DEF seconds
  <1>2. CASE seconds = 0
    BY <1>1, <1>2 DEF AtLeastOne
  <1>3. CASE seconds # 0
    BY <1>1, <1>3 DEF AtLeastOne
  <1>4. n \div TicksPerSec = seconds
    BY DEF seconds
  <1> QED
    BY <1>2, <1>3, <1>4

\* The advice of a refusal is never zero, never a second short of the time until a place
\* frees up, and beyond it only where the wait is less than a second (throttle.rs:73-74).
THEOREM AdviceIsClose == Spec => []RetryAdviceClose
  <1>1. Init => RetryAdviceClose
    BY DEF Init, RetryAdviceClose, NoReply
  <1>2. MapInv /\ RetryAdviceClose /\ [Next]_vars => RetryAdviceClose'
    <2> SUFFICES ASSUME MapInv, RetryAdviceClose, [Next]_vars PROVE RetryAdviceClose'
      OBVIOUS
    <2>1. CASE Tick \/ Restart
      BY <2>1 DEF Tick, Restart, RetryAdviceClose, NoReply
    <2>2. ASSUME NEW s \in Slots, RefuseNewKey(s) \/ Admit(s) PROVE RetryAdviceClose'
      BY <2>2 DEF RefuseNewKey, Admit, RetryAdviceClose
    <2>3. ASSUME NEW s \in Slots, DenyOverBudget(s) PROVE RetryAdviceClose'
      <3>1. UntilOldestAges(s) \in Nat
        BY <2>3, DenialTyped DEF DenyOverBudget
      <3>2. /\ reply'.retry = AtLeastOne(UntilOldestAges(s) \div TicksPerSec)
            /\ reply'.wait = UntilOldestAges(s)
        BY <2>3 DEF DenyOverBudget
      <3> QED
        BY <3>1, <3>2, AdviceOf DEF RetryAdviceClose
    <2>4. CASE UNCHANGED vars
      BY <2>4 DEF vars, RetryAdviceClose
    <2> QED
      BY <2>1, <2>2, <2>3, <2>4 DEF Next, Check
  <1> QED
    BY <1>1, <1>2, MapInvariant, PTL DEF Spec

----------------------------------------------------------------------------
\* Each step of the limiter is a step of what it promises, or one the promise does
\* not see.  An admission is promised because the map has lost no live event: the
\* budget it was compared with counts every one the history has.
LEMMA AdmitAllowed ==
  ASSUME MapInv, NEW s \in Slots, Admit(s)
  PROVE  Allow(s)
  <1>1. Live(s, Swept(s)[s]) = Live(s, windows[s])
    BY LiveOfSwept DEF MapInv
  <1>2. LiveThisBoot(s) \subseteq Live(s, windows[s])
    BY DEF MapInv, LiveEventsTracked, LiveThisBoot, Live
  <1>3. IsFiniteSet(Live(s, windows[s])) /\ Cardinality(Live(s, windows[s])) \in Nat
    BY LiveShrinks DEF MapInv
  <1>4. Cardinality(LiveThisBoot(s)) \in Nat
        /\ Cardinality(LiveThisBoot(s)) <= Cardinality(Live(s, windows[s]))
    BY <1>2, <1>3, FS_Subset, FS_CardinalityType
  <1>5. Limit[s[1]] \in Nat /\ Cardinality(Live(s, windows[s])) < Limit[s[1]]
    BY <1>1, <1>3 DEF Admit, BudgetSpent, Slots
  <1>6. Cardinality(LiveThisBoot(s)) < Limit[s[1]]
    BY <1>3, <1>4, <1>5
  <1> QED
    BY <1>6 DEF Admit, Allow, Boot

LEMMA StepPromised ==
  MapInv /\ [Next]_vars => [LimiterNext]_<<now, boots, log>>
  <1> SUFFICES ASSUME MapInv, Next PROVE LimiterNext \/ UNCHANGED <<now, boots, log>>
    BY DEF vars
  <1>1. ASSUME NEW s \in Slots, Admit(s) PROVE Allow(s)
    BY <1>1, AdmitAllowed
  <1>2. ASSUME NEW s \in Slots, RefuseNewKey(s) \/ DenyOverBudget(s)
        PROVE  UNCHANGED <<now, boots, log>>
    BY <1>2 DEF RefuseNewKey, DenyOverBudget
  <1>3. Tick => Elapse
    BY DEF Tick, Elapse
  <1>4. Restart => Forget
    BY DEF Restart, Boot, Forget
  <1> QED
    BY <1>1, <1>2, <1>3, <1>4 DEF Next, Check, LimiterNext

\* The limiter keeps its promise: whatever its map forgets, sweeps and turns away,
\* its callers see admissions within the budget only.
THEOREM PromiseKept == Spec => LimiterImplemented
  <1>1. Init => LimiterInit
    BY DEF Init, LimiterInit
  <1> QED
    BY <1>1, StepPromised, MapInvariant, PTL DEF Spec, LimiterImplemented, LimiterSpec

----------------------------------------------------------------------------
(***************************************************************************)
(* The handlers.                                                           *)
(***************************************************************************)
Tickets == [slot : Slots, event : Nat]

Working == [pc : {"check"}, request : Requests, left : Seq(Slots), tickets : SUBSET Tickets]

\* What is called reaches somebody.
Calls == {x \in [request : Requests, tickets : SUBSET Tickets] : Reaches(x.request)}

\* What the limiter remembers, and what it promises.
LimiterInv ==
    /\ now \in Nat /\ boots \in Seq(Nat)
    /\ log \in [Slots -> Seq(Event)]
    /\ \A s \in Slots : \A e \in DOMAIN log[s] : log[s][e].boot <= Len(boots)
    /\ \A s \in Slots : /\ IsFiniteSet(LiveThisBoot(s))
                        /\ Cardinality(LiveThisBoot(s)) <= Limit[s[1]]

\* The slots of a list of budgets, and of a set of admissions.
Asked(list) == {list[i] : i \in DOMAIN list}
Paid(tickets) == {t.slot : t \in tickets}

Accounted(q) == q \in Working => Paid(q.tickets) \cup Asked(q.left) = Asked(Budgets(q.request))

\* Every admission is an entry of the log.
InLog(tickets, lg) == \A t \in tickets : t.event \in DOMAIN lg[t.slot]

Apart ==
    /\ \A x \in sent : /\ \A y \in sent \ {x} : x.tickets \cap y.tickets = {}
                       /\ \A h \in Handlers : x.tickets \cap handler[h].tickets = {}
    /\ \A g, h \in Handlers : g # h => handler[g].tickets \cap handler[h].tickets = {}

Books ==
    /\ LimiterInv
    /\ handler \in [Handlers -> {New, Done} \cup Working]
    /\ sent \subseteq Calls
    /\ \A h \in Handlers : Accounted(handler[h]) /\ InLog(handler[h].tickets, log)
    /\ \A x \in sent : Paid(x.tickets) = Asked(Budgets(x.request)) /\ InLog(x.tickets, log)
    /\ Apart

----------------------------------------------------------------------------
(* The limiter.                                                              *)

LEMMA SlotFacts ==
  ASSUME NEW s \in Slots
  PROVE  Limit[s[1]] \in Nat /\ Window[s[1]] \in Nat
  BY LimiterAssumption DEF Slots

LEMMA AdmitKeeps ==
  ASSUME LimiterInv, NEW s \in Slots, Allow(s)
  PROVE  /\ LimiterInv'
         /\ DOMAIN log'[s] = DOMAIN log[s] \cup {Len(log[s]) + 1}
         /\ \A c \in Slots : DOMAIN log[c] \subseteq DOMAIN log'[c]
         /\ Len(log[s]) + 1 \notin DOMAIN log[s]
  <1> DEFINE new == [at |-> now, boot |-> Len(boots)]
  <1>1. /\ log \in [Slots -> Seq(Event)] /\ now \in Nat /\ Len(boots) \in Nat
        /\ UNCHANGED <<now, boots>>
    BY DEF LimiterInv, Allow
  <1>2. new \in Event
    BY <1>1 DEF Event
  <1> HIDE DEF new
  <1>3. log' = [log EXCEPT ![s] = Append(@, new)]
    BY DEF Allow, new
  <1>4. /\ log' \in [Slots -> Seq(Event)]
        /\ log'[s] = Append(log[s], new)
        /\ \A c \in Slots \ {s} : log'[c] = log[c]
    BY <1>1, <1>2, <1>3
  <1>5. /\ Len(log'[s]) = Len(log[s]) + 1 /\ log'[s][Len(log[s]) + 1] = new
        /\ \A e \in 1..Len(log[s]) : log'[s][e] = log[s][e]
        /\ DOMAIN log[s] = 1..Len(log[s]) /\ Len(log[s]) \in Nat
        /\ DOMAIN log'[s] = 1..(Len(log[s]) + 1)
    BY <1>1, <1>2, <1>4
  <1>6. ASSUME NEW c \in Slots
        PROVE  /\ \A e \in DOMAIN log'[c] : log'[c][e].boot <= Len(boots')
               /\ LiveThisBoot(c)' \subseteq
                      IF c = s THEN LiveThisBoot(s) \cup {Len(log[s]) + 1} ELSE LiveThisBoot(c)
    <2>1. CASE c = s
      <3>1. new.boot <= Len(boots')
        BY <1>1 DEF new
      <3>2. \A e \in DOMAIN log'[s] : e = Len(log[s]) + 1 \/ e \in DOMAIN log[s]
        BY <1>5
      <3>3. \A e \in DOMAIN log'[s] : log'[s][e].boot <= Len(boots')
        BY <1>1, <1>5, <3>1, <3>2 DEF LimiterInv
      <3>4. LiveThisBoot(s)' \subseteq LiveThisBoot(s) \cup {Len(log[s]) + 1}
        BY <1>1, <1>5, <3>2 DEF LiveThisBoot, InWindow
      <3> QED
        BY <2>1, <3>3, <3>4
    <2>2. CASE c # s
      BY <1>1, <1>4, <2>2 DEF LimiterInv, LiveThisBoot, InWindow
    <2> QED
      BY <2>1, <2>2
  <1>7. ASSUME NEW c \in Slots
        PROVE  /\ IsFiniteSet(LiveThisBoot(c)')
               /\ Cardinality(LiveThisBoot(c)') <= Limit[c[1]]
    <2>1. /\ IsFiniteSet(LiveThisBoot(c)) /\ Cardinality(LiveThisBoot(c)) <= Limit[c[1]]
          /\ Limit[c[1]] \in Nat
      BY SlotFacts DEF LimiterInv
    <2>2. CASE c = s
      <3> DEFINE live == LiveThisBoot(s)
                 more == live \cup {Len(log[s]) + 1}
      <3>1. Cardinality(live) < Limit[s[1]]
        BY DEF Allow
      <3>2. IsFiniteSet(live) /\ Cardinality(live) \in Nat
        BY <2>1, <2>2, FS_CardinalityType
      <3>3. /\ IsFiniteSet(more)
            /\ Cardinality(more) = IF Len(log[s]) + 1 \in live THEN Cardinality(live)
                                   ELSE Cardinality(live) + 1
        BY <3>2, FS_AddElement
      <3>4. Cardinality(more) <= Limit[s[1]] /\ Cardinality(more) \in Nat
        BY <2>1, <2>2, <3>1, <3>2, <3>3, FS_CardinalityType
      <3>5. LiveThisBoot(s)' \subseteq more
        BY <1>6
      <3> HIDE DEF more
      <3>6. IsFiniteSet(LiveThisBoot(s)') /\ Cardinality(LiveThisBoot(s)') <= Cardinality(more)
        BY <3>3, <3>5, FS_Subset
      <3>7. Cardinality(LiveThisBoot(s)') \in Nat
        BY <3>6, FS_CardinalityType
      <3> QED
        BY <2>1, <2>2, <3>4, <3>6, <3>7
    <2>3. CASE c # s
      <3>1. LiveThisBoot(c)' \subseteq LiveThisBoot(c)
        BY <1>6, <2>3
      <3>2. /\ IsFiniteSet(LiveThisBoot(c)')
            /\ Cardinality(LiveThisBoot(c)') <= Cardinality(LiveThisBoot(c))
        BY <2>1, <3>1, FS_Subset
      <3>3. Cardinality(LiveThisBoot(c)') \in Nat /\ Cardinality(LiveThisBoot(c)) \in Nat
        BY <2>1, <3>2, FS_CardinalityType
      <3> QED
        BY <2>1, <3>2, <3>3
    <2> QED
      BY <2>2, <2>3
  <1>8. LimiterInv'
    BY <1>1, <1>4, <1>6, <1>7 DEF LimiterInv
  <1>9. ASSUME NEW c \in Slots PROVE DOMAIN log[c] \subseteq DOMAIN log'[c]
    <2>1. CASE c = s
      <3>1. 1..Len(log[s]) \subseteq 1..(Len(log[s]) + 1)
        BY <1>5
      <3> QED
        BY <1>5, <2>1, <3>1
    <2>2. CASE c # s
      BY <1>4, <2>2
    <2> QED
      BY <2>1, <2>2
  <1>10. /\ DOMAIN log'[s] = DOMAIN log[s] \cup {Len(log[s]) + 1}
         /\ Len(log[s]) + 1 \notin DOMAIN log[s]
    BY <1>5
  <1> QED
    BY <1>8, <1>9, <1>10

\* Time and a restart only take admissions out of the window.
LEMMA TimeKeeps ==
  ASSUME LimiterInv, Elapse \/ Forget
  PROVE  LimiterInv' /\ UNCHANGED log
  <1>1. /\ log \in [Slots -> Seq(Event)] /\ now \in Nat /\ boots \in Seq(Nat)
        /\ UNCHANGED log
    BY DEF LimiterInv, Elapse, Forget
  <1>2. /\ now' \in Nat /\ boots' \in Seq(Nat)
        /\ (now' = now + 1 /\ boots' = boots) \/ (now' = now /\ Len(boots') = Len(boots) + 1)
    <2>1. CASE Elapse
      BY <1>1, <2>1 DEF Elapse
    <2>2. CASE Forget
      BY <1>1, <2>2 DEF Forget
    <2> QED
      BY <2>1, <2>2
  <1>3. ASSUME NEW s \in Slots
        PROVE  /\ \A e \in DOMAIN log'[s] : log'[s][e].boot <= Len(boots')
               /\ LiveThisBoot(s)' \subseteq LiveThisBoot(s)
    <2>1. /\ \A e \in DOMAIN log[s] : log[s][e] \in Event /\ log[s][e].boot <= Len(boots)
          /\ Window[s[1]] \in Nat
      BY <1>1, SlotFacts DEF LimiterInv
    <2>2. \A e \in DOMAIN log[s] : log[s][e].at \in Nat /\ log[s][e].boot \in Nat
      BY <2>1 DEF Event
    <2>3. \A e \in DOMAIN log'[s] : log'[s][e].boot <= Len(boots')
      BY <1>1, <1>2, <2>1, <2>2
    <2>4. ASSUME NEW e \in LiveThisBoot(s)' PROVE e \in LiveThisBoot(s)
      <3>1. /\ e \in DOMAIN log[s] /\ log[s][e].boot = Len(boots')
            /\ now' - log[s][e].at < Window[s[1]]
        BY <1>1, <2>4 DEF LiveThisBoot, InWindow
      <3>2. now' = now + 1 /\ boots' = boots
        BY <1>1, <1>2, <2>1, <2>2, <3>1
      <3>3. now - log[s][e].at < Window[s[1]]
        BY <1>1, <2>1, <2>2, <3>1, <3>2
      <3> QED
        BY <3>1, <3>2, <3>3 DEF LiveThisBoot, InWindow
    <2> QED
      BY <2>3, <2>4
  <1>4. ASSUME NEW s \in Slots
        PROVE  /\ IsFiniteSet(LiveThisBoot(s)')
               /\ Cardinality(LiveThisBoot(s)') <= Limit[s[1]]
    <2>1. /\ IsFiniteSet(LiveThisBoot(s)) /\ Cardinality(LiveThisBoot(s)) <= Limit[s[1]]
          /\ Limit[s[1]] \in Nat
      BY SlotFacts DEF LimiterInv
    <2>2. /\ IsFiniteSet(LiveThisBoot(s)')
          /\ Cardinality(LiveThisBoot(s)') <= Cardinality(LiveThisBoot(s))
      BY <1>3, <2>1, FS_Subset
    <2>3. Cardinality(LiveThisBoot(s)') \in Nat /\ Cardinality(LiveThisBoot(s)) \in Nat
      BY <2>1, <2>2, FS_CardinalityType
    <2> QED
      BY <2>1, <2>2, <2>3
  <1> QED
    BY <1>1, <1>2, <1>3, <1>4 DEF LimiterInv

----------------------------------------------------------------------------
(* The handlers.                                                             *)

LEMMA Idle ==
  ASSUME NEW q \in {New, Done}
  PROVE  q.tickets = {} /\ q \notin Working /\ Accounted(q) /\ InLog(q.tickets, log)
                        /\ InLog(q.tickets, log')
  BY DEF New, Done, Working, Accounted, InLog

LEMMA WorkingFacts ==
  ASSUME Books, NEW h \in Handlers, handler[h].pc = "check"
  PROVE  /\ handler[h] \in Working /\ InLog(handler[h].tickets, log)
         /\ Paid(handler[h].tickets) \cup Asked(handler[h].left)
              = Asked(Budgets(handler[h].request))
  BY DEF Books, Accounted, New, Done

\* A handler that goes on as q, keeping its admissions or dropping them.
LEMMA HandlerMoves ==
  ASSUME Books, NEW h \in Handlers, NEW q \in {New, Done} \cup Working,
         handler' = [handler EXCEPT ![h] = q],
         Accounted(q), q.tickets \subseteq handler[h].tickets, UNCHANGED <<limiterVars, sent>>
  PROVE  Books'
  <1>1. \A g \in Handlers : handler'[g] = IF g = h THEN q ELSE handler[g]
    BY DEF Books
  <1>2. \A g \in Handlers : handler'[g].tickets \subseteq handler[g].tickets
    BY <1>1
  <1>3. Apart'
    BY <1>2 DEF Books, Apart
  <1>4. LimiterInv'
    BY DEF Books, LimiterInv, limiterVars, LiveThisBoot, InWindow
  <1>5. \A g \in Handlers : Accounted(handler'[g]) /\ InLog(handler'[g].tickets, log')
    BY <1>1 DEF Books, InLog, limiterVars
  <1>6. handler' \in [Handlers -> {New, Done} \cup Working]
    BY DEF Books
  <1> QED
    BY <1>3, <1>4, <1>5, <1>6 DEF Books, limiterVars, Accounted, InLog, Paid, Asked

\* What each route asks for, in its order.
LEMMA BudgetFacts ==
  ASSUME NEW r \in Requests
  PROVE  /\ Budgets(r) \in Seq(Slots)
         /\ Asked(Budgets(r)) =
               CASE r.route = "otp"      -> {<<"OtpDispatchPerIdentifier", IdentifierKey(r)>>,
                                             <<"OtpDispatchPerClient", ClientKey(r)>>}
                 [] r.route = "verify"   -> {<<"OtpVerifyPerIdentifier", IdentifierKey(r)>>}
                 [] r.route = "password" -> {<<"PasswordPerIdentifier", IdentifierKey(r)>>}
                 [] r.route = "mfa"      -> {<<"MfaVerifyPerClient", ClientKey(r)>>}
  <1>1. /\ r.route \in {"otp", "verify", "password", "mfa"}
        /\ \A i \in DOMAIN Budgets(r) : Budgets(r)[i] \in Slots
    BY DispatchAssumption
  <1>2. ASSUME NEW a, NEW b, Budgets(r) = <<a, b>>
        PROVE  Budgets(r) \in Seq(Slots) /\ Asked(Budgets(r)) = {a, b}
    <2>1. DOMAIN <<a, b>> = {1, 2} /\ <<a, b>>[1] = a /\ <<a, b>>[2] = b
      OBVIOUS
    <2>2. a \in Slots /\ b \in Slots
      BY <1>1, <1>2, <2>1
    <2>3. Asked(<<a, b>>) = {a, b}
      BY <2>1 DEF Asked
    <2> QED
      BY <1>2, <2>2, <2>3
  <1>3. ASSUME NEW a, Budgets(r) = <<a>>
        PROVE  Budgets(r) \in Seq(Slots) /\ Asked(Budgets(r)) = {a}
    <2>1. DOMAIN <<a>> = {1} /\ <<a>>[1] = a
      OBVIOUS
    <2>2. a \in Slots
      BY <1>1, <1>3, <2>1
    <2>3. Asked(<<a>>) = {a}
      BY <2>1 DEF Asked
    <2> QED
      BY <1>3, <2>2, <2>3
  <1>4. CASE r.route = "otp"
    <2>1. Budgets(r) = << <<"OtpDispatchPerIdentifier", IdentifierKey(r)>>,
                          <<"OtpDispatchPerClient", ClientKey(r)>> >>
      BY <1>4 DEF Budgets
    <2> QED
      BY <1>2, <1>4, <2>1
  <1>5. CASE r.route = "verify"
    <2>1. Budgets(r) = << <<"OtpVerifyPerIdentifier", IdentifierKey(r)>> >>
      BY <1>5 DEF Budgets
    <2> QED
      BY <1>3, <1>5, <2>1
  <1>6. CASE r.route = "password"
    <2>1. Budgets(r) = << <<"PasswordPerIdentifier", IdentifierKey(r)>> >>
      BY <1>6 DEF Budgets
    <2> QED
      BY <1>3, <1>6, <2>1
  <1>7. CASE r.route = "mfa"
    <2>1. Budgets(r) = << <<"MfaVerifyPerClient", ClientKey(r)>> >>
      BY <1>7 DEF Budgets
    <2> QED
      BY <1>3, <1>7, <2>1
  <1> QED
    BY <1>1, <1>4, <1>5, <1>6, <1>7

LEMMA ArriveStep ==
  ASSUME Books, NEW h \in Handlers, NEW r \in Requests, Arrive(h, r)
  PROVE  Books'
  <1> DEFINE q == [pc |-> "check", request |-> r, left |-> Budgets(r), tickets |-> {}]
  <1>1. Budgets(r) \in Seq(Slots)
    BY BudgetFacts
  <1>2. q \in Working
    BY <1>1 DEF Working
  <1>3. Accounted(q)
    BY DEF Accounted, Paid
  <1>4. handler' = [handler EXCEPT ![h] = q] /\ UNCHANGED <<limiterVars, sent>> /\ q.tickets = {}
    BY DEF Arrive
  <1> HIDE DEF q
  <1> QED
    BY <1>2, <1>3, <1>4, HandlerMoves

LEMMA GiveUpStep ==
  ASSUME Books, NEW h \in Handlers, TooMany(h) \/ NoCall(h)
  PROVE  Books'
  <1>1. handler' = [handler EXCEPT ![h] = Done] /\ UNCHANGED <<limiterVars, sent>>
    BY DEF TooMany, TurnAway, NoCall
  <1> QED
    BY <1>1, Idle, HandlerMoves

LEMMA PassStep ==
  ASSUME Books, NEW h \in Handlers, Pass(h)
  PROVE  Books'
  <1> DEFINE s == Head(handler[h].left)
             t == Ticket(s, Len(log[s]) + 1)
             more == handler[h].tickets \cup {t}
             rest == Tail(handler[h].left)
             q == [handler[h] EXCEPT !.left = rest, !.tickets = more]
  <1>1. /\ handler[h] \in Working /\ InLog(handler[h].tickets, log)
        /\ Paid(handler[h].tickets) \cup Asked(handler[h].left)
             = Asked(Budgets(handler[h].request))
    BY WorkingFacts DEF Pass, Asks
  <1>2. /\ handler[h].left \in Seq(Slots) /\ handler[h].left # <<>>
        /\ handler[h].tickets \subseteq Tickets
    BY <1>1 DEF Pass, Asks, Working
  <1>3. /\ s \in Slots /\ rest \in Seq(Slots)
        /\ Asked(handler[h].left) = Asked(rest) \cup {s}
    <2>1. s \in Slots /\ rest \in Seq(Slots) /\ s = handler[h].left[1]
      BY <1>2
    <2>2. /\ Len(rest) = Len(handler[h].left) - 1 /\ Len(handler[h].left) \in Nat \ {0}
          /\ \A i \in 1..Len(rest) : rest[i] = handler[h].left[i + 1]
      BY <1>2
    <2>3. \A i \in DOMAIN handler[h].left :
             i = 1 \/ (i - 1 \in DOMAIN rest /\ rest[i - 1] = handler[h].left[i])
      BY <1>2, <2>1, <2>2
    <2>4. \A i \in DOMAIN rest : i + 1 \in DOMAIN handler[h].left
      BY <1>2, <2>1, <2>2
    <2>5. 1 \in DOMAIN handler[h].left
      BY <1>2, <2>2
    <2>6. Asked(handler[h].left) \subseteq Asked(rest) \cup {s}
      <3> SUFFICES ASSUME NEW i \in DOMAIN handler[h].left
                   PROVE  handler[h].left[i] \in Asked(rest) \cup {s}
        BY DEF Asked
      <3> HIDE DEF s, rest
      <3>1. CASE i = 1
        BY <2>1, <3>1
      <3>2. CASE i - 1 \in DOMAIN rest /\ rest[i - 1] = handler[h].left[i]
        BY <3>2 DEF Asked
      <3> QED
        BY <2>3, <3>1, <3>2
    <2>7. Asked(rest) \subseteq Asked(handler[h].left)
      BY <1>2, <2>1, <2>2, <2>4 DEF Asked
    <2>8. s \in Asked(handler[h].left)
      BY <2>1, <2>5 DEF Asked
    <2> QED
      BY <2>1, <2>6, <2>7, <2>8
  <1>4. Allow(s) /\ UNCHANGED sent
    BY DEF Pass
  <1>5. handler' = [handler EXCEPT ![h] = q]
    BY <1>1 DEF Pass, Charge, Books, Working
  <1>6. Len(log[s]) \in Nat
    BY <1>3 DEF Books, LimiterInv
  <1> HIDE DEF s, rest
  <1>7. t \in Tickets /\ t.slot = s /\ t.event = Len(log[s]) + 1
    BY <1>3, <1>6 DEF Ticket, Tickets
  <1>8. /\ LimiterInv'
        /\ DOMAIN log'[s] = DOMAIN log[s] \cup {Len(log[s]) + 1}
        /\ \A c \in Slots : DOMAIN log[c] \subseteq DOMAIN log'[c]
        /\ Len(log[s]) + 1 \notin DOMAIN log[s]
    BY <1>3, <1>4, AdmitKeeps DEF Books
  <1> HIDE DEF t
  <1>9. ASSUME NEW T \in SUBSET Tickets, InLog(T, log) PROVE InLog(T, log') /\ t \notin T
    BY <1>7, <1>8, <1>9 DEF InLog, Tickets
  <1>10. q \in Working /\ q.tickets = more /\ q.left = rest /\ q.request = handler[h].request
    BY <1>1, <1>2, <1>3, <1>7 DEF Working
  <1> HIDE DEF q
  <1>11. Accounted(q)
    <2>1. Paid(more) = Paid(handler[h].tickets) \cup {s}
      BY <1>7 DEF Paid
    <2> QED
      BY <1>1, <1>3, <1>10, <2>1 DEF Accounted
  <1>12. InLog(more, log')
    BY <1>1, <1>2, <1>7, <1>8, <1>9 DEF InLog
  <1>13. \A g \in Handlers : handler'[g] = IF g = h THEN q ELSE handler[g]
    BY <1>5 DEF Books
  <1>14. /\ handler' \in [Handlers -> {New, Done} \cup Working]
         /\ \A g \in Handlers : handler[g].tickets \in SUBSET Tickets
    BY <1>5, <1>10, Idle DEF Books, Working
  <1>15. \A g \in Handlers : Accounted(handler'[g]) /\ InLog(handler'[g].tickets, log')
    BY <1>9, <1>10, <1>11, <1>12, <1>13, <1>14 DEF Books
  <1>16. \A x \in sent : /\ x.tickets \in SUBSET Tickets /\ t \notin x.tickets
                         /\ Paid(x.tickets) = Asked(Budgets(x.request)) /\ InLog(x.tickets, log')
    BY <1>9 DEF Books, Calls
  <1>17. Apart'
    <2>1. \A g \in Handlers : t \notin handler[g].tickets
      BY <1>9, <1>14 DEF Books
    <2>2. \A g \in Handlers : handler'[g].tickets
             = IF g = h THEN handler[g].tickets \cup {t} ELSE handler[g].tickets
      BY <1>10, <1>13
    <2>3. Apart /\ sent' = sent
      BY <1>4 DEF Books
    <2>4. \A x \in sent : /\ \A y \in sent \ {x} : x.tickets \cap y.tickets = {}
                          /\ \A g \in Handlers : x.tickets \cap handler'[g].tickets = {}
      <3>1. \A x \in sent : \A y \in sent \ {x} : x.tickets \cap y.tickets = {}
        BY <2>3 DEF Apart
      <3>2. \A x \in sent : \A g \in Handlers :
               t \notin x.tickets /\ x.tickets \cap handler[g].tickets = {}
        BY <1>16, <2>3 DEF Apart
      <3>3. ASSUME NEW x \in sent, NEW g \in Handlers
            PROVE  x.tickets \cap handler'[g].tickets = {}
        <4>1. x.tickets \cap handler[g].tickets = {} /\ t \notin x.tickets
          BY <3>2
        <4>2. CASE g = h
          BY <2>2, <4>1, <4>2
        <4>3. CASE g # h
          BY <2>2, <4>1, <4>3
        <4> QED
          BY <4>2, <4>3
      <3> QED
        BY <3>1, <3>3
    <2>5. ASSUME NEW f \in Handlers, NEW g \in Handlers, f # g
          PROVE  handler'[f].tickets \cap handler'[g].tickets = {}
      <3>1. handler[f].tickets \cap handler[g].tickets = {}
        BY <2>3, <2>5 DEF Apart
      <3>2. t \notin handler[f].tickets /\ t \notin handler[g].tickets
        BY <2>1
      <3>3. handler'[f].tickets \subseteq handler[f].tickets \cup {t}
            /\ handler'[g].tickets \subseteq handler[g].tickets \cup {t}
            /\ (handler'[f].tickets = handler[f].tickets \/ handler'[g].tickets = handler[g].tickets)
        <4>1. CASE f = h
          BY <2>2, <2>5, <4>1
        <4>2. CASE f # h
          BY <2>2, <2>5, <4>2
        <4> QED
          BY <4>1, <4>2
      <3> QED
        BY <3>1, <3>2, <3>3
    <2> QED
      BY <2>3, <2>4, <2>5 DEF Apart
  <1> QED
    BY <1>4, <1>8, <1>14, <1>15, <1>16, <1>17 DEF Books, Accounted, InLog, Paid, Asked

LEMMA CallStep ==
  ASSUME Books, NEW h \in Handlers, Call(h)
  PROVE  Books'
  <1> DEFINE x == [request |-> handler[h].request, tickets |-> handler[h].tickets]
  <1>1. /\ handler[h] \in Working /\ InLog(handler[h].tickets, log)
        /\ Paid(handler[h].tickets) \cup Asked(handler[h].left)
             = Asked(Budgets(handler[h].request))
        /\ handler[h].left = <<>>
    BY WorkingFacts DEF Call, Admitted
  <1>2. Paid(handler[h].tickets) = Asked(Budgets(handler[h].request))
    BY <1>1 DEF Asked
  <1>3. x \in Calls /\ x.tickets = handler[h].tickets /\ x.request = handler[h].request
    BY <1>1 DEF Call, Calls, Working
  <1>4. /\ sent' = sent \cup {x} /\ handler' = [handler EXCEPT ![h] = Done]
        /\ UNCHANGED <<now, boots, log>>
    BY DEF Call, limiterVars
  <1> HIDE DEF x
  <1>5. \A g \in Handlers : handler'[g] = IF g = h THEN Done ELSE handler[g]
    BY <1>4 DEF Books
  <1>6. LimiterInv'
    BY <1>4 DEF Books, LimiterInv, LiveThisBoot, InWindow
  <1>7. \A g \in Handlers : Accounted(handler'[g]) /\ InLog(handler'[g].tickets, log')
    BY <1>4, <1>5, Idle DEF Books
  <1>8. sent' \subseteq Calls
    BY <1>3, <1>4 DEF Books
  <1>9. \A y \in sent' : Paid(y.tickets) = Asked(Budgets(y.request)) /\ InLog(y.tickets, log')
    BY <1>1, <1>2, <1>3, <1>4 DEF Books
  <1>10. Apart'
    <2>1. Done.tickets = {}
      BY Idle
    <2> QED
      BY <1>3, <1>4, <1>5, <2>1 DEF Books, Apart
  <1>11. handler' \in [Handlers -> {New, Done} \cup Working]
    BY <1>4 DEF Books
  <1> QED
    BY <1>6, <1>7, <1>8, <1>9, <1>10, <1>11 DEF Books, Accounted, InLog, Paid, Asked

LEMMA TimeStep ==
  ASSUME Books, DispatchTick \/ DispatchRestart
  PROVE  Books'
  <1>1. LimiterInv' /\ UNCHANGED <<log, sent>>
    BY TimeKeeps DEF Books, DispatchTick, DispatchRestart
  <1>2. \A g \in Handlers : handler'[g] \in {handler[g], New, Done}
    BY DEF DispatchTick, DispatchRestart, HandlersLost
  <1>3. handler' \in [Handlers -> {New, Done} \cup Working]
    BY <1>2 DEF Books, DispatchTick, DispatchRestart, HandlersLost
  <1>4. \A g \in Handlers : handler'[g].tickets \subseteq handler[g].tickets
    BY <1>2, Idle
  <1>5. \A g \in Handlers : Accounted(handler'[g]) /\ InLog(handler'[g].tickets, log')
    BY <1>1, <1>2, Idle DEF Books
  <1>6. Apart'
    BY <1>1, <1>4 DEF Books, Apart
  <1> QED
    BY <1>1, <1>3, <1>5, <1>6 DEF Books, Accounted, InLog, Paid, Asked

LEMMA InitBooks == DispatchInit => Books
  <1> SUFFICES ASSUME DispatchInit PROVE Books
    OBVIOUS
  <1>1. /\ now = 0 /\ boots = <<>> /\ log = [s \in Slots |-> <<>>]
        /\ handler = [h \in Handlers |-> New] /\ sent = {}
    BY DEF DispatchInit, LimiterInit
  <1>2. \A s \in Slots : LiveThisBoot(s) = {}
    BY <1>1 DEF LiveThisBoot
  <1>3. LimiterInv
    <2>1. <<>> \in Seq(Nat) /\ <<>> \in Seq(Event) /\ 0 \in Nat
      OBVIOUS
    <2>2. log \in [Slots -> Seq(Event)] /\ \A s \in Slots : DOMAIN log[s] = {}
      BY <1>1, <2>1
    <2>3. \A s \in Slots : /\ IsFiniteSet(LiveThisBoot(s))
                          /\ Cardinality(LiveThisBoot(s)) <= Limit[s[1]]
      BY <1>2, SlotFacts, FS_EmptySet
    <2> QED
      BY <1>1, <2>1, <2>2, <2>3 DEF LimiterInv
  <1>4. \A h \in Handlers : Accounted(handler[h]) /\ InLog(handler[h].tickets, log)
                            /\ handler[h].tickets = {}
    BY <1>1, Idle
  <1> QED
    BY <1>1, <1>3, <1>4 DEF Books, Apart

LEMMA NextKeepsBooks == Books /\ [DispatchNext]_dispatchVars => Books'
  <1> SUFFICES ASSUME Books, [DispatchNext]_dispatchVars PROVE Books'
    OBVIOUS
  <1>1. CASE UNCHANGED dispatchVars
    <2>1. UNCHANGED <<now, boots, log, handler, sent>>
      BY <1>1 DEF dispatchVars, limiterVars
    <2>2. LimiterInv'
      BY <2>1 DEF Books, LimiterInv, LiveThisBoot, InWindow
    <2>3. Apart'
      BY <2>1 DEF Books, Apart
    <2>4. \A h \in Handlers : Accounted(handler'[h]) /\ InLog(handler'[h].tickets, log')
      BY <2>1 DEF Books
    <2>5. /\ handler' \in [Handlers -> {New, Done} \cup Working] /\ sent' \subseteq Calls
          /\ \A x \in sent' : /\ Paid(x.tickets) = Asked(Budgets(x.request))
                             /\ InLog(x.tickets, log')
      BY <2>1 DEF Books
    <2> QED
      BY <2>1, <2>2, <2>3, <2>4, <2>5 DEF Books, Accounted, InLog, Paid, Asked
  <1> QED
    BY <1>1, ArriveStep, GiveUpStep, PassStep, CallStep, TimeStep DEF DispatchNext

\* Whatever checks interleave, the books are right.
THEOREM BooksInvariant == DispatchSpec => []Books
  BY InitBooks, NextKeepsBooks, PTL DEF DispatchSpec

\* No call is made before every budget of its route has paid for it, and none with
\* what another request paid (login.rs:545-548, 608-610, 695-698).
THEOREM CallsArePaid == DispatchSpec => []EveryCallPaid
  <1>1. ASSUME Books PROVE EveryCallPaid
    <2> DEFINE price == [otp |-> {"OtpDispatchPerIdentifier", "OtpDispatchPerClient"},
                         verify |-> {"OtpVerifyPerIdentifier"},
                         password |-> {"PasswordPerIdentifier"},
                         mfa |-> {"MfaVerifyPerClient"}]
    <2>1. ASSUME NEW x \in sent
          PROVE  {t.slot[1] : t \in x.tickets} = price[x.request.route]
      <3>1. x.request \in Requests /\ Paid(x.tickets) = Asked(Budgets(x.request))
        BY <1>1 DEF Books, Calls
      <3>2. x.request.route \in {"otp", "verify", "password", "mfa"}
        BY <3>1, DispatchAssumption
      <3>3. {t.slot[1] : t \in x.tickets} = {s[1] : s \in Paid(x.tickets)}
        BY DEF Paid
      <3>4. {s[1] : s \in Asked(Budgets(x.request))} = price[x.request.route]
        <4>1. CASE x.request.route = "otp"
          <5>1. /\ price[x.request.route] = {"OtpDispatchPerIdentifier", "OtpDispatchPerClient"}
                /\ Asked(Budgets(x.request)) =
                     {<<"OtpDispatchPerIdentifier", IdentifierKey(x.request)>>,
                      <<"OtpDispatchPerClient", ClientKey(x.request)>>}
            BY <3>1, <4>1, BudgetFacts
          <5> HIDE DEF price
          <5> QED
            BY <5>1
        <4>2. CASE x.request.route = "verify"
          <5>1. /\ price[x.request.route] = {"OtpVerifyPerIdentifier"}
                /\ Asked(Budgets(x.request)) =
                     {<<"OtpVerifyPerIdentifier", IdentifierKey(x.request)>>}
            BY <3>1, <4>2, BudgetFacts
          <5> HIDE DEF price
          <5> QED
            BY <5>1
        <4>3. CASE x.request.route = "password"
          <5>1. /\ price[x.request.route] = {"PasswordPerIdentifier"}
                /\ Asked(Budgets(x.request)) =
                     {<<"PasswordPerIdentifier", IdentifierKey(x.request)>>}
            BY <3>1, <4>3, BudgetFacts
          <5> HIDE DEF price
          <5> QED
            BY <5>1
        <4>4. CASE x.request.route = "mfa"
          <5>1. /\ price[x.request.route] = {"MfaVerifyPerClient"}
                /\ Asked(Budgets(x.request)) = {<<"MfaVerifyPerClient", ClientKey(x.request)>>}
            BY <3>1, <4>4, BudgetFacts
          <5> HIDE DEF price
          <5> QED
            BY <5>1
        <4> QED
          BY <3>2, <4>1, <4>2, <4>3, <4>4
      <3> QED
        BY <3>1, <3>3, <3>4
    <2>2. Apart
      BY <1>1 DEF Books
    <2> HIDE DEF price
    <2> QED
      BY <2>1, <2>2 DEF EveryCallPaid, Apart, price
  <1> QED
    BY <1>1, BooksInvariant, PTL

\* The calls that bucket b let through for key k, each on an admission of its own, are
\* no more than the live admissions of the slot.
LEMMA CallsAdmitted ==
  ASSUME Books, NEW s \in Slots, NEW C \in SUBSET sent,
         \A x \in C : \E t \in x.tickets : t.slot = s /\ t.event \in LiveThisBoot(s)
  PROVE  Cardinality(C) <= Limit[s[1]]
  <1> DEFINE paid(x) == CHOOSE t \in x.tickets : t.slot = s /\ t.event \in LiveThisBoot(s)
             f == [x \in C |-> paid(x).event]
  <1>1. \A x \in C : /\ paid(x) \in x.tickets /\ paid(x).slot = s
                     /\ paid(x).event \in LiveThisBoot(s)
    OBVIOUS
  <1>2. \A x \in C : x.tickets \subseteq Tickets
    BY DEF Books, Calls
  <1>3. \A x \in C : paid(x) = [slot |-> s, event |-> paid(x).event]
    BY <1>1, <1>2 DEF Tickets
  <1>4. \A x \in C : \A y \in C : x # y => x.tickets \cap y.tickets = {}
    BY DEF Books, Apart
  <1> HIDE DEF paid
  <1>5. \A x \in C : \A y \in C : x # y => paid(x).event # paid(y).event
    BY <1>1, <1>3, <1>4
  <1>6. f \in Injection(C, LiveThisBoot(s))
    BY <1>1, <1>5 DEF Injection, IsInjective
  <1>7. /\ IsFiniteSet(LiveThisBoot(s)) /\ Cardinality(LiveThisBoot(s)) <= Limit[s[1]]
        /\ Limit[s[1]] \in Nat
    BY SlotFacts DEF Books, LimiterInv
  <1> HIDE DEF f
  <1>8. IsFiniteSet(C) /\ Cardinality(C) <= Cardinality(LiveThisBoot(s))
    BY <1>6, <1>7, FS_Injection
  <1>9. Cardinality(C) \in Nat /\ Cardinality(LiveThisBoot(s)) \in Nat
    BY <1>7, <1>8, FS_CardinalityType
  <1> QED
    BY <1>7, <1>8, <1>9

\* Two requests of one peer count under one key.
LEMMA SamePeer ==
  ASSUME NEW x, NEW y, Peer(x) = Peer(y)
  PROVE  ClientKey(x) = ClientKey(y)
  <1>1. CASE x.hops = <<>> /\ y.hops = <<>>
    BY <1>1 DEF ClientKey
  <1>2. CASE x.hops # <<>> /\ y.hops # <<>>
    <2>1. <<x.hops[Len(x.hops)]>> = <<y.hops[Len(y.hops)]>>
      BY <1>2 DEF Peer
    <2>2. x.hops[Len(x.hops)] = y.hops[Len(y.hops)]
      BY <2>1
    <2> QED
      BY <1>2, <2>2 DEF ClientKey
  <1>3. \A v : <<v>> # <<>>
    OBVIOUS
  <1> QED
    BY <1>1, <1>2, <1>3 DEF Peer

\* What pays for a call in bucket b is an admission of one slot: the account's, as the
\* limiter spells it, or the peer's.
LEMMA FreshSlot ==
  ASSUME Books, NEW x \in sent, NEW b, Fresh(x, b)
  PROVE  \E t \in x.tickets :
            /\ t.slot \in Slots /\ t.event \in LiveThisBoot(t.slot)
            /\ \/ /\ b \in {"OtpDispatchPerIdentifier", "OtpVerifyPerIdentifier",
                             "PasswordPerIdentifier"}
                  /\ t.slot = <<b, IdentifierKey(x.request)>>
               \/ /\ b \in {"OtpDispatchPerClient", "MfaVerifyPerClient"}
                  /\ t.slot = <<b, ClientKey(x.request)>>
  <1>1. x.request \in Requests /\ Paid(x.tickets) = Asked(Budgets(x.request))
        /\ x.tickets \subseteq Tickets
    BY DEF Books, Calls
  <1>2. PICK t \in x.tickets : t.slot[1] = b /\ t.event \in LiveThisBoot(t.slot)
    BY DEF Fresh
  <1>3. t.slot \in Slots /\ t.slot \in Asked(Budgets(x.request))
    BY <1>1 DEF Tickets, Paid
  <1>4. x.request.route \in {"otp", "verify", "password", "mfa"}
    BY <1>1, DispatchAssumption
  <1>5. t.slot \in {<<"OtpDispatchPerIdentifier", IdentifierKey(x.request)>>,
                    <<"OtpVerifyPerIdentifier", IdentifierKey(x.request)>>,
                    <<"PasswordPerIdentifier", IdentifierKey(x.request)>>,
                    <<"OtpDispatchPerClient", ClientKey(x.request)>>,
                    <<"MfaVerifyPerClient", ClientKey(x.request)>>}
    BY <1>1, <1>3, <1>4, BudgetFacts
  <1> QED
    BY <1>2, <1>3, <1>5

\* An address that is called about was written without inner blanks.
LEMMA CalledAsWritten ==
  ASSUME Books, NEW x \in sent, x.request.channel # "phone"
  PROVE  x.request.gap = Solid
  BY DEF Books, Calls, Reaches

\* In one lifetime no window sees more calls about an address however it is written, about
\* a number for each way of setting blanks inside it, or by a peer of the gateway, than
\* the budget of that route (throttle.rs:40-51).
THEOREM AccountsAndPeersProtected == DispatchSpec => []BudgetsHold
  <1>1. ASSUME Books, NEW b \in IdentifierBuckets \cap Buckets, NEW y \in sent
        PROVE  Cardinality({x \in sent :
                              /\ SameAccount(x, y)
                              /\ y.request.channel = "phone" => x.request.gap = y.request.gap
                              /\ Fresh(x, b)}) <= Limit[b]
    <2> DEFINE C == {x \in sent : /\ SameAccount(x, y)
                                  /\ y.request.channel = "phone" => x.request.gap = y.request.gap
                                  /\ Fresh(x, b)}
               s == <<b, IdentifierKey(y.request)>>
    <2>1. ASSUME NEW x \in C
          PROVE  s \in Slots /\ \E t \in x.tickets : t.slot = s /\ t.event \in LiveThisBoot(s)
      <3>1. x.request.gap = y.request.gap
        <4>1. CASE y.request.channel = "phone"
          BY <4>1
        <4>2. CASE y.request.channel # "phone"
          <5>1. x \in sent /\ x.request.channel # "phone"
            BY <4>2 DEF SameAccount
          <5> HIDE DEF C
          <5> QED
            BY <1>1, <4>2, <5>1, CalledAsWritten
        <4> QED
          BY <4>1, <4>2
      <3>2. IdentifierKey(x.request) = IdentifierKey(y.request)
        BY <3>1 DEF IdentifierKey, SameAccount
      <3>3. PICK t \in x.tickets : /\ t.slot \in Slots /\ t.event \in LiveThisBoot(t.slot)
                                   /\ t.slot = <<b, IdentifierKey(x.request)>>
        BY <1>1, <2>1, FreshSlot DEF IdentifierBuckets
      <3> QED
        BY <3>2, <3>3
    <2>2. CASE C = {}
      <3>1. Limit[b] \in Nat
        BY <1>1, LimiterAssumption
      <3>2. Cardinality(C) = 0
        BY <2>2, FS_EmptySet
      <3> QED
        BY <3>1, <3>2
    <2>3. CASE C # {}
      <3>1. s \in Slots /\ C \in SUBSET sent
        BY <2>1, <2>3
      <3>2. \A x \in C : \E t \in x.tickets : t.slot = s /\ t.event \in LiveThisBoot(s)
        BY <2>1
      <3>3. s[1] = b
        OBVIOUS
      <3> HIDE DEF C, s
      <3>4. Cardinality(C) <= Limit[b]
        BY <1>1, <3>1, <3>2, <3>3, CallsAdmitted
      <3> QED
        BY <3>4 DEF C
    <2> QED
      BY <2>2, <2>3
  <1>2. ASSUME Books, NEW b \in {"OtpDispatchPerClient", "MfaVerifyPerClient"} \cap Buckets,
               NEW y \in sent
        PROVE  Cardinality({x \in sent : Peer(x.request) = Peer(y.request) /\ Fresh(x, b)})
                 <= Limit[b]
    <2> DEFINE C == {x \in sent : Peer(x.request) = Peer(y.request) /\ Fresh(x, b)}
               s == <<b, ClientKey(y.request)>>
    <2>1. ASSUME NEW x \in C
          PROVE  s \in Slots /\ \E t \in x.tickets : t.slot = s /\ t.event \in LiveThisBoot(s)
      <3>1. ClientKey(x.request) = ClientKey(y.request)
        BY <2>1, SamePeer
      <3>2. PICK t \in x.tickets : /\ t.slot \in Slots /\ t.event \in LiveThisBoot(t.slot)
                                   /\ t.slot = <<b, ClientKey(x.request)>>
        BY <1>2, <2>1, FreshSlot
      <3> QED
        BY <3>1, <3>2
    <2>2. CASE C = {}
      <3>1. Limit[b] \in Nat
        BY <1>2, LimiterAssumption
      <3>2. Cardinality(C) = 0
        BY <2>2, FS_EmptySet
      <3> QED
        BY <3>1, <3>2
    <2>3. CASE C # {}
      <3>1. s \in Slots /\ C \in SUBSET sent
        BY <2>1, <2>3
      <3>2. \A x \in C : \E t \in x.tickets : t.slot = s /\ t.event \in LiveThisBoot(s)
        BY <2>1
      <3>3. s[1] = b
        OBVIOUS
      <3> HIDE DEF C, s
      <3>4. Cardinality(C) <= Limit[b]
        BY <1>2, <3>1, <3>2, <3>3, CallsAdmitted
      <3> QED
        BY <3>4 DEF C
    <2> QED
      BY <2>2, <2>3
  <1>3. Books => BudgetsHold
    BY <1>1, <1>2 DEF BudgetsHold, AccountProtected, PeerCapped
  <1> QED
    BY <1>3, BooksInvariant, PTL

----------------------------------------------------------------------------
(***************************************************************************)
(* The handlers on the map.                                                *)
(***************************************************************************)

\* A handler asks the map for a budget it knows.
LEMMA AsksForSlot ==
  ASSUME Books, NEW h \in Handlers, Asks(h)
  PROVE  Head(handler[h].left) \in Slots
  <1>1. handler[h] \in Working
    BY WorkingFacts DEF Asks
  <1>2. handler[h].left \in Seq(Slots) /\ handler[h].left # <<>>
    BY <1>1 DEF Asks, Working
  <1> QED
    BY <1>2

\* The map sees checks, the clock and restarts, and nothing else of the handlers.
LEMMA MapSteps ==
  Books /\ [BudgetsNext]_budgetVars => [Next]_vars
  <1> SUFFICES ASSUME Books, BudgetsNext PROVE [Next]_vars
    BY DEF budgetVars
  <1>1. ASSUME NEW h \in Handlers, Ask(h) PROVE Next
    <2>1. Head(handler[h].left) \in Slots
      BY <1>1, AsksForSlot DEF Ask
    <2>2. Check(Head(handler[h].left))
      BY <1>1 DEF Ask, Check
    <2> QED
      BY <2>1, <2>2 DEF Next
  <1>2. ASSUME NEW h \in Handlers, Elsewhere(h) PROVE UNCHANGED vars
    BY <1>2 DEF Elsewhere, Call, NoCall, Arrive, limiterVars, vars
  <1>3. CASE BudgetsTick \/ BudgetsRestart
    BY <1>3 DEF BudgetsTick, BudgetsRestart, Next
  <1> QED
    BY <1>1, <1>2, <1>3 DEF BudgetsNext

\* A step of the handlers on the map is one of theirs on what the map promises: who is
\* admitted is allowed, and who is refused may be.
LEMMA HandlerSteps ==
  MapInv /\ Books /\ [BudgetsNext]_budgetVars => [DispatchNext]_dispatchVars
  <1> SUFFICES ASSUME MapInv, Books, BudgetsNext PROVE [DispatchNext]_dispatchVars
    BY DEF budgetVars, vars, dispatchVars, limiterVars
  <1>1. ASSUME NEW h \in Handlers, Ask(h) PROVE Pass(h) \/ TooMany(h)
    <2> DEFINE s == Head(handler[h].left)
    <2>1. Asks(h) /\ s \in Slots /\ UNCHANGED sent
      BY <1>1, AsksForSlot DEF Ask
    <2>2. CASE Admit(s) /\ Charge(h)
      BY <2>1, <2>2, AdmitAllowed DEF Pass
    <2>3. CASE (DenyOverBudget(s) \/ RefuseNewKey(s)) /\ TurnAway(h)
      BY <2>1, <2>3 DEF DenyOverBudget, RefuseNewKey, TooMany, limiterVars
    <2> QED
      BY <1>1, <2>2, <2>3 DEF Ask
  <1>2. ASSUME NEW h \in Handlers, Elsewhere(h)
        PROVE  Call(h) \/ NoCall(h) \/ \E r \in Requests : Arrive(h, r)
    BY <1>2 DEF Elsewhere
  <1>3. BudgetsTick => DispatchTick
    BY DEF BudgetsTick, Tick, DispatchTick, Elapse
  <1>4. BudgetsRestart => DispatchRestart
    BY DEF BudgetsRestart, Restart, DispatchRestart, Forget, Boot
  <1> QED
    BY <1>1, <1>2, <1>3, <1>4 DEF BudgetsNext, DispatchNext

\* Both invariants hold together: each needs the other's for its steps to be steps of
\* its own specification.
LEMMA TogetherInvariant == BudgetsSpec => [](MapInv /\ Books)
  <1>1. BudgetsInit => MapInv /\ Books
    <2>1. BudgetsInit => Init /\ DispatchInit
      BY DEF BudgetsInit, Init, DispatchInit, LimiterInit
    <2> QED
      BY <2>1, InitMapInv, InitBooks
  <1>2. MapInv /\ Books /\ [BudgetsNext]_budgetVars => (MapInv /\ Books)'
    BY MapSteps, HandlerSteps, NextKeepsMapInv, NextKeepsBooks
  <1> QED
    BY <1>1, <1>2, PTL DEF BudgetsSpec

\* On the map, with its sweeps, its ceiling and its refusals, the sign-in handlers do only
\* what Dispatch has them do on the limiter the map promises to be.
THEOREM HandlersOnTheMap == BudgetsSpec => DispatchImplemented
  <1>1. BudgetsInit => DispatchInit
    BY DEF BudgetsInit, Init, DispatchInit, LimiterInit
  <1> QED
    BY <1>1, HandlerSteps, TogetherInvariant, PTL DEF BudgetsSpec, DispatchImplemented, DispatchSpec

\* The map under the handlers is the map on its own, and what holds of that holds here:
\* ceiling, justified refusals, close advice.
THEOREM MapUnderHandlers == BudgetsSpec => Spec
  <1>1. BudgetsInit => Init
    BY DEF BudgetsInit
  <1> QED
    BY <1>1, MapSteps, TogetherInvariant, PTL DEF BudgetsSpec, Spec

\* So the code's map protects accounts and peers of the gateway, and every call has paid.
THEOREM ProtectedOnTheMap == BudgetsSpec => [](BudgetsHold /\ EveryCallPaid)
  BY HandlersOnTheMap, AccountsAndPeersProtected, CallsArePaid, PTL DEF DispatchImplemented
=============================================================================
