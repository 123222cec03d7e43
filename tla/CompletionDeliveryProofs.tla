----------------------- MODULE CompletionDeliveryProofs -----------------------
(***************************************************************************)
(* Delivery keeps its promise for any set of events, any number of         *)
(* consumers and any number of faults.                                     *)
(***************************************************************************)
EXTENDS CompletionDelivery, FiniteSetTheorems, TLAPS

\* The facts about an event the proofs use.
LEMMA EventFacts ==
    ASSUME NEW e \in Events
    PROVE  /\ e.dur \in Nat /\ e.timer \in Nat /\ e.extends \in Nat
           /\ Promise!StatisticOf(e) \in Promise!TimerIds
           /\ e.timer \in Promise!TimerIds
<1>1. e \in [seq: Nat, user: STRING, timer: Nat \ {0}, extends: Nat,
             type: {"work", "break"}, intentions: BOOLEAN,
             dur: Nat \ {0}, valid: BOOLEAN]
  BY DeliveryAssumption DEF Promise!EventAssumption
<1>2. e.timer \in Promise!TimerIds /\ e.extends \in Promise!TimerIds
  BY DEF Promise!TimerIds
<1> QED
  BY <1>1, <1>2 DEF Promise!StatisticOf

\* Crediting an event keeps the statistics well typed.
LEMMA CreditType ==
    ASSUME NEW e \in Events, NEW m \in [Promise!TimerIds -> Nat], NEW n \in Nat
    PROVE  /\ Promise!Credit(e, m) \in [Promise!TimerIds -> Nat]
           /\ Promise!CountUse(e, n) \in Nat
<1>1. \A t \in Promise!TimerIds : m[t] \in Nat
  OBVIOUS
<1>2. [m EXCEPT ![Promise!StatisticOf(e)] = @ + e.dur] \in [Promise!TimerIds -> Nat]
  BY <1>1, EventFacts
<1> QED
  BY <1>2 DEF Promise!Credit, Promise!CountUse

\* Every variable keeps its type.
THEOREM DeliveryTypes == Spec => []TypeOK
<1>1. Init => TypeOK
  BY DEF Init, TypeOK
<1>2. TypeOK /\ [Next]_vars => TypeOK'
  <2> SUFFICES ASSUME TypeOK, [Next]_vars PROVE TypeOK'
    OBVIOUS
  <2> USE DEF TypeOK, hands, group, database
  <2>1. ASSUME NEW e \in Events, Publish(e) PROVE TypeOK'
    BY <2>1 DEF Publish
  <2>2. ASSUME NEW e \in Events, Age(e) PROVE TypeOK'
    BY <2>2 DEF Age
  <2>3. ASSUME NEW c \in Consumers, NEW e \in Events, ReadNew(c, e) PROVE TypeOK'
    BY <2>3 DEF ReadNew
  <2>4. ASSUME NEW c \in Consumers, NEW e \in Events, Persist(c, e) PROVE TypeOK'
    <3>1. /\ statistics' \in [Promise!TimerIds -> Nat] /\ uses' \in Nat
          /\ notifications' \subseteq Events
      BY <2>4, CreditType DEF Persist, DuplicateEffects, NewEffects
    <3> QED
      BY <2>4, <3>1 DEF Persist
  <2>5. ASSUME NEW c \in Consumers, NEW e \in Events, Reject(c, e) PROVE TypeOK'
    BY <2>5 DEF Reject
  <2>6. ASSUME NEW c \in Consumers, NEW e \in Events, Acknowledge(c, e) PROVE TypeOK'
    BY <2>6 DEF Acknowledge, StreamAfterAck
  <2>7. ASSUME NEW c \in Consumers, NEW e \in Events, CallFails(c, e) PROVE TypeOK'
    BY <2>7 DEF CallFails
  <2>8. ASSUME NEW c \in Consumers, Recover(c) PROVE TypeOK'
    BY <2>8 DEF Recover
  <2>9. ASSUME NEW c \in Consumers, Crash(c) PROVE TypeOK'
    BY <2>9 DEF Crash
  <2>10. CASE UNCHANGED vars
    BY <2>10 DEF vars
  <2> QED
    BY <2>1, <2>2, <2>3, <2>4, <2>5, <2>6, <2>7, <2>8, <2>9, <2>10
    DEF Next, EntryStep
<1> QED
  BY <1>1, <1>2, PTL DEF Spec

-----------------------------------------------------------------------------
(* Nothing is lost *)

\* The strengthening: an entry is acknowledged on the strength of what a
\* consumer stored, so that must have a receipt; what recovery hands out is
\* pending, and a new entry is not one that is being handled already.
HandsHonest == \A c \in Consumers : stored[c] \subseteq receipts

IdleIsPending == idle \subseteq pending

StreamIsPublished == stream \subseteq published

DeliveryInv ==
    NothingLost /\ Reachable /\ HandsHonest /\ IdleIsPending /\ StreamIsPublished

\* Each step keeps the strengthened invariant.
LEMMA DeliveryInductive ==
    ASSUME TypeOK, DeliveryInv, [Next]_vars
    PROVE  DeliveryInv'
<1> USE DEF TypeOK, DeliveryInv, NothingLost, Reachable, HandsHonest, IdleIsPending,
            StreamIsPublished, hands, group, database
<1>1. ASSUME NEW e \in Events, Publish(e) PROVE DeliveryInv'
  <2>1. e \notin published
    <3>1. e.seq \in Nat
      BY DeliveryAssumption DEF Promise!EventAssumption
    <3> QED
      BY <1>1, <3>1 DEF Publish
  <2>2. e \notin pending
    BY <2>1
  <2> QED
    BY <1>1, <2>1, <2>2 DEF Publish
<1>2. ASSUME NEW e \in Events, Age(e) PROVE DeliveryInv'
  BY <1>2 DEF Age
<1>3. ASSUME NEW c \in Consumers, NEW e \in Events, ReadNew(c, e) PROVE DeliveryInv'
  BY <1>3 DEF ReadNew
<1>4. ASSUME NEW c \in Consumers, NEW e \in Events, Persist(c, e) PROVE DeliveryInv'
  BY <1>4 DEF Persist
<1>5. ASSUME NEW c \in Consumers, NEW e \in Events, Reject(c, e) PROVE DeliveryInv'
  BY <1>5 DEF Reject
<1>6. ASSUME NEW c \in Consumers, NEW e \in Events, Acknowledge(c, e) PROVE DeliveryInv'
  BY <1>6 DEF Acknowledge, Acknowledgeable, StreamAfterAck
<1>7. ASSUME NEW c \in Consumers, NEW e \in Events, CallFails(c, e) PROVE DeliveryInv'
  BY <1>7 DEF CallFails
<1>8. ASSUME NEW c \in Consumers, Recover(c) PROVE DeliveryInv'
  BY <1>8 DEF Recover
<1>9. ASSUME NEW c \in Consumers, Crash(c) PROVE DeliveryInv'
  BY <1>9 DEF Crash
<1>10. CASE UNCHANGED vars
  BY <1>10 DEF vars
<1> QED
  BY <1>1, <1>2, <1>3, <1>4, <1>5, <1>6, <1>7, <1>8, <1>9, <1>10 DEF Next, EntryStep

LEMMA DeliveryInvariant == Spec => []DeliveryInv
<1>1. Init => DeliveryInv
  BY DEF Init, DeliveryInv, NothingLost, Reachable, HandsHonest, IdleIsPending,
         StreamIsPublished
<1> QED
  BY <1>1, DeliveryInductive, DeliveryTypes, PTL DEF Spec

\* Whatever consumers fail or take over from each other, an event leaves the
\* stream only after its own effects were committed.
THEOREM NoEventLost == Spec => []NothingLost
<1>1. DeliveryInv => NothingLost
  BY DEF DeliveryInv
<1> QED
  BY <1>1, DeliveryInvariant, PTL

\* An entry that is still in the stream is unread or pending, never both and
\* never neither.
THEOREM NoEntryStranded == Spec => []Reachable
<1>1. DeliveryInv => Reachable
  BY DEF DeliveryInv
<1> QED
  BY <1>1, DeliveryInvariant, PTL

-----------------------------------------------------------------------------
(* Sums of durations: what MapThenSumSet computes for a finite set.  The      *)
(* library's induction theorems cannot be instantiated, so each induction is  *)
(* a smallest counterexample, which well-foundedness provides.                *)

Picked(s) == CHOOSE x \in s : TRUE

Adds(g, S) ==
    g = [s \in SUBSET S |-> IF s = {} THEN 0 ELSE Picked(s).dur + g[s \ {Picked(s)}]]

\* The sum of the library is a recursive function over the subsets.
LEMMA TotalIs == \A S : Total(S) = (CHOOSE g : Adds(g, S))[S]
BY DEF Total, MapThenSumSet, MapThenFoldSet, Adds, Picked

\* Induction over a finite set, as a fact about sets of its subsets: some member of
\* B has no other member of B below it.
LEMMA MinimalSubset ==
    ASSUME NEW S, IsFiniteSet(S), NEW B \in SUBSET (SUBSET S), B # {}
    PROVE  \E T \in B : \A U \in B : U \subseteq T => U = T
<1>1. IsWellFoundedOn(StrictSubsetOrdering(S), SUBSET S)
  BY FS_StrictSubsetOrderingWellFounded, FS_FiniteSubsetsOfFinite
<1>2. PICK T \in B : \A U \in B : ~ (<<U, T>> \in StrictSubsetOrdering(S))
  <2> HIDE DEF StrictSubsetOrdering
  <2> QED
    BY <1>1, WFMin
<1> QED
  BY <1>2 DEF StrictSubsetOrdering

LEMMA PickedIn == \A s : s # {} => Picked(s) \in s
BY DEF Picked

\* One step of the recursion.
LEMMA AddsApply ==
    ASSUME NEW S, NEW g, Adds(g, S), NEW s \in SUBSET S
    PROVE  g[s] = IF s = {} THEN 0 ELSE Picked(s).dur + g[s \ {Picked(s)}]
<1> DEFINE F(h) == [t \in SUBSET S |-> IF t = {} THEN 0 ELSE Picked(t).dur + h[t \ {Picked(t)}]]
<1>1. g = F(g)
  BY DEF Adds
<1>2. F(g)[s] = IF s = {} THEN 0 ELSE Picked(s).dur + g[s \ {Picked(s)}]
  OBVIOUS
<1> QED
  BY <1>1, <1>2

\* What is added up over a set does not depend on the set it is a part of.
LEMMA AddsAgree ==
    ASSUME NEW S, IsFiniteSet(S), NEW R, S \subseteq R, NEW g, NEW h, Adds(g, S), Adds(h, R)
    PROVE  \A s \in SUBSET S : g[s] = h[s]
<1> DEFINE B == {s \in SUBSET S : g[s] # h[s]}
<1> SUFFICES ASSUME B # {} PROVE FALSE
  OBVIOUS
<1>1. PICK s \in B : \A u \in B : u \subseteq s => u = s
  <2>1. B \in SUBSET (SUBSET S)
    OBVIOUS
  <2> HIDE DEF B
  <2> QED
    BY <2>1, MinimalSubset
<1>2. s \in SUBSET S /\ s \in SUBSET R
  OBVIOUS
<1>3. /\ g[s] = IF s = {} THEN 0 ELSE Picked(s).dur + g[s \ {Picked(s)}]
      /\ h[s] = IF s = {} THEN 0 ELSE Picked(s).dur + h[s \ {Picked(s)}]
  <2> HIDE DEF B
  <2> QED
    BY <1>2, AddsApply
<1>4. CASE s = {}
  BY <1>3, <1>4
<1>5. CASE s # {}
  <2>1. Picked(s) \in s
    BY <1>5, PickedIn
  <2>2. g[s \ {Picked(s)}] = h[s \ {Picked(s)}]
    BY <1>1, <1>2, <2>1
  <2> QED
    BY <1>1, <1>3, <1>5, <2>2
<1> QED
  BY <1>4, <1>5

\* There is a function that adds up: from those of the smaller sets.
LEMMA AddsExists ==
    ASSUME NEW S, IsFiniteSet(S)
    PROVE  \E g : Adds(g, S)
<1> DEFINE B == {s \in SUBSET S : ~ \E g : Adds(g, s)}
<1> SUFFICES ASSUME B # {} PROVE FALSE
  OBVIOUS
<1>1. PICK T \in B : \A U \in B : U \subseteq T => U = T
  <2>1. B \in SUBSET (SUBSET S)
    OBVIOUS
  <2> HIDE DEF B
  <2> QED
    BY <2>1, MinimalSubset
<1> DEFINE G(u) == CHOOSE g : Adds(g, u)
           g == [s \in SUBSET T |-> IF s = {} THEN 0
                                    ELSE Picked(s).dur + G(s \ {Picked(s)})[s \ {Picked(s)}]]
<1>2. ASSUME NEW u \in SUBSET T, u # T PROVE Adds(G(u), u) /\ IsFiniteSet(u)
  <2>1. \E f : Adds(f, u)
    BY <1>1, <1>2
  <2>2. u \in SUBSET S
    OBVIOUS
  <2> QED
    BY <2>1, <2>2, FS_Subset
<1>3. ASSUME NEW u \in SUBSET T, u # T PROVE g[u] = G(u)[u]
  <2>1. Adds(G(u), u) /\ IsFiniteSet(u)
    BY <1>2, <1>3
  <2>2. G(u)[u] = IF u = {} THEN 0 ELSE Picked(u).dur + G(u)[u \ {Picked(u)}]
    BY <2>1, AddsApply
  <2>3. CASE u = {}
    BY <2>2, <2>3
  <2>4. CASE u # {}
    <3> DEFINE v == u \ {Picked(u)}
    <3>1. Picked(u) \in u
      BY <2>4, PickedIn
    <3>2. v \in SUBSET T /\ v # T /\ v \subseteq u
      BY <3>1
    <3>3. Adds(G(v), v) /\ IsFiniteSet(v)
      BY <1>2, <3>2
    <3>4. G(v)[v] = G(u)[v]
      <4> HIDE DEF G, v
      <4> QED
        BY <2>1, <3>2, <3>3, AddsAgree
    <3> QED
      BY <2>2, <2>4, <3>4
  <2> QED
    BY <2>3, <2>4
<1>4. Adds(g, T)
  <2>1. ASSUME NEW s \in SUBSET T, s # {} PROVE g[s \ {Picked(s)}] = G(s \ {Picked(s)})[s \ {Picked(s)}]
    <3>1. Picked(s) \in s
      BY <2>1, PickedIn
    <3>2. s \ {Picked(s)} \in SUBSET T /\ s \ {Picked(s)} # T
      BY <3>1
    <3> HIDE DEF G, g
    <3> QED
      BY <1>3, <3>2
  <2>2. ASSUME NEW s \in SUBSET T
        PROVE  g[s] = IF s = {} THEN 0 ELSE Picked(s).dur + g[s \ {Picked(s)}]
    <3>1. g[s] = IF s = {} THEN 0 ELSE Picked(s).dur + G(s \ {Picked(s)})[s \ {Picked(s)}]
      OBVIOUS
    <3> HIDE DEF G, g
    <3> QED
      BY <2>1, <3>1
  <2>3. g = [s \in SUBSET T |-> g[s]]
    OBVIOUS
  <2> HIDE DEF g
  <2> QED
    BY <2>2, <2>3 DEF Adds
<1> QED
  BY <1>1, <1>4

\* Every member has a duration.
Timed(S) == \A e \in S : e.dur \in Nat

LEMMA AddsType ==
    ASSUME NEW S, IsFiniteSet(S), NEW g, Adds(g, S), Timed(S)
    PROVE  \A s \in SUBSET S : g[s] \in Nat
<1> DEFINE B == {s \in SUBSET S : g[s] \notin Nat}
<1> SUFFICES ASSUME B # {} PROVE FALSE
  OBVIOUS
<1>1. PICK s \in B : \A u \in B : u \subseteq s => u = s
  <2>1. B \in SUBSET (SUBSET S)
    OBVIOUS
  <2> HIDE DEF B
  <2> QED
    BY <2>1, MinimalSubset
<1>2. g[s] = IF s = {} THEN 0 ELSE Picked(s).dur + g[s \ {Picked(s)}]
  <2>1. s \in SUBSET S
    OBVIOUS
  <2> HIDE DEF B
  <2> QED
    BY <2>1, AddsApply
<1>3. CASE s # {}
  <2>1. Picked(s) \in s
    BY <1>3, PickedIn
  <2>2. g[s \ {Picked(s)}] \in Nat
    BY <1>1, <2>1
  <2> QED
    BY <1>1, <1>2, <1>3, <2>1, <2>2 DEF Timed
<1> QED
  BY <1>1, <1>2, <1>3

\* Any member may be added first.
LEMMA AddsAny ==
    ASSUME NEW S, IsFiniteSet(S), NEW g, Adds(g, S), Timed(S)
    PROVE  \A s \in SUBSET S : \A x \in s : g[s] = x.dur + g[s \ {x}]
<1> DEFINE B == {s \in SUBSET S : \E x \in s : g[s] # x.dur + g[s \ {x}]}
<1> SUFFICES ASSUME B # {} PROVE FALSE
  OBVIOUS
<1>1. PICK s \in B : \A u \in B : u \subseteq s => u = s
  <2>1. B \in SUBSET (SUBSET S)
    OBVIOUS
  <2> HIDE DEF B
  <2> QED
    BY <2>1, MinimalSubset
<1>2. PICK x \in s : g[s] # x.dur + g[s \ {x}]
  OBVIOUS
<1> DEFINE y == Picked(s)
<1>3. y \in s
  BY PickedIn
<1>4. g[s] = y.dur + g[s \ {y}]
  <2>1. s \in SUBSET S /\ s # {}
    OBVIOUS
  <2>2. g[s] = IF s = {} THEN 0 ELSE Picked(s).dur + g[s \ {Picked(s)}]
    <3> HIDE DEF B
    <3> QED
      BY <2>1, AddsApply
  <2> QED
    BY <2>1, <2>2
<1>5. y # x
  BY <1>2, <1>4
<1>6. s \ {x} \notin B /\ s \ {y} \notin B /\ s \ {x} \in SUBSET S /\ s \ {y} \in SUBSET S
  BY <1>1, <1>3
<1>7. g[s \ {y}] = x.dur + g[(s \ {y}) \ {x}] /\ g[s \ {x}] = y.dur + g[(s \ {x}) \ {y}]
  BY <1>3, <1>5, <1>6
<1>8. (s \ {y}) \ {x} = (s \ {x}) \ {y} /\ (s \ {x}) \ {y} \in SUBSET S
  OBVIOUS
<1>9. x.dur \in Nat /\ y.dur \in Nat /\ g[(s \ {x}) \ {y}] \in Nat
  BY <1>3, <1>8, AddsType DEF Timed
<1>10. g[s] = x.dur + g[s \ {x}]
  <2> DEFINE k == g[(s \ {x}) \ {y}]
  <2>1. g[s] = y.dur + (x.dur + k) /\ g[s \ {x}] = y.dur + k /\ k \in Nat
    BY <1>4, <1>7, <1>8, <1>9
  <2> HIDE DEF k, B, y
  <2> QED
    BY <1>9, <2>1
<1> QED
  BY <1>2, <1>10

LEMMA TotalEmpty == Total({}) = 0
<1>1. Adds(CHOOSE g : Adds(g, {}), {})
  BY AddsExists, FS_EmptySet
<1> QED
  BY <1>1, AddsApply, TotalIs

\* The fact about sums the statistics need.
LEMMA TotalAdd ==
    ASSUME NEW S, IsFiniteSet(S), Timed(S), NEW x, x \notin S, x.dur \in Nat
    PROVE  Total(S \cup {x}) = Total(S) + x.dur
<1> DEFINE R == S \cup {x}
           g == CHOOSE f : Adds(f, S)
           h == CHOOSE f : Adds(f, R)
<1>1. IsFiniteSet(R) /\ Timed(R) /\ R \ {x} = S
  BY FS_AddElement DEF Timed
<1>2. Adds(g, S) /\ Adds(h, R)
  BY <1>1, AddsExists
<1>3. Total(S) = g[S] /\ Total(R) = h[R]
  BY TotalIs
<1> HIDE DEF R, g, h
<1>4. S \subseteq R /\ x \in R
  BY DEF R
<1>5. g[S] = h[S]
  BY <1>2, <1>4, AddsAgree
<1>6. h[R] = x.dur + h[S]
  BY <1>1, <1>2, <1>4, AddsAny
<1>7. h[S] \in Nat
  BY <1>1, <1>2, <1>4, AddsType
<1>8. Total(R) = Total(S) + x.dur
  BY <1>3, <1>5, <1>6, <1>7
<1> QED
  BY <1>8 DEF R

-----------------------------------------------------------------------------
(* The statistics *)

\* Crediting one more completion keeps the sums.
LEMMA CreditCounts ==
    ASSUME TypeOK, IsFiniteSet(receipts), StatisticsExact, NEW e \in Events, e \notin receipts,
           receipts' = receipts \cup {e}, statistics' = Promise!Credit(e, statistics)
    PROVE  StatisticsExact'
<1> SUFFICES ASSUME NEW t \in Promise!TimerIds PROVE statistics'[t] = Total(CountedOn(t)')
  BY DEF StatisticsExact
<1>1. statistics[t] = Total(CountedOn(t)) /\ statistics[t] \in Nat
  BY DEF StatisticsExact, TypeOK
<1>2. e.dur \in Nat /\ Promise!StatisticOf(e) \in Promise!TimerIds
  BY EventFacts
<1>3. IsFiniteSet(CountedOn(t)) /\ Timed(CountedOn(t)) /\ e \notin CountedOn(t)
  <2>1. CountedOn(t) \in SUBSET receipts
    BY DEF CountedOn
  <2>2. Timed(CountedOn(t))
    BY <2>1, EventFacts DEF Timed, TypeOK
  <2> QED
    BY <2>1, <2>2, FS_Subset
<1>4. CASE Promise!Recorded(e) /\ Promise!StatisticOf(e) = t
  <2>1. CountedOn(t)' = CountedOn(t) \cup {e}
    BY <1>4 DEF CountedOn
  <2>2. Total(CountedOn(t) \cup {e}) = Total(CountedOn(t)) + e.dur
    BY <1>2, <1>3, TotalAdd
  <2>3. statistics'[t] = statistics[t] + e.dur
    BY <1>4 DEF Promise!Credit, TypeOK
  <2> QED
    BY <1>1, <2>1, <2>2, <2>3
<1>5. CASE ~(Promise!Recorded(e) /\ Promise!StatisticOf(e) = t)
  <2>1. CountedOn(t)' = CountedOn(t)
    BY <1>5 DEF CountedOn
  <2>2. statistics'[t] = statistics[t]
    BY <1>5 DEF Promise!Credit, TypeOK
  <2> QED
    BY <1>1, <2>1, <2>2
<1> QED
  BY <1>4, <1>5

\* Whatever is delivered twice, taken over or rolled back, every completion with a
\* receipt is in the sum of its statistic once.
THEOREM StatisticsAddUp == Spec => []StatisticsExact
<1> DEFINE Inv == IsFiniteSet(receipts) /\ StatisticsExact
<1>1. Init => Inv
  <2> SUFFICES ASSUME Init PROVE Inv
    OBVIOUS
  <2>1. receipts = {} /\ \A t \in Promise!TimerIds : statistics[t] = 0
    BY DEF Init
  <2>2. \A t : CountedOn(t) = {}
    BY <2>1 DEF CountedOn
  <2> QED
    BY <2>1, <2>2, TotalEmpty, FS_EmptySet DEF StatisticsExact
<1>2. TypeOK /\ Inv /\ [Next]_vars => Inv'
  <2> SUFFICES ASSUME TypeOK, Inv, [Next]_vars PROVE Inv'
    OBVIOUS
  <2>1. ASSUME NEW c \in Consumers, NEW e \in Events, Persist(c, e) PROVE Inv'
    <3>1. receipts' = receipts \cup {e} /\ IsFiniteSet(receipts')
      BY <2>1, FS_AddElement DEF Persist
    <3>2. CASE ExactReceipt(e)
      <4>1. UNCHANGED <<receipts, statistics>>
        BY <2>1, <3>1, <3>2 DEF Persist, ExactReceipt, DuplicateEffects
      <4> QED
        BY <3>1, <4>1 DEF StatisticsExact, CountedOn
    <3>3. CASE ~ExactReceipt(e)
      <4>1. e \notin receipts /\ statistics' = Promise!Credit(e, statistics)
        BY <2>1, <3>3 DEF Persist, ExactReceipt, NewEffects
      <4> QED
        BY <3>1, <4>1, CreditCounts
    <3> QED
      BY <3>2, <3>3
  <2>2. ASSUME UNCHANGED <<receipts, statistics>> PROVE Inv'
    BY <2>2 DEF StatisticsExact, CountedOn
  <2>3. ASSUME NEW e \in Events, Publish(e) \/ Age(e) PROVE UNCHANGED <<receipts, statistics>>
    BY <2>3 DEF Publish, Age, database
  <2>4. ASSUME NEW c \in Consumers, NEW e \in Events,
               ReadNew(c, e) \/ Reject(c, e) \/ Acknowledge(c, e) \/ CallFails(c, e)
        PROVE  UNCHANGED <<receipts, statistics>>
    BY <2>4 DEF ReadNew, Reject, Acknowledge, CallFails, database
  <2>5. ASSUME NEW c \in Consumers, Recover(c) \/ Crash(c)
        PROVE  UNCHANGED <<receipts, statistics>>
    BY <2>5 DEF Recover, Crash, database
  <2>6. CASE UNCHANGED vars
    BY <2>2, <2>6 DEF vars, database
  <2> QED
    BY <2>1, <2>2, <2>3, <2>4, <2>5, <2>6 DEF Next, EntryStep
<1>3. Inv => StatisticsExact
  OBVIOUS
<1> QED
  BY <1>1, <1>2, <1>3, DeliveryTypes, PTL DEF Spec

-----------------------------------------------------------------------------
(* Delivery implements exactly-once effects *)

\* What a consumer holds was published.
NothingUnpublished ==
    /\ stream \subseteq published /\ unread \subseteq published
    /\ idle \subseteq published
    /\ \A c \in Consumers : fetched[c] \subseteq published

LEMMA HandsPublished == Spec => []NothingUnpublished
<1>1. Init => NothingUnpublished
  BY DEF Init, NothingUnpublished
<1>2. TypeOK /\ NothingUnpublished /\ DeliveryInv /\ [Next]_vars => NothingUnpublished'
  BY DEF TypeOK, NothingUnpublished, DeliveryInv, IdleIsPending, Next, Publish, Age,
         ReadNew, Recover, EntryStep, Persist, Reject, CallFails, Acknowledge, Crash,
         vars, group, hands, database, StreamAfterAck, Reachable
<1> QED
  BY <1>1, <1>2, DeliveryTypes, DeliveryInvariant, PTL DEF Spec

\* A transaction that commits either finds its exact receipt and changes
\* nothing the promise sees, or applies a completion that has none.
LEMMA PersistApplies ==
    ASSUME TypeOK, NEW c \in Consumers, NEW e \in Events, NothingUnpublished,
           Persist(c, e)
    PROVE  Promise!Apply(e) \/ UNCHANGED Promise!vars
<1>1. CASE ExactReceipt(e)
  BY <1>1 DEF Persist, ExactReceipt, DuplicateEffects, Promise!vars
<1>2. CASE ~ExactReceipt(e)
  <2>1. NoReceipt(e) /\ StatisticFits(e) /\ NewEffects(e)
    BY <1>2 DEF Persist, Accepted
  <2>2. e \in published
    BY DEF Persist, Turn, NothingUnpublished
  <2> QED
    BY <2>1, <2>2 DEF Persist, NoReceipt, StatisticFits, NewEffects, Promise!Apply
<1> QED
  BY <1>1, <1>2

\* The implementation theorem: published, receipts, statistics and uses behave
\* as the abstract module allows.
THEOREM DeliveryImplementsPromise == Spec => ImplementsPromise
<1>1. Init => Promise!Init
  BY DEF Init, Promise!Init
<1>2. TypeOK /\ NothingUnpublished /\ [Next]_vars => [Promise!Next]_(Promise!vars)
  <2> SUFFICES ASSUME TypeOK, NothingUnpublished, [Next]_vars
               PROVE  Promise!Next \/ UNCHANGED Promise!vars
    OBVIOUS
  <2>1. ASSUME NEW e \in Events, Publish(e) PROVE Promise!Next
    BY <2>1 DEF Publish, Promise!Next, Promise!Publish, database
  <2>2. ASSUME NEW c \in Consumers, NEW e \in Events, Persist(c, e)
        PROVE  Promise!Next \/ UNCHANGED Promise!vars
    BY <2>2, PersistApplies DEF Promise!Next
  <2>3. ASSUME NEW e \in Events, Age(e) PROVE UNCHANGED Promise!vars
    BY <2>3 DEF Age, Promise!vars, database
  <2>4. ASSUME NEW c \in Consumers, NEW e \in Events,
               ReadNew(c, e) \/ Reject(c, e) \/ Acknowledge(c, e) \/ CallFails(c, e)
        PROVE  UNCHANGED Promise!vars
    BY <2>4 DEF ReadNew, Reject, Acknowledge, CallFails, Promise!vars, database
  <2>5. ASSUME NEW c \in Consumers, Recover(c) \/ Crash(c)
        PROVE  UNCHANGED Promise!vars
    BY <2>5 DEF Recover, Crash, Promise!vars, database
  <2>6. CASE UNCHANGED vars
    BY <2>6 DEF vars, database, Promise!vars
  <2> QED
    BY <2>1, <2>2, <2>3, <2>4, <2>5, <2>6 DEF Next, EntryStep
<1> QED
  BY <1>1, <1>2, DeliveryTypes, HandsPublished, PTL
  DEF Spec, ImplementsPromise, Promise!Spec
=============================================================================
