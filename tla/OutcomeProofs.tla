--------------------------- MODULE OutcomeProofs ---------------------------
(***************************************************************************)
(* What the operators of Outcome do for every sequence of events: they     *)
(* keep types, and the interfaces kept event by event are those found in   *)
(* the whole sequence.                                                     *)
(***************************************************************************)
EXTENDS Outcome, SequenceTheorems, WellFoundedInduction, TLAPS

Less == {p \in Nat \X Nat : p[1] < p[2]}

\* A nonempty set of numbers has a least element ...
LEMMA MinOfPositions ==
  ASSUME NEW S \in SUBSET Nat, S # {}
  PROVE  Min(S) \in S /\ \A k \in S : Min(S) <= k
<1>1. OpToRel(<, Nat) = Less
  BY Zenon DEF OpToRel, Less
<1>2. IsWellFoundedOn(Less, Nat)
  BY Zenon, <1>1, NatLessThanWellFounded
<1>3. PICK m \in S : \A k \in S : <<k, m>> \notin Less
  BY Zenon, <1>2, WFMin
<1>4. \A k, j \in Nat : k < j => <<k, j>> \in Less
  BY DEF Less
<1>5. ASSUME NEW k \in S PROVE m <= k
  <2>1. ~(k < m)
    BY <1>3, <1>4
  <2> QED
    BY <2>1
<1> QED
  BY <1>5 DEF Min

\* ... and, if it is bounded, a greatest one.
LEMMA MaxOfPositions ==
  ASSUME NEW n \in Nat, NEW S \in SUBSET (0..n), S # {}
  PROVE  Max(S) \in S /\ \A k \in S : k <= Max(S)
<1> DEFINE T == {n - k : k \in S}
<1>1. T # {} /\ \A t \in T : t \in Nat
  OBVIOUS
<1>2. Min(T) \in T /\ \A t \in T : Min(T) <= t
  BY <1>1, MinOfPositions
<1>3. PICK j \in S : Min(T) = n - j
  BY <1>2
<1>4. ASSUME NEW k \in S PROVE k <= j
  <2>1. n - j <= n - k
    BY <1>2, <1>3
  <2> QED
    BY <2>1
<1> QED
  BY <1>4 DEF Max

\* The result's fields keep their types whatever the event.
LEMMA OutcomeAfterType ==
  ASSUME NEW backend, NEW o \in Outcomes, NEW ev
  PROVE  OutcomeAfter(backend, o, ev) \in Outcomes
  BY DEF OutcomeAfter, Outcomes

LEMMA IfaceAfterType ==
  ASSUME NEW i \in Iface \cup {None}, NEW ev \in EventFields
  PROVE  InIfaceAfter(i, ev) \in Iface \cup {None} /\ OutIfaceAfter(i, ev) \in Iface \cup {None}
  BY DEF InIfaceAfter, OutIfaceAfter, EventFields

LEMMA FinishType ==
  ASSUME NEW i \in Iface \cup {None}, NEW evs \in Seq(EventFields)
  PROVE  FinishIn(i, evs) \in Iface \cup {None} /\ FinishOut(i, evs) \in Iface \cup {None}
<1> DEFINE In  == {k \in 1..Len(evs) : evs[k].in # None}
           Out == {k \in 1..Len(evs) : evs[k].out # None}
<1>1. Len(evs) \in Nat /\ \A k \in 1..Len(evs) : evs[k] \in EventFields
  OBVIOUS
<1>2. \A k \in 1..Len(evs) : evs[k].in \in Iface \cup {None} /\ evs[k].out \in Iface \cup {None}
  BY <1>1 DEF EventFields
<1>3. In # {} => Min(In) \in 1..Len(evs)
  <2>1. In \subseteq 1..Len(evs)
    BY Zenon
  <2>2. 1..Len(evs) \subseteq Nat
    BY <1>1
  <2> QED
    BY <2>1, <2>2, MinOfPositions
<1>4. Out # {} => Max(Out) \in 1..Len(evs)
  <2>1. Out \subseteq 1..Len(evs)
    BY Zenon
  <2>2. 1..Len(evs) \subseteq 0..Len(evs)
    BY <1>1
  <2> QED
    BY <1>1, <2>1, <2>2, MaxOfPositions
<1>5. FinishIn(i, evs) \in Iface \cup {None}
  BY <1>2, <1>3 DEF FinishIn
<1>6. FinishOut(i, evs) \in Iface \cup {None}
  BY <1>2, <1>4 DEF FinishOut
<1> QED
  BY <1>5, <1>6

LEMMA OutcomeAtEndType ==
  ASSUME NEW o \in Outcomes, NEW evs
  PROVE  OutcomeAtEnd(o, evs) \in Outcomes
  BY DEF OutcomeAtEnd, Outcomes

----------------------------------------------------------------------------
(* The interfaces.                                                         *)

\* A later position is no new least one.
LEMMA LeastStays ==
  ASSUME NEW n \in Nat, NEW S \in SUBSET (1..n), S # {},
         NEW T \in {S, S \cup {n + 1}}
  PROVE  Min(T) = Min(S)
<1>1. S \in SUBSET Nat /\ T \in SUBSET Nat /\ T # {}
  OBVIOUS
<1>2. PICK m : m = Min(S) /\ m \in S /\ \A k \in S : m <= k
  BY <1>1, MinOfPositions
<1>3. PICK m2 : m2 = Min(T) /\ m2 \in T /\ \A k \in T : m2 <= k
  BY <1>1, MinOfPositions
<1>4. m \in 1..n /\ m \in T /\ m2 <= m /\ m2 \in Nat
  BY <1>1, <1>2, <1>3
<1>5. m2 \in S
  BY <1>3, <1>4
<1>6. m <= m2
  BY <1>2, <1>5
<1> QED
  BY <1>2, <1>3, <1>4, <1>6

\* A later position is the new greatest one.
LEMMA GreatestMoves ==
  ASSUME NEW n \in Nat, NEW T \in SUBSET (0..(n + 1)), n + 1 \in T
  PROVE  Max(T) = n + 1
<1>1. n + 1 \in Nat /\ T # {}
  OBVIOUS
<1>2. Max(T) \in T /\ \A k \in T : k <= Max(T)
  BY <1>1, MaxOfPositions
<1>3. Max(T) \in 0..(n + 1) /\ n + 1 <= Max(T)
  BY <1>2
<1> QED
  BY <1>3

\* The first interface a packet came in on stays the first with one event more.
LEMMA FirstStays ==
  ASSUME NEW evs \in Seq(EventFields), NEW l \in EventFields
  PROVE  InIfaceAfter(FinishIn(None, evs), l) = FinishIn(None, Append(evs, l))
<1> DEFINE n    == Len(evs)
           more == Append(evs, l)
           In   == {k \in 1..n : evs[k].in # None}
           In2  == {k \in 1..Len(more) : more[k].in # None}
<1>1. /\ n \in Nat /\ Len(more) = n + 1 /\ more[n + 1] = l
      /\ \A k \in 1..n : more[k] = evs[k]
  OBVIOUS
<1>2. In2 = In \cup {k \in {n + 1} : l.in # None}
  BY <1>1
<1>3. In \subseteq Nat /\ In2 \subseteq Nat
  BY <1>1
<1>4. CASE In = {}
  <2>1. FinishIn(None, evs) = None
    BY <1>4 DEF FinishIn
  <2>2. CASE l.in = None
    <3>1. In2 = {}
      BY <1>2, <1>4, <2>2
    <3> QED
      BY <2>1, <2>2, <3>1 DEF FinishIn, InIfaceAfter
  <2>3. CASE l.in # None
    <3>1. In2 = {n + 1}
      BY <1>2, <1>4, <2>3
    <3>2. Min(In2) = n + 1
      BY <1>3, <3>1, MinOfPositions
    <3>3. FinishIn(None, more) = l.in
      BY <1>1, <3>1, <3>2 DEF FinishIn
    <3> QED
      BY <2>1, <3>3 DEF InIfaceAfter
  <2> QED
    BY <2>2, <2>3
<1>5. CASE In # {}
  <2>1. Min(In) \in In /\ \A k \in In : Min(In) <= k
    BY <1>3, <1>5, MinOfPositions
  <2>2. In2 # {} /\ Min(In2) \in In2 /\ \A k \in In2 : Min(In2) <= k
    BY <1>2, <1>3, <1>5, MinOfPositions
  <2>3. Min(In2) = Min(In)
    <3>1. In \in SUBSET (1..n) /\ In2 \in {In, In \cup {n + 1}}
      BY <1>2
    <3> HIDE DEF In, In2, n
    <3> QED
      BY <1>1, <1>5, <3>1, LeastStays
  <2>4. FinishIn(None, evs) = evs[Min(In)].in /\ evs[Min(In)].in # None
    BY <1>5, <2>1 DEF FinishIn
  <2>5. FinishIn(None, more) = more[Min(In2)].in
    BY <2>2 DEF FinishIn
  <2>6. more[Min(In2)] = evs[Min(In)]
    BY <1>1, <2>1, <2>3
  <2> QED
    BY <2>4, <2>5, <2>6 DEF InIfaceAfter
<1> QED
  BY <1>4, <1>5

\* The last interface a packet left by is that of the new event, if it has one.
LEMMA LastMoves ==
  ASSUME NEW evs \in Seq(EventFields), NEW l \in EventFields
  PROVE  OutIfaceAfter(FinishOut(None, evs), l) = FinishOut(None, Append(evs, l))
<1> DEFINE n    == Len(evs)
           more == Append(evs, l)
           Out  == {k \in 1..n : evs[k].out # None}
           Out2 == {k \in 1..Len(more) : more[k].out # None}
<1>1. /\ n \in Nat /\ Len(more) = n + 1 /\ more[n + 1] = l
      /\ \A k \in 1..n : more[k] = evs[k]
  OBVIOUS
<1>2. Out2 = Out \cup {k \in {n + 1} : l.out # None}
  BY <1>1
<1>3. Out \subseteq 0..n /\ Out2 \subseteq 0..(n + 1)
  BY <1>1
<1>4. CASE l.out # None
  <2>1. n + 1 \in Out2 /\ Out2 # {}
    BY <1>2, <1>4
  <2>2. Max(Out2) = n + 1
    <3>1. Out2 \in SUBSET (0..(n + 1))
      BY <1>3
    <3> HIDE DEF Out, Out2, n
    <3> QED
      BY <1>1, <2>1, <3>1, GreatestMoves
  <2>4. FinishOut(None, more) = more[Max(Out2)].out
    BY <2>1 DEF FinishOut
  <2>5. more[Max(Out2)].out = l.out
    BY <1>1, <2>2
  <2> QED
    BY <1>4, <2>4, <2>5 DEF OutIfaceAfter
<1>5. CASE l.out = None
  <2>1. Out2 = Out
    BY <1>2, <1>5
  <2>2. CASE Out = {}
    BY <1>5, <2>1, <2>2 DEF FinishOut, OutIfaceAfter
  <2>3. CASE Out # {}
    <3>1. Max(Out) \in 1..n
      BY <1>1, <1>3, <2>3, MaxOfPositions
    <3>2. more[Max(Out2)] = evs[Max(Out)]
      BY <1>1, <2>1, <3>1
    <3>3. FinishOut(None, evs) = evs[Max(Out)].out /\ FinishOut(None, more) = more[Max(Out2)].out
      BY <2>1, <2>3 DEF FinishOut
    <3> QED
      BY <1>5, <3>2, <3>3 DEF OutIfaceAfter
  <2> QED
    BY <2>2, <2>3
<1> QED
  BY <1>4, <1>5

\* Looking an interface up that was looked up changes nothing.
LEMMA FinishAgain ==
  ASSUME NEW evs
  PROVE  /\ FinishIn(FinishIn(None, evs), evs) = FinishIn(None, evs)
         /\ FinishOut(FinishOut(None, evs), evs) = FinishOut(None, evs)
  BY DEF FinishIn, FinishOut
=============================================================================
