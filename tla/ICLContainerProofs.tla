------------------------- MODULE ICLContainerProofs -------------------------
(***************************************************************************)
(* What is proved about ICLContainers, for every value of its constants:   *)
(* the container stays well formed, its operations and its queries are     *)
(* those of sets and of maps of single elements, join leaves no two        *)
(* neighbours that could be one, and walking it element by element visits  *)
(* each element once, in order.                                            *)
(*                                                                         *)
(* ICLSetProofs and ICLMapProofs have what each operation does to each     *)
(* element and to the value of each key; here are the invariant that all   *)
(* steps keep, and what follows for the container.                         *)
(***************************************************************************)
EXTENDS ICLMapProofs

-----------------------------------------------------------------------------
(***************************************************************************)
(* The elements of a set, and the operands of a caller.                    *)
(***************************************************************************)

\* The elements of a set of intervals.
LEMMA ElementsOfIs ==
  ASSUME NEW S \in SUBSET Interval
  PROVE  /\ ElementsOf(S) \in SUBSET Int
         /\ \A k \in Int : k \in ElementsOf(S) <=> Has(S, k)
BY Member DEF ElementsOf, Has, In

\* Two sets that have the same elements.
LEMMA SameElements ==
  ASSUME NEW S \in SUBSET Interval, NEW X \in SUBSET Int,
         \A k \in Int : Has(S, k) <=> k \in X
  PROVE  ElementsOf(S) = X
BY ElementsOfIs

\* The least and the greatest element: where the first interval begins and the
\* last one ends.
LEMMA LimitsAre ==
  ASSUME NEW S, Laid(S), S # {}, NEW X \in SUBSET Int, \A k \in Int : k \in X <=> Has(S, k)
  PROVE  /\ Min(X) = first(begin(S)) /\ Max(X) = last(rbegin(S)) /\ X # {}
         /\ first(begin(S)) \in Int /\ last(rbegin(S)) \in Int
<1> DEFINE b == begin(S)
           r == rbegin(S)
<1>1. /\ b \in S /\ r \in S
      /\ \A s \in S : s = b \/ last(b) < first(s)
      /\ \A s \in S : s = r \/ last(s) < first(r)
  BY FirstAndLast
<1> HIDE DEF b, r
<1>2. \A s \in S : first(s) \in Int /\ last(s) \in Int /\ first(s) <= last(s)
  BY LaidEnds
<1>3. first(b) \in Int /\ last(r) \in Int
  BY <1>1, <1>2
<1>4. first(b) \in X /\ \A k \in X : first(b) <= k
  BY <1>1, <1>2 DEF Has, In
<1>5. last(r) \in X /\ \A k \in X : last(r) >= k
  BY <1>1, <1>2 DEF Has, In
<1>6. Min(X) = first(b)
  <2> DEFINE f == first(b)
             m == Min(X)
  <2>1. m \in X /\ \A y \in X : m <= y
    BY <1>4 DEF Min
  <2>2. f \in Int /\ m \in Int /\ f <= m /\ m <= f
    BY <1>3, <1>4, <2>1
  <2> HIDE DEF f, m
  <2>3. m = f
    BY <2>2
  <2> QED BY <2>3 DEF f, m
<1>7. Max(X) = last(r)
  <2> DEFINE f == last(r)
             m == Max(X)
  <2>1. m \in X /\ \A y \in X : m >= y
    BY <1>5 DEF Max
  <2>2. f \in Int /\ m \in Int /\ f >= m /\ m >= f
    BY <1>3, <1>5, <2>1
  <2> HIDE DEF f, m
  <2>3. m = f
    BY <2>2
  <2> QED BY <2>3 DEF f, m
<1> QED BY <1>3, <1>4, <1>6, <1>7 DEF b, r

\* The intervals that a caller passes.
LEMMA GivenAre == \A i \in Given : i \in Interval
<1>1. \A l, u \in 0 .. Top : construct(Dynamic, l, u, RightOpen) \in Interval
  BY ContainersAssumption, DynamicIsAll, Constructed, BoundsAre
<1>2. construct(Dynamic, 1, 1, RightOpen) \in Interval
  BY DynamicIsAll, Constructed, BoundsAre
<1> QED BY <1>1, <1>2 DEF Given, Intervals

\* A set of one interval, or of two of which one lies before the other.
LEMMA PairLaid ==
  ASSUME NEW i, NEW j, Proper(i), Proper(j), i = j \/ last(i) < first(j)
  PROVE  Laid({i, j})
<1>1. IsFiniteSet({i, j})
  <2>1. IsFiniteSet({i}) /\ IsFiniteSet({j})
    BY FS_Singleton
  <2>2. {i, j} = {i} \cup {j}
    OBVIOUS
  <2> QED BY <2>1, <2>2, FS_Union
<1> QED BY <1>1 DEF Laid

\* The pairs of intervals from which the operands are made.
LEMMA PairsAre ==
  ASSUME NEW p \in Pairs(ShortIntervals)
  PROVE  /\ Proper(p[1]) /\ Proper(p[2])
         /\ p[1] = p[2] \/ last(p[1]) < first(p[2])
         /\ Laid({p[1], p[2]})
<1>1. /\ p[1] \in ShortIntervals /\ p[2] \in ShortIntervals
      /\ p[1] = p[2] \/ exclusive_less(p[1], p[2])
  BY DEF Pairs
<1>2. Proper(p[1]) /\ Proper(p[2])
  BY <1>1, GivenAre, ProperIs DEF ShortIntervals
<1>3. p[1] = p[2] \/ last(p[1]) < first(p[2])
  BY <1>1, <1>2, LessIs
<1> QED BY <1>2, <1>3, PairLaid

\* The sets that a caller passes.
LEMMA SetOperandsAre == \A T \in SetOperands : Laid(T)
<1> SUFFICES ASSUME NEW T \in SetOperands, T # {}
             PROVE  Laid(T)
  BY NoneIsFit
<1>1. PICK p \in Pairs(ShortIntervals) : T = {p[1], p[2]}
  BY DEF SetOperands
<1> QED BY <1>1, PairsAre

-----------------------------------------------------------------------------
(***************************************************************************)
(* The inductive invariant.                                                *)
(***************************************************************************)

\* The type does not change, and a set is one that it allows.
SetInv ==
  /\ type \in SetTypes \cup MapTypes
  /\ type.set => Fit(type.style, object)

\* The style of a set.
LEMMA SetStyle ==
  ASSUME type \in SetTypes \cup MapTypes, type.set
  PROVE  type.style \in Styles
BY DEF SetTypes, MapTypes

\* A container is empty at first.
LEMMA SetInit == Init => SetInv
<1> SUFFICES ASSUME Init
             PROVE  SetInv
  OBVIOUS
<1> QED BY NoneIsFit DEF Init, SetInv

\* Every step of a set keeps it in the form of its type.
LEMMA SetStepFits ==
  ASSUME SetInv, SetStep
  PROVE  SetInv'
<1>1. /\ type.set /\ Fit(type.style, object) /\ type.style \in Styles /\ Laid(object)
  BY SetStyle, FitIs DEF SetInv, SetStep
<1>2. ASSUME NEW M, Become(M), Fit(type.style, M)
      PROVE  SetInv'
  BY <1>2 DEF Become, SetInv
<1>3. ASSUME NEW i \in Given, AddKeys(i) \/ SubtractKeys(i) \/ FlipKeys(i)
      PROVE  SetInv'
  <2>1. i \in Interval
    BY GivenAre
  <2>2. CASE AddKeys(i)
    BY <1>1, <1>2, <2>1, <2>2, AddIs DEF AddKeys
  <2>3. CASE SubtractKeys(i)
    BY <1>1, <1>2, <2>1, <2>3, SubtractFits DEF SubtractKeys
  <2>4. CASE FlipKeys(i)
    <3>1. Proper(i)
      BY <2>1, <2>4, ProperIs DEF FlipKeys
    <3> QED BY <1>1, <1>2, <2>4, <3>1, FlipIs DEF FlipKeys
  <2> QED BY <1>3, <2>2, <2>3, <2>4
<1>4. ASSUME NEW T \in SetOperands,
             \/ Become(AddSet(type.style, object, T))
             \/ Become(EraseSet(object, T))
             \/ Become(SectionWithSet(type.style, object, T))
             \/ Become(FlipSet(type.style, object, T))
      PROVE  SetInv'
  <2>1. Laid(T)
    BY SetOperandsAre
  <2>2. /\ Fit(type.style, AddSet(type.style, object, T))
        /\ Fit(type.style, EraseSet(object, T))
        /\ Fit(type.style, SectionWithSet(type.style, object, T))
        /\ Fit(type.style, FlipSet(type.style, object, T))
    BY <1>1, <2>1, AddSetIs, EraseSetIs, SectionSetIs, FlipSetIs
  <2> QED BY <1>2, <1>4, <2>2
<1>5. CASE Become(BetweenSet(type.style, object))
  BY <1>1, <1>2, <1>5, BetweenIs
<1>6. CASE Become(JoinSet(object))
  BY <1>1, <1>2, <1>6, JoinSetIs DEF Fit
<1> QED BY <1>3, <1>4, <1>5, <1>6 DEF SetStep

\* Every step keeps the invariant.
LEMMA SetNext == SetInv /\ [Next]_vars => SetInv'
<1> SUFFICES ASSUME SetInv, [Next]_vars
             PROVE  SetInv'
  OBVIOUS
<1>1. CASE MapStep
  <2>1. ~ type.set /\ UNCHANGED type
    BY <1>1 DEF MapStep, WithSegment, WithContainer, Add, Subtract, Insert, Erase, Set, Flip,
                EraseAt, Absorb, Join, Become
  <2> QED BY <2>1 DEF SetInv
<1>2. CASE SetStep
  BY <1>2, SetStepFits
<1>3. CASE UNCHANGED vars
  BY <1>3 DEF vars, SetInv
<1> QED BY <1>1, <1>2, <1>3 DEF Next

\* The invariant holds of every state.
LEMMA SetInvariant == Spec => []SetInv
BY SetInit, SetNext, PTL DEF Spec

-----------------------------------------------------------------------------
(***************************************************************************)
(* The operations of sets.                                                 *)
(***************************************************************************)

\* The elements of the set and those of the operand, as the operations combine
\* them.
LEMMA OperationsOfSets ==
  ASSUME SetInv
  PROVE  SetOpsExact
<1> SUFFICES ASSUME type.set
             PROVE  SetOpsExact
  BY DEF SetOpsExact
<1> DEFINE style == type.style
           X == ElementsOf(object)
           Flipped(Y) == (X \ Y) \cup (Y \ X)
<1>1. /\ Fit(style, object) /\ style \in Styles /\ Laid(object)
  BY SetStyle, FitIs DEF SetInv
<1>2. ASSUME NEW S, Fit(style, S)
      PROVE  /\ ElementsOf(S) \in SUBSET Int
             /\ \A k \in Int : k \in ElementsOf(S) <=> Has(S, k)
  <2>1. S \in SUBSET Interval
    BY <1>2, LaidEnds DEF Fit
  <2> QED BY <2>1, ElementsOfIs
<1>3. X \in SUBSET Int /\ \A k \in Int : k \in X <=> Has(object, k)
  BY <1>1, <1>2
<1> HIDE DEF X
<1>4. ASSUME NEW i \in Given
      PROVE  LET Y == Elements(i)
             IN /\ ElementsOf(AddInterval(style, object, i)) = X \cup Y
                /\ ElementsOf(SubtractInterval(object, i)) = X \ Y
                /\ ~ is_empty(i) => ElementsOf(FlipInterval(style, object, i)) = Flipped(Y)
  <2> DEFINE Y == Elements(i)
  <2>1. i \in Interval
    BY GivenAre
  <2>2. Y \in SUBSET Int /\ \A k \in Int : k \in Y <=> In(k, i)
    BY <2>1, Member DEF In
  <2> HIDE DEF Y
  <2>3. /\ Fit(style, AddInterval(style, object, i))
        /\ \A k \in Int : Has(AddInterval(style, object, i), k) <=> Has(object, k) \/ In(k, i)
    BY <1>1, <2>1, AddIs
  <2>4. ElementsOf(AddInterval(style, object, i)) = X \cup Y
    BY <1>2, <1>3, <2>2, <2>3
  <2>5. /\ Fit(style, SubtractInterval(object, i))
        /\ \A k \in Int : Has(SubtractInterval(object, i), k) <=> Has(object, k) /\ ~ In(k, i)
    BY <1>1, <2>1, SubtractFits
  <2>6. ElementsOf(SubtractInterval(object, i)) = X \ Y
    BY <1>2, <1>3, <2>2, <2>5
  <2>7. ASSUME ~ is_empty(i)
        PROVE  ElementsOf(FlipInterval(style, object, i)) = Flipped(Y)
    <3>1. Proper(i)
      BY <2>1, <2>7, ProperIs
    <3>2. /\ Fit(style, FlipInterval(style, object, i))
          /\ \A k \in Int : Has(FlipInterval(style, object, i), k) <=>
                              IF In(k, i) THEN ~ Has(object, k) ELSE Has(object, k)
      BY <1>1, <3>1, FlipIs
    <3> QED BY <1>2, <1>3, <2>2, <3>2
  <2> QED BY <2>4, <2>6, <2>7 DEF Y
<1>5. ASSUME NEW T \in SetOperands
      PROVE  LET Y == ElementsOf(T)
             IN /\ ElementsOf(AddSet(style, object, T)) = X \cup Y
                /\ ElementsOf(EraseSet(object, T)) = X \ Y
                /\ ElementsOf(SectionWithSet(style, object, T)) = X \cap Y
                /\ IntersectsSet(style, object, T) <=> X \cap Y # {}
                /\ ElementsOf(FlipSet(style, object, T)) = Flipped(Y)
  <2> DEFINE Y == ElementsOf(T)
  <2>1. Laid(T)
    BY SetOperandsAre
  <2>2. Y \in SUBSET Int /\ \A k \in Int : k \in Y <=> Has(T, k)
    <3>1. T \in SUBSET Interval
      BY <2>1, LaidEnds
    <3> QED BY <3>1, ElementsOfIs
  <2> HIDE DEF Y
  <2>3. ElementsOf(AddSet(style, object, T)) = X \cup Y
    <3>1. /\ Fit(style, AddSet(style, object, T))
          /\ \A k \in Int : Has(AddSet(style, object, T), k) <=> Has(object, k) \/ Has(T, k)
      BY <1>1, <2>1, AddSetIs
    <3> QED BY <1>2, <1>3, <2>2, <3>1
  <2>4. ElementsOf(EraseSet(object, T)) = X \ Y
    <3>1. /\ Fit(style, EraseSet(object, T))
          /\ \A k \in Int : Has(EraseSet(object, T), k) <=> Has(object, k) /\ ~ Has(T, k)
      BY <1>1, <2>1, EraseSetIs
    <3> QED BY <1>2, <1>3, <2>2, <3>1
  <2>5. ElementsOf(SectionWithSet(style, object, T)) = X \cap Y
    <3>1. /\ Fit(style, SectionWithSet(style, object, T))
          /\ \A k \in Int : Has(SectionWithSet(style, object, T), k) <=>
                              Has(object, k) /\ Has(T, k)
      BY <1>1, <2>1, SectionSetIs
    <3> QED BY <1>2, <1>3, <2>2, <3>1
  <2>6. IntersectsSet(style, object, T) <=> X \cap Y # {}
    <3>1. IntersectsSet(style, object, T) <=> \E k \in Int : Has(object, k) /\ Has(T, k)
      BY <1>1, <2>1, IntersectsSetIs
    <3> QED BY <1>3, <2>2, <3>1
  <2>7. ElementsOf(FlipSet(style, object, T)) = Flipped(Y)
    <3>1. /\ Fit(style, FlipSet(style, object, T))
          /\ \A k \in Int : Has(FlipSet(style, object, T), k) <=>
                              IF Has(T, k) THEN ~ Has(object, k) ELSE Has(object, k)
      BY <1>1, <2>1, FlipSetIs
    <3> QED BY <1>2, <1>3, <2>2, <3>1
  <2> QED BY <2>3, <2>4, <2>5, <2>6, <2>7 DEF Y
<1>6. ASSUME X # {}
      PROVE  ElementsOf(BetweenSet(style, object)) = (Min(X) .. Max(X)) \ X
  <2> DEFINE b == begin(object)
             r == rbegin(object)
             B == BetweenSet(style, object)
  <2>1. object # {}
    BY <1>3, <1>6 DEF Has
  <2>3. /\ Fit(style, B)
        /\ \A e \in Int : Has(B, e) <=> first(b) <= e /\ e <= last(r) /\ ~ Has(object, e)
    BY <1>1, <2>1, BetweenIs
  <2> HIDE DEF b, r, B
  <2>4. Min(X) = first(b) /\ Max(X) = last(r) /\ first(b) \in Int /\ last(r) \in Int
    BY <1>1, <1>3, <2>1, LimitsAre DEF b, r
  <2>9. ElementsOf(B) \in SUBSET Int /\ \A k \in Int : k \in ElementsOf(B) <=> Has(B, k)
    BY <1>2, <2>3
  <2> QED BY <1>3, <2>3, <2>4, <2>9 DEF B
<1> QED BY <1>4, <1>5, <1>6 DEF SetOpsExact, X

\* SetOpsExact: whatever a program does with an interval_set, a
\* separate_interval_set or a split_interval_set, each operation has the elements
\* that the same operation of std::set would have, however the set is cut.
THEOREM SetsExact == Spec => []SetOpsExact
BY SetInvariant, OperationsOfSets, PTL

-----------------------------------------------------------------------------
(***************************************************************************)
(* The operands of the operations with a map.                              *)
(***************************************************************************)

\* The elements of an interval that a caller passes are ticks.
LEMMA GivenTicks == \A i \in Given, k \in Int : In(k, i) => k \in Ticks
<1>1. \A l, u \in 0 .. Top : /\ first(construct(Dynamic, l, u, RightOpen)) = l
                             /\ last(construct(Dynamic, l, u, RightOpen)) = u - 1
  <2> SUFFICES ASSUME NEW l \in 0 .. Top, NEW u \in 0 .. Top
               PROVE  /\ first(construct(Dynamic, l, u, RightOpen)) = l
                      /\ last(construct(Dynamic, l, u, RightOpen)) = u - 1
    OBVIOUS
  <2> DEFINE i == construct(Dynamic, l, u, RightOpen)
  <2>1. l \in Int /\ u \in Int
    BY ContainersAssumption
  <2>2. i \in Interval /\ i.lo = l /\ i.up = u /\ i.b = RightOpen
    BY <2>1, DynamicIsAll, Constructed, BoundsAre
  <2> HIDE DEF i
  <2>3. first(i) = l /\ last(i) = u - 1
    BY <2>2, Ends DEF LeftOpen, RightOpen, Closed
  <2> QED BY <2>3 DEF i
<1>2. \A k \in Int : ~ In(k, construct(Dynamic, 1, 1, RightOpen))
  <2> DEFINE i == construct(Dynamic, 1, 1, RightOpen)
  <2>1. i \in Interval /\ i.lo = 1 /\ i.up = 1 /\ i.b = RightOpen
    BY DynamicIsAll, Constructed, BoundsAre
  <2> HIDE DEF i
  <2>2. first(i) = 1 /\ last(i) = 0
    BY <2>1, Ends DEF LeftOpen, RightOpen, Closed
  <2>3. \A k \in Int : ~ In(k, i)
    BY <2>2 DEF In
  <2> QED BY <2>3 DEF i
<1> SUFFICES ASSUME NEW i \in Given, NEW k \in Int, In(k, i)
             PROVE  k \in Ticks
  OBVIOUS
<1>3. i \in Intervals
  BY <1>2 DEF Given
<1>4. PICK l \in 0 .. Top, u \in 0 .. Top : i = construct(Dynamic, l, u, RightOpen)
  BY <1>3 DEF Intervals
<1>5. l <= k /\ k <= u - 1
  BY <1>1, <1>4 DEF In
<1> QED BY <1>5, ContainersAssumption DEF Ticks

\* The segments that a caller passes.
LEMMA SegmentsAre == \A s \in Segments : s \in SegmentType /\ s.itv \in Given
BY GivenAre DEF Segments, SegmentType

\* The keys of a map are ticks, or those of a set.
OfTicks(M) == \A e \in Int : ValueAt(M, e) # NoValue => e \in Ticks
HasTicks(K) == \A e \in Int : Has(K, e) => e \in Ticks

\* The maps that a caller passes.
LEMMA MapOperandsAre == \A T \in MapOperands : Mapped(T) /\ OfTicks(T)
<1> SUFFICES ASSUME NEW T \in MapOperands
             PROVE  Mapped(T) /\ OfTicks(T)
  OBVIOUS
<1>1. CASE T = {}
  BY <1>1, NoSegmentsFit DEF OfTicks
<1>2. CASE T # {}
  <2>1. PICK o \in Pairs(ShortIntervals) \X (SUBSET Values) \X (SUBSET Values) :
          /\ T = {seg(o[1][1], o[2]), seg(o[1][2], o[3])}
          /\ seg(o[1][1], o[2]).itv = seg(o[1][2], o[3]).itv =>
               seg(o[1][1], o[2]) = seg(o[1][2], o[3])
    BY <1>2 DEF MapOperands
  <2> DEFINE p == o[1]
             s == seg(p[1], o[2])
             t == seg(p[2], o[3])
  <2>2. p \in Pairs(ShortIntervals) /\ o[2] \in SUBSET Values /\ o[3] \in SUBSET Values
    OBVIOUS
  <2>3. T = {s, t} /\ (s.itv = t.itv => s = t)
    BY <2>1
  <2> HIDE DEF p
  <2>4. /\ Proper(p[1]) /\ Proper(p[2]) /\ (p[1] = p[2] \/ last(p[1]) < first(p[2]))
        /\ p[1] \in Given /\ p[2] \in Given
    BY <2>2, PairsAre DEF Pairs, ShortIntervals
  <2>5. /\ Whole(s) /\ s.itv = p[1] /\ Lo(s) = first(p[1]) /\ Hi(s) = last(p[1])
        /\ Whole(t) /\ t.itv = p[2] /\ Lo(t) = first(p[2]) /\ Hi(t) = last(p[2])
    BY <2>2, <2>4, SegIs
  <2> HIDE DEF s, t
  <2>6. s = t \/ Hi(s) < Lo(t)
    BY <2>3, <2>4, <2>5
  <2>7. Mapped(T)
    <3>1. IsFiniteSet(T)
      BY <2>3, FewAreFinite
    <3> QED BY <2>3, <2>5, <2>6, <3>1 DEF Mapped, ClearOf
  <2>8. ASSUME NEW e \in Int, ValueAt(T, e) # NoValue
        PROVE  e \in Ticks
    <3>1. PICK r \in T : Lo(r) <= e /\ e <= Hi(r)
      BY <2>7, <2>8, ValueIs
    <3>2. In(e, p[1]) \/ In(e, p[2])
      BY <2>3, <2>5, <3>1 DEF In
    <3> QED BY <2>4, <3>2, GivenTicks
  <2> QED BY <2>7, <2>8 DEF OfTicks
<1> QED BY <1>1, <1>2

\* The sets of keys that a caller passes.
LEMMA KeySetsAre == \A K \in KeySets : Laid(K) /\ HasTicks(K)
<1> SUFFICES ASSUME NEW K \in KeySets
             PROVE  Laid(K) /\ HasTicks(K)
  OBVIOUS
<1>1. CASE K = {}
  BY <1>1, NoneIsFit DEF HasTicks
<1>2. CASE K # {}
  <2>1. PICK p \in Pairs(ShortIntervals) : K = {p[1], p[2]}
    BY <1>2 DEF KeySets
  <2>2. p[1] \in Given /\ p[2] \in Given
    BY DEF Pairs, ShortIntervals
  <2>3. HasTicks(K)
    BY <2>1, <2>2, GivenTicks DEF HasTicks, Has
  <2> QED BY <2>1, <2>3, PairsAre
<1> QED BY <1>1, <1>2

-----------------------------------------------------------------------------
(***************************************************************************)
(* The invariant of maps.                                                  *)
(***************************************************************************)

\* A map fits its type: that is what every step needs, and keeps.
MapInv == ~ type.set => MapFit(type, object)

\* The inductive invariant of a container of any type.
ContainerInv == SetInv /\ MapInv

\* Every step with a segment keeps a map in the form of its type.
LEMMA WithSegmentFits ==
  ASSUME ~ type.set, MapFit(type, object), WithSegment
  PROVE  MapInv'
<1>1. ASSUME NEW M, Become(M), MapFit(type, M)
      PROVE  MapInv'
  BY <1>1 DEF Become, MapInv
<1>2. ASSUME NEW s \in Segments,
             Add(s) \/ Subtract(s) \/ Insert(s) \/ Erase(s) \/ Set(s) \/ Flip(s)
      PROVE  MapInv'
  <2>1. s \in SegmentType
    BY SegmentsAre
  <2>2. CASE Add(s)
    <3>1. MapFit(type, AddSegment(type, object, s))
      BY <2>1, AddSegmentIs DEF OpAt
    <3> QED BY <1>1, <2>2, <3>1 DEF Add
  <2>3. CASE Subtract(s)
    <3>1. MapFit(type, SubtractSegment(type, object, s))
      BY <2>1, SubtractSegmentIs DEF OpAt
    <3> QED BY <1>1, <2>3, <3>1 DEF Subtract
  <2>4. CASE Insert(s)
    <3>1. MapFit(type, InsertSegment(type, object, s))
      BY <2>1, InsertSegmentIs DEF OpAt
    <3> QED BY <1>1, <2>4, <3>1 DEF Insert
  <2>5. CASE Erase(s)
    <3>1. MapFit(type, EraseSegment(type, object, s))
      BY <2>1, EraseSegmentIs DEF OpAt
    <3> QED BY <1>1, <2>5, <3>1 DEF Erase
  <2>6. CASE Set(s)
    <3>1. MapFit(type, SetAt(type, object, s))
      BY <2>1, SetAtIs
    <3> QED BY <1>1, <2>6, <3>1 DEF Set
  <2>7. CASE Flip(s)
    <3>1. MapFit(type, FlipSegment(type, object, s))
      BY <2>1, <2>7, FlipSegmentIs DEF Flip, OpAt
    <3> QED BY <1>1, <2>7, <3>1 DEF Flip
  <2> QED BY <1>2, <2>2, <2>3, <2>4, <2>5, <2>6, <2>7
<1>3. ASSUME NEW i \in Given, EraseAt(i)
      PROVE  MapInv'
  <2>1. MapFit(type, EraseInterval(object, i))
    BY GivenAre, EraseIntervalIs DEF ErasedAt
  <2> QED BY <1>1, <1>3, <2>1 DEF EraseAt
<1> QED BY <1>2, <1>3 DEF WithSegment

\* What the operations with a map or a set of keys return fits the type.
LEMMA OperationsFit ==
  ASSUME MapFit(type, object)
  PROVE  /\ \A T \in MapOperands :
              /\ MapFit(type, AddMap(type, object, T))
              /\ MapFit(type, SubtractMap(type, object, T))
              /\ MapFit(type, InsertMap(type, object, T))
              /\ MapFit(type, EraseMap(type, object, T))
              /\ MapFit(type, SectionWithMap(type, object, T))
              /\ MapFit(type, FlipMap(type, object, T))
         /\ \A K \in KeySets :
              /\ MapFit(type, EraseKeys(object, K))
              /\ MapFit(type, SectionWithSet2(type, object, K))
<1>1. ASSUME NEW T \in MapOperands
      PROVE  /\ MapFit(type, AddMap(type, object, T))
             /\ MapFit(type, SubtractMap(type, object, T))
             /\ MapFit(type, InsertMap(type, object, T))
             /\ MapFit(type, EraseMap(type, object, T))
             /\ MapFit(type, SectionWithMap(type, object, T))
             /\ MapFit(type, FlipMap(type, object, T))
  <2>1. Mapped(T)
    BY MapOperandsAre
  <2>2. /\ OpWith("add", type, object, T, AddMap(type, object, T))
        /\ OpWith("subtract", type, object, T, SubtractMap(type, object, T))
        /\ OpWith("insert", type, object, T, InsertMap(type, object, T))
    BY <2>1, MapOpsAre
  <2>3. OpWith("erase", type, object, T, EraseMap(type, object, T))
    BY <2>1, EraseMapIs
  <2>4. OpWith("flip", type, object, T, FlipMap(type, object, T))
    BY <2>1, FlipMapIs
  <2>5. MapFit(type, SectionWithMap(type, object, T))
    BY <2>1, SectionMapIs
  <2> QED BY <2>2, <2>3, <2>4, <2>5 DEF OpWith
<1>2. ASSUME NEW K \in KeySets
      PROVE  /\ MapFit(type, EraseKeys(object, K))
             /\ MapFit(type, SectionWithSet2(type, object, K))
  <2>1. Laid(K)
    BY KeySetsAre
  <2> QED BY <2>1, EraseKeysIs, SectionSet2Is
<1> QED BY <1>1, <1>2

\* Every step of a map keeps it in the form of its type.
LEMMA MapStepFits ==
  ASSUME ~ type.set, MapFit(type, object), MapStep
  PROVE  MapInv'
<1>1. ASSUME NEW M, Become(M), MapFit(type, M)
      PROVE  MapInv'
  BY <1>1 DEF Become, MapInv
<1>2. CASE WithSegment
  BY <1>2, WithSegmentFits
<1>3. CASE WithContainer
  BY <1>1, <1>3, OperationsFit DEF WithContainer
<1>4. CASE Absorb
  <2>1. MapFit(type, AbsorbIdentities(type, object))
    BY AbsorbedIs
  <2> QED BY <1>1, <1>4, <2>1 DEF Absorb
<1>5. CASE Join
  <2>1. MapFit(type, JoinMap(object))
    BY JoinMapFits
  <2> QED BY <1>1, <1>5, <2>1 DEF Join
<1> QED BY <1>2, <1>3, <1>4, <1>5 DEF MapStep

\* A container is empty at first.
LEMMA ContainerInit == Init => ContainerInv
BY SetInit, NoSegmentsFit DEF Init, ContainerInv, MapInv

\* Every step keeps the invariant.
LEMMA ContainerNext == ContainerInv /\ [Next]_vars => ContainerInv'
<1> SUFFICES ASSUME ContainerInv, [Next]_vars
             PROVE  ContainerInv'
  OBVIOUS
<1>1. SetInv'
  BY SetNext DEF ContainerInv
<1>2. MapInv'
  <2>1. CASE MapStep
    BY <2>1, MapStepFits DEF MapStep, ContainerInv, MapInv
  <2>2. CASE SetStep
    <3>1. type.set /\ UNCHANGED type
      BY <2>2 DEF SetStep, AddKeys, SubtractKeys, FlipKeys, Become
    <3> QED BY <3>1 DEF MapInv
  <2>3. CASE UNCHANGED vars
    BY <2>3 DEF vars, MapInv, ContainerInv
  <2> QED BY <2>1, <2>2, <2>3 DEF Next
<1> QED BY <1>1, <1>2 DEF ContainerInv

\* The invariant holds of every state.
LEMMA ContainerInvariant == Spec => []ContainerInv
BY ContainerInit, ContainerNext, PTL DEF Spec

-----------------------------------------------------------------------------
(***************************************************************************)
(* The form and the content of a container.                                *)
(***************************************************************************)

\* Of two intervals of a set, one lies before the other.
LEMMA LaidAre ==
  ASSUME NEW S, Laid(S)
  PROVE  /\ \A i \in S : i \in Interval /\ ~ is_empty(i)
         /\ \A i, j \in S : Apart(i, j)
<1>1. \A i \in S : Proper(i) /\ i \in Interval /\ ~ is_empty(i)
  BY LaidEnds, ProperIs
<1>2. \A i, j \in S : i = j \/ last(i) < first(j) \/ last(j) < first(i)
  BY DEF Laid
<1> QED BY <1>1, <1>2, LessIs DEF Apart

\* A set that fits its type is well formed.
LEMMA SetWellFormed ==
  ASSUME type.set, NEW S, Fit(type.style, S)
  PROVE  WellFormed(S)
<1>1. Laid(S) /\ (type.style = "joining" => Joined(S))
  BY FitIs
<1>2. (\A i \in S : i \in Interval /\ ~ is_empty(i)) /\ \A i, j \in S : Apart(i, j)
  BY <1>1, LaidAre
<1> QED BY <1>1, <1>2 DEF WellFormed, Joined, touches

\* No two segments of a map without a seam could be one.
LEMMA NothingToJoin ==
  ASSUME NEW M, Mapped(M), \A e \in Int : ~ Seam(M, e)
  PROVE  \A s, t \in M : ~ joinable(s, t)
<1> SUFFICES ASSUME NEW s \in M, NEW t \in M, joinable(s, t)
             PROVE  FALSE
  OBVIOUS
<1>1. Lo(t) \in Int /\ Hi(s) + 1 = Lo(t) /\ s.val = t.val
  BY MapEnds, JoinableIs
<1>2. Seam(M, Lo(t))
  BY <1>1 DEF Seam
<1> QED BY <1>1, <1>2

\* A map that fits its type is well formed.
LEMMA MapWellFormed ==
  ASSUME ~ type.set, NEW M, MapFit(type, M)
  PROVE  WellFormed(M)
<1>1. /\ Mapped(M) /\ (type.joins => \A e \in Int : ~ Seam(M, e))
      /\ type.absorbs => \A s \in M : s.val # {}
  BY DEF MapFit
<1>2. Laid(KeysOf(M)) /\ Cardinality(KeysOf(M)) = Cardinality(M)
  BY <1>1, KeysOfIs
<1>3. /\ \A i \in KeysOf(M) : i \in Interval /\ ~ is_empty(i)
      /\ \A i, j \in KeysOf(M) : Apart(i, j)
  BY <1>2, LaidAre
<1>4. \A s \in M : s.val \subseteq Values /\ ~ is_absorbable(type, s.val)
  BY <1>1, MapEnds DEF is_absorbable
<1>5. type.joins => \A s, t \in M : ~ joinable(s, t)
  BY <1>1, NothingToJoin
<1> QED BY <1>2, <1>3, <1>4, <1>5 DEF WellFormed

\* The content of a map has the value of each key.
LEMMA ContentIs ==
  ASSUME NEW M, Mapped(M)
  PROVE  Content(M) = [k \in Ticks |-> ValueAt(M, k)]
<1>1. ASSUME NEW k \in Ticks
      PROVE  (IF \E s \in M : k \in Elements(s.itv)
              THEN (CHOOSE s \in M : k \in Elements(s.itv)).val ELSE NoValue) = ValueAt(M, k)
  <2>1. k \in Int
    BY ContainersAssumption DEF Ticks
  <2>2. \A s \in M : k \in Elements(s.itv) <=> Lo(s) <= k /\ k <= Hi(s)
    BY <2>1, MapEnds, ElementsAreIn DEF In, Lo, Hi
  <2>3. CASE \E s \in M : k \in Elements(s.itv)
    <3> DEFINE c == CHOOSE s \in M : k \in Elements(s.itv)
    <3>1. c \in M /\ k \in Elements(c.itv)
      BY <2>3
    <3> HIDE DEF c
    <3>2. ValueAt(M, k) = c.val
      BY <2>1, <2>2, <3>1, ValueIn
    <3> QED BY <2>3, <3>2 DEF c
  <2>4. CASE ~ \E s \in M : k \in Elements(s.itv)
    <3>1. ValueAt(M, k) = NoValue
      BY <2>2, <2>4, ValueOut
    <3> QED BY <2>4, <3>1
  <2> QED BY <2>3, <2>4
<1> QED BY <1>1, Zenon DEF Content

\* TypeOK: a container of any of the seven types stays well formed: its intervals
\* are not empty and do not overlap, what joins holds no two neighbours that could
\* be one, and an absorber holds no empty value.
THEOREM ContainersTyped == Spec => []TypeOK
<1>1. ASSUME ContainerInv
      PROVE  TypeOK
  <2>1. CASE type.set
    BY <1>1, <2>1, SetWellFormed DEF TypeOK, ContainerInv, SetInv
  <2>2. CASE ~ type.set
    BY <1>1, <2>2, MapWellFormed DEF TypeOK, ContainerInv, SetInv, MapInv
  <2> QED BY <2>1, <2>2
<1> QED BY <1>1, ContainerInvariant, PTL

-----------------------------------------------------------------------------
(***************************************************************************)
(* The operations of maps.                                                 *)
(***************************************************************************)

\* Two maps have the same content if their ticks have the same values.
LEMMA SameContent ==
  ASSUME NEW H, Mapped(H), NEW f, DOMAIN f = Ticks, f = [k \in Ticks |-> f[k]],
         \A k \in Int : k \in Ticks => ValueAt(H, k) = f[k]
  PROVE  Content(H) = f
<1>1. \A k \in Ticks : k \in Int
  BY ContainersAssumption DEF Ticks
<1>2. [k \in Ticks |-> ValueAt(H, k)] = [k \in Ticks |-> f[k]]
  BY <1>1
<1> QED BY <1>2, ContentIs

\* An operation with a segment, on the contents.
LEMMA ContentAtKeys ==
  ASSUME NEW op, NEW M, Mapped(M), NEW i \in Interval, NEW v, NEW H, OpAt(op, type, M, i, v, H)
  PROVE  Content(H) = AtKeys(op, type, Content(M), Elements(i), v)
<1> DEFINE g == [k \in Ticks |-> ValueAt(M, k)]
           f == AtKeys(op, type, g, Elements(i), v)
<1>1. /\ Mapped(H)
      /\ \A k \in Int : ValueAt(H, k) = IF In(k, i) THEN cell(op, type, ValueAt(M, k), v)
                                                    ELSE ValueAt(M, k)
  BY DEF OpAt, MapFit
<1>2. f = [k \in Ticks |-> IF k \in Elements(i) THEN cell(op, type, ValueAt(M, k), v)
                                                ELSE ValueAt(M, k)]
  BY DEF AtKeys
<1>3. \A k \in Int : k \in Elements(i) <=> In(k, i)
  BY ElementsAreIn
<1> HIDE DEF f
<1>4. DOMAIN f = Ticks /\ f = [k \in Ticks |-> f[k]]
  BY <1>2
<1>5. \A k \in Int : k \in Ticks => ValueAt(H, k) = f[k]
  BY <1>1, <1>2, <1>3
<1>6. Content(H) = f
  BY <1>1, <1>4, <1>5, SameContent
<1> QED BY <1>6, ContentIs DEF f

\* Keys without a value, on the contents.
LEMMA ContentWithout ==
  ASSUME NEW M, Mapped(M), NEW K, NEW H, Mapped(H),
         \A k \in Int : ValueAt(H, k) = IF k \in K THEN NoValue ELSE ValueAt(M, k)
  PROVE  Content(H) = WithoutKeys(Content(M), K)
<1> DEFINE g == [k \in Ticks |-> ValueAt(M, k)]
           f == WithoutKeys(g, K)
<1>1. f = [k \in Ticks |-> IF k \in K THEN NoValue ELSE ValueAt(M, k)]
  BY DEF WithoutKeys
<1> HIDE DEF f
<1>2. DOMAIN f = Ticks /\ f = [k \in Ticks |-> f[k]]
  BY <1>1
<1>3. \A k \in Int : k \in Ticks => ValueAt(H, k) = f[k]
  BY <1>1
<1>4. Content(H) = f
  BY <1>2, <1>3, SameContent
<1> QED BY <1>4, ContentIs DEF f

\* The cells of a map after an operation with a segment are those of icl::map.
LEMMA SegmentOperations ==
  ASSUME ContainerInv
  PROVE  SegmentOpsExact
<1> SUFFICES ASSUME ~ type.set, NEW s \in Segments
             PROVE  LET f == Content(object)
                        Would(op) == AtKeys(op, type, f, Elements(s.itv), s.val)
                    IN /\ Content(AddSegment(type, object, s)) = Would("add")
                       /\ Content(SubtractSegment(type, object, s)) = Would("subtract")
                       /\ Content(InsertSegment(type, object, s)) = Would("insert")
                       /\ Content(EraseSegment(type, object, s)) = Would("erase")
                       /\ Content(EraseInterval(object, s.itv)) = WithoutKeys(f, Elements(s.itv))
                       /\ ~ is_absorbable(type, s.val) =>
                            Content(SetAt(type, object, s)) = Would("set")
                       /\ ~ is_empty(s.itv) =>
                            Content(FlipSegment(type, object, s)) = Would("flip")
  BY DEF SegmentOpsExact
<1>1. MapFit(type, object) /\ Mapped(object)
  BY DEF ContainerInv, MapInv, MapFit
<1>2. s \in SegmentType /\ s.itv \in Interval
  BY SegmentsAre, GivenAre
<1>3. ASSUME NEW op, NEW H, OpAt(op, type, object, s.itv, s.val, H)
      PROVE  Content(H) = AtKeys(op, type, Content(object), Elements(s.itv), s.val)
  BY <1>1, <1>2, <1>3, ContentAtKeys
<1>4. Content(AddSegment(type, object, s)) =
        AtKeys("add", type, Content(object), Elements(s.itv), s.val)
  BY <1>1, <1>2, <1>3, AddSegmentIs
<1>5. Content(SubtractSegment(type, object, s)) =
        AtKeys("subtract", type, Content(object), Elements(s.itv), s.val)
  BY <1>1, <1>2, <1>3, SubtractSegmentIs
<1>6. Content(InsertSegment(type, object, s)) =
        AtKeys("insert", type, Content(object), Elements(s.itv), s.val)
  BY <1>1, <1>2, <1>3, InsertSegmentIs
<1>7. Content(EraseSegment(type, object, s)) =
        AtKeys("erase", type, Content(object), Elements(s.itv), s.val)
  BY <1>1, <1>2, <1>3, EraseSegmentIs
<1>8. Content(EraseInterval(object, s.itv)) = WithoutKeys(Content(object), Elements(s.itv))
  <2> DEFINE H == EraseInterval(object, s.itv)
  <2>1. Mapped(H) /\ \A k \in Int : ValueAt(H, k) = IF In(k, s.itv) THEN NoValue
                                                                    ELSE ValueAt(object, k)
    BY <1>1, <1>2, EraseIntervalIs DEF ErasedAt, MapFit
  <2> HIDE DEF H
  <2>2. \A k \in Int : k \in Elements(s.itv) <=> In(k, s.itv)
    BY <1>2, ElementsAreIn
  <2>3. Content(H) = WithoutKeys(Content(object), Elements(s.itv))
    BY <1>1, <2>1, <2>2, ContentWithout
  <2> QED BY <2>3 DEF H
<1>9. ASSUME ~ is_absorbable(type, s.val)
      PROVE  Content(SetAt(type, object, s)) =
               AtKeys("set", type, Content(object), Elements(s.itv), s.val)
  BY <1>1, <1>2, <1>3, <1>9, SetAtIs
<1>10. ASSUME ~ is_empty(s.itv)
       PROVE  Content(FlipSegment(type, object, s)) =
                AtKeys("flip", type, Content(object), Elements(s.itv), s.val)
  BY <1>1, <1>2, <1>3, <1>10, FlipSegmentIs
<1> QED BY <1>4, <1>5, <1>6, <1>7, <1>8, <1>9, <1>10

\* SegmentOpsExact: whatever a program has done with an interval_map or a
\* split_interval_map, an operation with a segment changes the value of each key of
\* its interval as icl::map would, and of no other, however the map is cut.
THEOREM SegmentOpsAreExact == Spec => []SegmentOpsExact
BY ContainerInvariant, SegmentOperations, PTL

\* An operation with a map gives what it would with each element.
LEMMA GivesWithEach ==
  ASSUME ~ type.set, NEW op, NEW M, Mapped(M), NEW T, Mapped(T),
         NEW H, OpWith(op, type, M, T, H)
  PROVE  Gives(H, WithEach(op, type, Content(M), Content(T)))
<1> DEFINE g == [k \in Ticks |-> ValueAt(M, k)]
           u == [k \in Ticks |-> ValueAt(T, k)]
           f == WithEach(op, type, g, u)
<1>1. /\ MapFit(type, H) /\ Mapped(H)
      /\ \A k \in Int : ValueAt(H, k) = IF ValueAt(T, k) # NoValue
                                        THEN cell(op, type, ValueAt(M, k), ValueAt(T, k))
                                        ELSE ValueAt(M, k)
  BY DEF OpWith, MapFit
<1>2. f = [k \in Ticks |-> IF ValueAt(T, k) = NoValue THEN ValueAt(M, k)
                           ELSE cell(op, type, ValueAt(M, k), ValueAt(T, k))]
  BY DEF WithEach
<1> HIDE DEF f
<1>3. DOMAIN f = Ticks /\ f = [k \in Ticks |-> f[k]]
  BY <1>2
<1>4. \A k \in Int : k \in Ticks => ValueAt(H, k) = f[k]
  BY <1>1, <1>2
<1>5. Content(H) = f
  BY <1>1, <1>3, <1>4, SameContent
<1>6. WellFormed(H)
  BY <1>1, MapWellFormed
<1> QED BY <1>5, <1>6, ContentIs DEF f, Gives

\* The section of two maps, on the contents.
LEMMA GivesSection ==
  ASSUME ~ type.set, NEW M, MapFit(type, M), NEW T, Mapped(T), OfTicks(T)
  PROVE  /\ Gives(SectionWithMap(type, M, T), Section(type, Content(M), Content(T)))
         /\ IntersectsMap(type, M, T) <=> Keys(Section(type, Content(M), Content(T))) # {}
<1> DEFINE g == [k \in Ticks |-> ValueAt(M, k)]
           u == [k \in Ticks |-> ValueAt(T, k)]
           f == Section(type, g, u)
           H == SectionWithMap(type, M, T)
<1>0. Mapped(M)
  BY DEF MapFit
<1>1. /\ MapFit(type, H) /\ Mapped(H)
      /\ \A k \in Int : ValueAt(H, k) =
           IF ValueAt(T, k) = NoValue THEN NoValue
           ELSE cell_section(type, ValueAt(M, k), ValueAt(T, k))
  BY SectionMapIs DEF MapFit
<1>2. f = [k \in Ticks |-> IF ValueAt(T, k) = NoValue THEN NoValue
                           ELSE cell_section(type, ValueAt(M, k), ValueAt(T, k))]
  BY DEF Section
<1>3. f = Section(type, Content(M), Content(T))
  BY <1>0, ContentIs
<1> HIDE DEF f, H
<1>4. DOMAIN f = Ticks /\ f = [k \in Ticks |-> f[k]]
  BY <1>2
<1>5. \A k \in Int : k \in Ticks => ValueAt(H, k) = f[k]
  BY <1>1, <1>2
<1>6. Content(H) = f
  BY <1>1, <1>4, <1>5, SameContent
<1>7. WellFormed(H)
  BY <1>1, MapWellFormed
<1>8. IntersectsMap(type, M, T) <=> Keys(f) # {}
  <2>1. IntersectsMap(type, M, T) <=>
          \E e \in Int : /\ ValueAt(T, e) # NoValue
                         /\ cell_section(type, ValueAt(M, e), ValueAt(T, e)) # NoValue
    BY IntersectsMapIs
  <2>2. \A k \in Ticks : k \in Int
    BY ContainersAssumption DEF Ticks
  <2>3. Keys(f) # {} <=> \E k \in Ticks : f[k] # NoValue
    BY <1>4 DEF Keys
  <2> QED BY <1>2, <2>1, <2>2, <2>3 DEF OfTicks
<1> QED BY <1>3, <1>6, <1>7, <1>8 DEF Gives, H

\* Erasing a set of keys and keeping one, on the contents.
LEMMA GivesKeys ==
  ASSUME ~ type.set, NEW M, MapFit(type, M), NEW K, Laid(K), HasTicks(K)
  PROVE  /\ Gives(EraseKeys(M, K), WithoutKeys(Content(M), ElementsOf(K)))
         /\ Gives(SectionWithSet2(type, M, K), OnKeys(Content(M), ElementsOf(K)))
         /\ IntersectsKeys(type, M, K) <=> Keys(Content(M)) \cap ElementsOf(K) # {}
<1> DEFINE g == [k \in Ticks |-> ValueAt(M, k)]
           E == EraseKeys(M, K)
           H == SectionWithSet2(type, M, K)
           f == OnKeys(g, ElementsOf(K))
<1>0. Mapped(M) /\ Content(M) = g
  BY ContentIs DEF MapFit
<1>1. \A k \in Int : k \in ElementsOf(K) <=> Has(K, k)
  <2>1. K \in SUBSET Interval
    BY LaidEnds
  <2> QED BY <2>1, ElementsOfIs
<1>t. \A k \in Ticks : k \in Int
  BY ContainersAssumption DEF Ticks
<1>2. Gives(E, WithoutKeys(Content(M), ElementsOf(K)))
  <2>1. MapFit(type, E) /\ \A k \in Int : ValueAt(E, k) = IF Has(K, k) THEN NoValue
                                                                       ELSE ValueAt(M, k)
    BY EraseKeysIs
  <2> HIDE DEF E
  <2>2. Mapped(E)
    BY <2>1 DEF MapFit
  <2>3. Content(E) = WithoutKeys(Content(M), ElementsOf(K))
    BY <1>0, <1>1, <2>1, <2>2, ContentWithout
  <2> QED BY <2>1, <2>3, MapWellFormed DEF Gives
<1>3. Gives(H, OnKeys(Content(M), ElementsOf(K)))
  <2>1. MapFit(type, H) /\ \A k \in Int : ValueAt(H, k) = IF Has(K, k) THEN ValueAt(M, k)
                                                                       ELSE NoValue
    BY SectionSet2Is
  <2> HIDE DEF H
  <2>2. Mapped(H)
    BY <2>1 DEF MapFit
  <2>3. f = [k \in Ticks |-> IF k \in ElementsOf(K) THEN ValueAt(M, k) ELSE NoValue]
    BY DEF OnKeys
  <2>4. f = OnKeys(Content(M), ElementsOf(K))
    BY <1>0
  <2> HIDE DEF f
  <2>5. DOMAIN f = Ticks /\ f = [k \in Ticks |-> f[k]]
    BY <2>3
  <2>6. \A k \in Int : k \in Ticks => ValueAt(H, k) = f[k]
    BY <1>1, <2>1, <2>3
  <2>7. Content(H) = f
    BY <2>2, <2>5, <2>6, SameContent
  <2> QED BY <2>1, <2>4, <2>7, MapWellFormed DEF Gives
<1>4. IntersectsKeys(type, M, K) <=> Keys(Content(M)) \cap ElementsOf(K) # {}
  <2>1. IntersectsKeys(type, M, K) <=> \E e \in Int : Has(K, e) /\ ValueAt(M, e) # NoValue
    BY IntersectsKeysIs
  <2>2. \A k : k \in Keys(Content(M)) <=> k \in Ticks /\ ValueAt(M, k) # NoValue
    BY <1>0 DEF Keys
  <2> QED BY <1>1, <1>t, <2>1, <2>2 DEF HasTicks
<1> QED BY <1>2, <1>3, <1>4 DEF E, H

\* The cells of a map after an operation with a container are those of icl::map.
LEMMA OperandOperations ==
  ASSUME ContainerInv
  PROVE  OperandOpsExact
<1> SUFFICES ASSUME ~ type.set
             PROVE  OperandOpsExact
  BY DEF OperandOpsExact
<1> DEFINE f == Content(object)
<1>1. MapFit(type, object) /\ Mapped(object)
  BY DEF ContainerInv, MapInv, MapFit
<1>2. ASSUME NEW T \in MapOperands
      PROVE  LET g == Content(T)
             IN /\ Gives(AddMap(type, object, T), WithEach("add", type, f, g))
                /\ Gives(SubtractMap(type, object, T), WithEach("subtract", type, f, g))
                /\ Gives(InsertMap(type, object, T), WithEach("insert", type, f, g))
                /\ Gives(EraseMap(type, object, T), WithEach("erase", type, f, g))
                /\ Gives(SectionWithMap(type, object, T), Section(type, f, g))
                /\ Gives(FlipMap(type, object, T), WithEach("flip", type, f, g))
                /\ IntersectsMap(type, object, T) <=> Keys(Section(type, f, g)) # {}
  <2>1. Mapped(T) /\ OfTicks(T)
    BY MapOperandsAre
  <2>2. ASSUME NEW op, NEW H, OpWith(op, type, object, T, H)
        PROVE  Gives(H, WithEach(op, type, f, Content(T)))
    BY <1>1, <2>1, <2>2, GivesWithEach
  <2>3. /\ OpWith("add", type, object, T, AddMap(type, object, T))
        /\ OpWith("subtract", type, object, T, SubtractMap(type, object, T))
        /\ OpWith("insert", type, object, T, InsertMap(type, object, T))
    BY <1>1, <2>1, MapOpsAre
  <2>4. OpWith("erase", type, object, T, EraseMap(type, object, T))
    BY <1>1, <2>1, EraseMapIs
  <2>5. OpWith("flip", type, object, T, FlipMap(type, object, T))
    BY <1>1, <2>1, FlipMapIs
  <2>6. /\ Gives(SectionWithMap(type, object, T), Section(type, f, Content(T)))
        /\ IntersectsMap(type, object, T) <=> Keys(Section(type, f, Content(T))) # {}
    BY <1>1, <2>1, GivesSection
  <2> HIDE DEF f
  <2> QED BY <2>2, <2>3, <2>4, <2>5, <2>6
<1>3. ASSUME NEW K \in KeySets
      PROVE  /\ Gives(EraseKeys(object, K), WithoutKeys(f, ElementsOf(K)))
             /\ Gives(SectionWithSet2(type, object, K), OnKeys(f, ElementsOf(K)))
             /\ IntersectsKeys(type, object, K) <=> Keys(f) \cap ElementsOf(K) # {}
  BY <1>1, KeySetsAre, GivesKeys
<1> QED BY <1>2, <1>3 DEF OperandOpsExact

\* OperandOpsExact: an operation with another map or with a set of keys, which
\* visits only what lies in the common range, does what icl::map does element by
\* element, and what it returns is well formed.
THEOREM OperandOpsAreExact == Spec => []OperandOpsExact
BY ContainerInvariant, OperandOperations, PTL

\* join leaves no two neighbours that could be one, and the same elements.
LEMMA JoinsCoalesce ==
  ASSUME ContainerInv
  PROVE  JoinCoalesces
<1>1. ASSUME type.set
      PROVE  LET J == JoinSet(object)
             IN /\ ElementsOf(J) = ElementsOf(object)
                /\ \A i, j \in J : Apart(i, j) /\ ~ touches(i, j)
  <2> DEFINE J == JoinSet(object)
  <2>1. Laid(object)
    BY <1>1, FitIs DEF ContainerInv, SetInv
  <2>2. Laid(J) /\ Joined(J) /\ \A k \in Int : Has(J, k) <=> Has(object, k)
    BY <2>1, JoinSetIs
  <2> HIDE DEF J
  <2>3. J \in SUBSET Interval /\ object \in SUBSET Interval
    BY <2>1, <2>2, LaidEnds
  <2>4. ElementsOf(J) = ElementsOf(object)
    <3>1. ElementsOf(object) \in SUBSET Int /\ \A k \in Int : k \in ElementsOf(object) <=> Has(object, k)
      BY <2>3, ElementsOfIs
    <3> QED BY <2>2, <2>3, <3>1, SameElements
  <2>5. \A i, j \in J : Apart(i, j)
    BY <2>2, LaidAre
  <2>6. \A i, j \in J : ~ touches(i, j)
    BY <2>2 DEF Joined, touches
  <2> QED BY <2>4, <2>5, <2>6 DEF J
<1>2. ASSUME ~ type.set
      PROVE  LET J == JoinMap(object)
             IN /\ Content(J) = Content(object)
                /\ \A s, t \in J : Apart(s.itv, t.itv) /\ ~ joinable(s, t)
  <2> DEFINE J == JoinMap(object)
  <2>1. Mapped(object)
    BY <1>2 DEF ContainerInv, MapInv, MapFit
  <2>2. Mapped(J) /\ SameValues(J, object) /\ \A e \in Int : ~ Seam(J, e)
    BY <2>1, JoinMapIs
  <2> HIDE DEF J
  <2>3. Content(J) = Content(object)
    <3>1. \A k \in Ticks : k \in Int
      BY ContainersAssumption DEF Ticks
    <3>2. [k \in Ticks |-> ValueAt(J, k)] = [k \in Ticks |-> ValueAt(object, k)]
      BY <2>2, <3>1 DEF SameValues
    <3> QED BY <2>1, <2>2, <3>2, ContentIs
  <2>4. Laid(KeysOf(J)) /\ \A s \in J : s.itv \in KeysOf(J)
    BY <2>2, KeysOfIs
  <2>5. \A s, t \in J : Apart(s.itv, t.itv)
    BY <2>4, LaidAre
  <2>6. \A s, t \in J : ~ joinable(s, t)
    BY <2>2, NothingToJoin
  <2> QED BY <2>3, <2>5, <2>6 DEF J
<1> QED BY <1>1, <1>2 DEF JoinCoalesces

\* JoinCoalesces: join leaves no two neighbours that could be one, and no element
\* changes, whatever has been done with the container.
THEOREM JoinsAreExact == Spec => []JoinCoalesces
BY ContainerInvariant, JoinsCoalesce, PTL

-----------------------------------------------------------------------------
(***************************************************************************)
(* Look-up and limits of a set.                                            *)
(***************************************************************************)

\* The intervals that i overlaps, also when i is empty.
LEMMA IntersectsIs ==
  ASSUME NEW S, Laid(S), NEW i \in Interval
  PROVE  Intersects(S, i) <=> \E k \in Int : In(k, i) /\ Has(S, k)
<1>1. CASE Proper(i)
  <2>1. /\ equal_range(S, i) \in SUBSET S
        /\ \A s \in S : s \in equal_range(S, i) <=> first(s) <= last(i) /\ first(i) <= last(s)
    BY <1>1, RangeIs
  <2>2. first(i) \in Int /\ last(i) \in Int /\ first(i) <= last(i)
    BY <1>1, ProperEnds
  <2>3. ASSUME NEW s \in equal_range(S, i)
        PROVE  \E k \in Int : In(k, i) /\ Has(S, k)
    <3>1. /\ s \in S /\ first(s) <= last(i) /\ first(i) <= last(s)
          /\ first(s) \in Int /\ last(s) \in Int /\ first(s) <= last(s)
      BY <2>1, LaidEnds
    <3>2. CASE first(s) <= first(i)
      BY <2>2, <3>1, <3>2 DEF In, Has
    <3>3. CASE first(i) < first(s)
      BY <2>2, <3>1, <3>3 DEF In, Has
    <3> QED BY <2>2, <3>1, <3>2, <3>3
  <2>4. ASSUME NEW k \in Int, In(k, i), Has(S, k)
        PROVE  equal_range(S, i) # {}
    <3>1. PICK s \in S : In(k, s)
      BY <2>4 DEF Has
    <3>2. first(s) <= last(i) /\ first(i) <= last(s)
      <4>1. first(s) \in Int /\ last(s) \in Int
        BY LaidEnds
      <4> QED BY <2>2, <2>4, <3>1, <4>1 DEF In
    <3> QED BY <2>1, <3>2
  <2> QED BY <2>3, <2>4 DEF Intersects
<1>2. CASE ~ Proper(i)
  <2>1. is_empty(i) /\ first(i) \in Int /\ last(i) \in Int
    BY <1>2, ProperIs
  <2>2. equal_range(S, i) = {}
    BY <2>1, Zenon DEF equal_range, exclusive_less
  <2>3. \A k \in Int : ~ In(k, i)
    BY <1>2, <2>1 DEF In, Proper
  <2> QED BY <2>2, <2>3 DEF Intersects
<1> QED BY <1>1, <1>2

\* find: the interval that has the element.
LEMMA FindIs ==
  ASSUME NEW S, Laid(S), NEW k \in Int
  PROVE  find(S, k) = {s \in S : k \in Elements(s)}
<1> DEFINE i == singleton(Dynamic, k)
<1>1. i \in Interval /\ Elements(i) = {k}
  BY SingletonExact, DynamicIsAll
<1> HIDE DEF i
<1>2. first(i) \in Int /\ last(i) \in Int
  BY <1>1, Ends
<1>3. \A e \in Int : first(i) <= e /\ e <= last(i) <=> e = k
  BY <1>1, Member
<1>4. first(i) <= last(i)
  BY <1>2, <1>3
<1>5. first(i) = k /\ last(i) = k
  BY <1>2, <1>3, <1>4
<1>6. Proper(i)
  BY <1>1, <1>4 DEF Proper
<1>7. /\ equal_range(S, i) \in SUBSET S
      /\ \A s \in S : s \in equal_range(S, i) <=> first(s) <= k /\ k <= last(s)
  BY <1>5, <1>6, RangeIs
<1>8. \A s \in S : k \in Elements(s) <=> first(s) <= k /\ k <= last(s)
  BY LaidEnds, Member
<1>9. equal_range(S, i) = {s \in S : k \in Elements(s)}
  BY <1>7, <1>8
<1> QED BY <1>9 DEF find, i

\* Intervals of which the first begins before i and the last ends behind it, and
\* which meet: all of i is there.
LEMMA DenseCovers ==
  ASSUME NEW E, Laid(E), E # {}, NEW i, Proper(i),
         first(begin(E)) <= first(i), last(i) <= last(rbegin(E)), is_joinable(E),
         NEW k \in Int, In(k, i)
  PROVE  Has(E, k)
<1> SUFFICES ASSUME ~ Has(E, k)
             PROVE  FALSE
  OBVIOUS
<1> DEFINE b == begin(E)
           r == rbegin(E)
           D == {d \in Nat : \E s \in E : last(s) + d = k}
<1>1. b \in E /\ r \in E
  BY FirstAndLast
<1>2. \A s \in E : first(s) \in Int /\ last(s) \in Int /\ first(s) <= last(s)
  BY LaidEnds
<1>3. first(i) \in Int /\ last(i) \in Int
  BY ProperEnds
<1>4. \A s \in E : last(s) < k \/ k < first(s)
  BY <1>2 DEF Has, In
<1>5. first(b) <= k /\ k <= last(r)
  BY <1>1, <1>2, <1>3 DEF In
<1>6. \A s \in E : s = r \/ \E t \in E : last(s) + 1 = first(t)
  BY Zenon DEF is_joinable, touches
<1> HIDE DEF b, r
<1>7. last(b) < k
  BY <1>1, <1>2, <1>4, <1>5
<1>8. k - last(b) \in D
  BY <1>1, <1>2, <1>7
<1>9. PICK d \in D : \A c \in D : d <= c
  <2>1. D \in SUBSET Nat /\ D # {}
    BY <1>8
  <2> HIDE DEF D
  <2> QED BY <2>1, LeastOf
<1>10. PICK s \in E : d \in Nat /\ last(s) + d = k
  BY <1>9
<1>11. last(s) < k
  BY <1>2, <1>4, <1>10
<1>12. PICK t \in E : last(s) + 1 = first(t)
  BY <1>1, <1>2, <1>5, <1>6, <1>11
<1>13. last(t) < k /\ last(s) < last(t)
  BY <1>2, <1>4, <1>11, <1>12
<1>14. k - last(t) \in D /\ k - last(t) < d
  BY <1>2, <1>10, <1>13
<1> QED BY <1>9, <1>14

\* All of i is in the set: what i overlaps meets, from before it to behind it.
LEMMA CoversDense ==
  ASSUME NEW S, Laid(S), NEW i, Proper(i), \A k \in Int : In(k, i) => Has(S, k)
  PROVE  LET E == equal_range(S, i)
         IN /\ E # {} /\ is_joinable(E)
            /\ first(begin(E)) <= first(i) /\ last(i) <= last(rbegin(E))
<1> DEFINE E == equal_range(S, i)
           b == begin(E)
           r == rbegin(E)
<1>1. /\ E \in SUBSET S /\ Laid(E)
      /\ \A s \in S : s \in E <=> first(s) <= last(i) /\ first(i) <= last(s)
  BY RangeIs
<1> HIDE DEF E
<1>2. first(i) \in Int /\ last(i) \in Int /\ first(i) <= last(i)
  BY ProperEnds
<1>3. \A s \in S : first(s) \in Int /\ last(s) \in Int /\ first(s) <= last(s)
  BY LaidEnds
<1>4. \A k \in Int : In(k, i) => \E s \in E : In(k, s)
  <2> SUFFICES ASSUME NEW k \in Int, In(k, i)
               PROVE  \E s \in E : In(k, s)
    OBVIOUS
  <2>1. PICK s \in S : In(k, s)
    BY DEF Has
  <2>2. s \in E
    BY <1>1, <1>2, <1>3, <2>1 DEF In
  <2> QED BY <2>1, <2>2
<1>5. PICK f \in E : In(first(i), f)
  BY <1>2, <1>4 DEF In
<1>6. PICK l \in E : In(last(i), l)
  BY <1>2, <1>4 DEF In
<1>7. /\ E # {} /\ b \in E /\ r \in E
      /\ \A s \in E : s = b \/ last(b) < first(s)
      /\ \A s \in E : s = r \/ last(s) < first(r)
  BY <1>1, <1>5, FirstAndLast
<1> HIDE DEF b, r
<1>8. first(b) <= first(i)
  <2>1. first(i) <= last(b) /\ first(f) <= first(i) /\ first(f) \in Int /\ first(b) \in Int /\ last(b) \in Int
    BY <1>1, <1>3, <1>5, <1>7 DEF In
  <2>2. f = b \/ last(b) < first(f)
    BY <1>5, <1>7
  <2> QED BY <1>2, <2>1, <2>2
<1>9. last(i) <= last(r)
  <2>1. first(r) <= last(i) /\ last(i) <= last(l) /\ last(l) \in Int /\ first(r) \in Int /\ last(r) \in Int
    BY <1>1, <1>3, <1>6, <1>7 DEF In
  <2>2. l = r \/ last(l) < first(r)
    BY <1>6, <1>7
  <2> QED BY <1>2, <2>1, <2>2
<1>10. ASSUME NEW s \in E, s # r
       PROVE  \E t \in E : last(s) + 1 = first(t)
  <2>1. last(s) < first(r) /\ first(r) <= last(i) /\ first(i) <= last(s)
    BY <1>1, <1>7, <1>10
  <2>2. last(s) \in Int /\ first(r) \in Int /\ first(s) \in Int /\ first(s) <= last(s)
    BY <1>1, <1>3, <1>7
  <2>3. last(s) + 1 \in Int /\ first(i) <= last(s) + 1 /\ last(s) + 1 <= last(i)
    BY <1>2, <2>1, <2>2
  <2>4. PICK t \in E : In(last(s) + 1, t)
    BY <1>4, <2>3 DEF In
  <2>5. first(t) \in Int /\ last(t) \in Int /\ first(t) <= last(s) + 1 /\ last(s) + 1 <= last(t)
    BY <1>1, <1>3, <2>4 DEF In
  <2>6. t # s
    BY <2>2, <2>5
  <2>7. last(s) < first(t) \/ last(t) < first(s)
    BY <1>1, <2>6, LaidApart
  <2>8. last(s) + 1 = first(t)
    BY <2>2, <2>5, <2>7
  <2> QED BY <2>8
<1>11. is_joinable(E)
  BY <1>10, Zenon DEF is_joinable, touches, r
<1> QED BY <1>7, <1>8, <1>9, <1>11 DEF E, b, r

\* The hull of the first and the last of some intervals.
LEMMA HullSpans ==
  ASSUME NEW E, Laid(E), E # {}
  PROVE  LET h == hull_of(begin(E), rbegin(E))
         IN Proper(h) /\ first(h) = first(begin(E)) /\ last(h) = last(rbegin(E))
<1> DEFINE b == begin(E)
           r == rbegin(E)
           h == hull_of(b, r)
<1>1. /\ b \in E /\ r \in E /\ (b = r \/ last(b) < first(r))
  BY FirstAndLast
<1>2. Proper(b) /\ Proper(r)
  BY <1>1, LaidEnds
<1>3. /\ Proper(h)
      /\ first(h) = IF first(b) < first(r) THEN first(b) ELSE first(r)
      /\ last(h) = IF last(b) < last(r) THEN last(r) ELSE last(b)
  BY <1>2, HullIs
<1>4. /\ first(b) \in Int /\ last(b) \in Int /\ first(b) <= last(b)
      /\ first(r) \in Int /\ last(r) \in Int /\ first(r) <= last(r)
  BY <1>2, ProperEnds
<1> HIDE DEF b, r, h
<1>5. CASE b = r
  BY <1>3, <1>4, <1>5 DEF b, r, h
<1>6. CASE last(b) < first(r)
  BY <1>3, <1>4, <1>6 DEF b, r, h
<1> QED BY <1>1, <1>5, <1>6

\* It contains i if it begins before i and ends behind it.
LEMMA HullContains ==
  ASSUME NEW E, Laid(E), E # {}, NEW i, Proper(i)
  PROVE  contains(hull_of(begin(E), rbegin(E)), i) <=>
           first(begin(E)) <= first(i) /\ last(i) <= last(rbegin(E))
BY HullSpans, ContainsIs

\* A set contains an interval if it has all its elements.
LEMMA ContainsIntervalIs ==
  ASSUME NEW S, Laid(S), NEW i \in Interval
  PROVE  ContainsInterval(S, i) <=> \A k \in Int : In(k, i) => Has(S, k)
<1>1. CASE Proper(i)
  <2> DEFINE E == equal_range(S, i)
  <2>1. E \in SUBSET S /\ Laid(E) /\ ~ is_empty(i)
    BY <1>1, RangeIs, ProperIs
  <2>2. ContainsInterval(S, i) <=>
          E # {} /\ contains(hull_of(begin(E), rbegin(E)), i) /\ is_joinable(E)
    BY <2>1, Zenon DEF ContainsInterval
  <2> HIDE DEF E
  <2>3. ASSUME ContainsInterval(S, i), NEW k \in Int, In(k, i)
        PROVE  Has(S, k)
    <3>1. /\ E # {} /\ is_joinable(E)
          /\ first(begin(E)) <= first(i) /\ last(i) <= last(rbegin(E))
      BY <1>1, <2>1, <2>2, <2>3, HullContains
    <3>2. Has(E, k)
      BY <1>1, <2>1, <2>3, <3>1, DenseCovers
    <3> QED BY <2>1, <3>2 DEF Has
  <2>4. ASSUME \A k \in Int : In(k, i) => Has(S, k)
        PROVE  ContainsInterval(S, i)
    <3>1. /\ E # {} /\ is_joinable(E)
          /\ first(begin(E)) <= first(i) /\ last(i) <= last(rbegin(E))
      BY <1>1, <2>4, CoversDense DEF E
    <3> QED BY <1>1, <2>1, <2>2, <3>1, HullContains
  <2> QED BY <2>3, <2>4
<1>2. CASE ~ Proper(i)
  <2>1. is_empty(i) /\ first(i) \in Int /\ last(i) \in Int
    BY <1>2, ProperIs
  <2>2. \A k \in Int : ~ In(k, i)
    BY <1>2, <2>1 DEF In, Proper
  <2> QED BY <2>1, <2>2 DEF ContainsInterval
<1> QED BY <1>1, <1>2

-----------------------------------------------------------------------------
(***************************************************************************)
(* Sizes.                                                                  *)
(***************************************************************************)

\* The size of an interval is the number of its elements.
LEMMA SizeIs ==
  ASSUME NEW i \in Interval
  PROVE  /\ cardinality(i) = Cardinality(Elements(i)) /\ cardinality(i) \in Nat
         /\ IsFiniteSet(Elements(i))
<1>1. /\ first(i) \in Int /\ last(i) \in Int /\ last_next(i) = last(i) + 1
      /\ is_empty(i) <=> last(i) < first(i)
  BY Ends, EmptyIs DEF last_next, last
<1>2. /\ IsFiniteSet(first(i) .. last(i))
      /\ Cardinality(first(i) .. last(i)) =
           IF first(i) > last(i) THEN 0 ELSE last(i) - first(i) + 1
  BY <1>1, FS_Interval
<1>3. cardinality(i) = IF last(i) < first(i) THEN 0 ELSE (last(i) + 1) - first(i)
  BY <1>1 DEF cardinality
<1> QED BY <1>1, <1>2, <1>3, ElementsAre

\* The number of elements of a set of intervals.
Count(S) == Cardinality(ElementsOf(S))

\* The interval with which a sum goes on.
Chosen(S) == CHOOSE s \in S : TRUE

\* Some intervals of a set have their own elements.
LEMMA CountWithout ==
  ASSUME NEW S, Laid(S), NEW s \in S, IsFiniteSet(ElementsOf(S \ {s}))
  PROVE  /\ IsFiniteSet(ElementsOf(S)) /\ Count(S) = cardinality(s) + Count(S \ {s})
         /\ Count(S) \in Nat /\ Count(S \ {s}) \in Nat
<1> DEFINE A == Elements(s)
           B == ElementsOf(S \ {s})
<1>1. s \in Interval /\ \A t \in S : t \in Interval
  BY LaidEnds
<1>2. /\ IsFiniteSet(A) /\ cardinality(s) = Cardinality(A) /\ cardinality(s) \in Nat
  BY <1>1, SizeIs
<1>3. A \cap B = {}
  <2> SUFFICES ASSUME NEW k, k \in A, NEW t \in S \ {s}, k \in Elements(t)
               PROVE  FALSE
    BY DEF ElementsOf
  <2>1. k \in Int /\ first(s) <= k /\ k <= last(s) /\ first(t) <= k /\ k <= last(t)
    BY <1>1, Member
  <2>2. last(s) < first(t) \/ last(t) < first(s)
    BY LaidApart
  <2>3. first(s) \in Int /\ last(s) \in Int /\ first(t) \in Int /\ last(t) \in Int
    BY LaidEnds
  <2> QED BY <2>1, <2>2, <2>3
<1>4. ElementsOf(S) = A \cup B
  BY DEF ElementsOf
<1> HIDE DEF A, B
<1>5. /\ IsFiniteSet(A \cup B)
      /\ Cardinality(A \cup B) = Cardinality(A) + Cardinality(B) - Cardinality(A \cap B)
  BY <1>2, FS_Union DEF B
<1>6. Cardinality(A \cap B) = 0
  BY <1>3, FS_EmptySet
<1>7. Cardinality(B) \in Nat
  BY FS_CardinalityType DEF B
<1>8. Count(S) = Cardinality(A) + Cardinality(B)
  BY <1>2, <1>4, <1>5, <1>6, <1>7 DEF Count
<1> QED BY <1>2, <1>4, <1>5, <1>7, <1>8 DEF Count, B

\* The elements of a set of intervals are finitely many.
LEMMA FinitelyMany ==
  ASSUME NEW S, Laid(S)
  PROVE  IsFiniteSet(ElementsOf(S)) /\ Count(S) \in Nat
<1>1. \A s \in S : IsFiniteSet(Elements(s))
  BY LaidEnds, SizeIs
<1>2. IsFiniteSet({Elements(s) : s \in S})
  <2>1. IsFiniteSet(S)
    BY DEF Laid
  <2> DEFINE T == {Elements(s) : s \in S}
             f == [s \in S |-> Elements(s)]
  <2>2. f \in Surjection(S, T)
    BY DEF Surjection
  <2> HIDE DEF T, f
  <2>3. IsFiniteSet(T)
    BY <2>1, <2>2, FS_Surjection
  <2> QED BY <2>3 DEF T
<1>3. IsFiniteSet(UNION {Elements(s) : s \in S})
  <2> DEFINE T == {Elements(s) : s \in S}
  <2>1. \A t \in T : IsFiniteSet(t)
    BY <1>1
  <2> HIDE DEF T
  <2>2. IsFiniteSet(UNION T)
    BY <1>2, <2>1, FS_UNION DEF T
  <2> QED BY <2>2 DEF T
<1>4. IsFiniteSet(ElementsOf(S))
  BY <1>3 DEF ElementsOf
<1> QED BY <1>4, FS_CardinalityType DEF Count

\* The recursion of a sum of sizes.
Summed(iter, S) ==
  \A T \in SUBSET S :
    iter[T] = IF T = {} THEN 0 ELSE cardinality(Chosen(T)) + iter[T \ {Chosen(T)}]

\* The numbers of elements obey it.
LEMMA CountsSum ==
  ASSUME NEW S, Laid(S)
  PROVE  Summed([T \in SUBSET S |-> Count(T)], S)
<1> DEFINE f == [T \in SUBSET S |-> Count(T)]
<1>1. ASSUME NEW T \in SUBSET S
      PROVE  f[T] = IF T = {} THEN 0 ELSE cardinality(Chosen(T)) + f[T \ {Chosen(T)}]
  <2>1. f[T] = Count(T) /\ f[T \ {Chosen(T)}] = Count(T \ {Chosen(T)})
    OBVIOUS
  <2> HIDE DEF f
  <2>2. CASE T = {}
    <3>1. ElementsOf(T) = {}
      BY <2>2 DEF ElementsOf
    <3>2. Count(T) = 0
      BY <3>1, FS_EmptySet DEF Count
    <3> QED BY <2>1, <2>2, <3>2
  <2>3. CASE T # {}
    <3>1. Chosen(T) \in T
      BY <2>3 DEF Chosen
    <3>2. Laid(T) /\ Laid(T \ {Chosen(T)})
      BY LaidPart
    <3>3. IsFiniteSet(ElementsOf(T \ {Chosen(T)}))
      BY <3>2, FinitelyMany
    <3>4. Count(T) = cardinality(Chosen(T)) + Count(T \ {Chosen(T)})
      BY <3>1, <3>2, <3>3, CountWithout
    <3> QED BY <2>1, <2>3, <3>4
  <2> QED BY <2>2, <2>3
<1> HIDE DEF f
<1>2. Summed(f, S)
  BY <1>1 DEF Summed
<1> QED BY <1>2 DEF f

\* Only they do.
LEMMA SumsCount ==
  ASSUME NEW S, Laid(S), NEW iter, Summed(iter, S)
  PROVE  iter[S] = Count(S)
<1> DEFINE Wrong == {n \in Nat : \E T \in SUBSET S : Cardinality(T) = n /\ iter[T] # Count(T)}
<1>1. ASSUME NEW n \in Wrong
      PROVE  \E m \in Wrong : m < n
  <2>1. PICK T \in SUBSET S : Cardinality(T) = n /\ iter[T] # Count(T)
    OBVIOUS
  <2>2. Summed([U \in SUBSET S |-> Count(U)], S)
    BY CountsSum
  <2>3. Count(T) = IF T = {} THEN 0 ELSE cardinality(Chosen(T)) + Count(T \ {Chosen(T)})
    BY <2>2 DEF Summed
  <2>4. iter[T] = IF T = {} THEN 0 ELSE cardinality(Chosen(T)) + iter[T \ {Chosen(T)}]
    BY DEF Summed
  <2>5. T # {} /\ iter[T \ {Chosen(T)}] # Count(T \ {Chosen(T)})
    BY <2>1, <2>3, <2>4
  <2>6. Chosen(T) \in T
    BY <2>5 DEF Chosen
  <2>7. IsFiniteSet(T)
    BY LaidPart DEF Laid
  <2>8. Cardinality(T \ {Chosen(T)}) = n - 1 /\ Cardinality(T \ {Chosen(T)}) \in Nat
    BY <2>1, <2>6, <2>7, FS_RemoveElement, FS_CardinalityType
  <2>9. n - 1 \in Wrong /\ n - 1 < n
    BY <2>5, <2>8
  <2> QED BY <2>9
<1>2. Wrong = {}
  <2> SUFFICES ASSUME Wrong # {}
               PROVE  FALSE
    OBVIOUS
  <2>1. Wrong \in SUBSET Nat
    OBVIOUS
  <2> HIDE DEF Wrong
  <2>2. PICK m \in Wrong : \A n \in Wrong : m <= n
    BY <2>1, LeastOf
  <2>3. PICK l \in Wrong : l < m
    BY <1>1
  <2> QED BY <2>1, <2>2, <2>3
<1>3. Cardinality(S) \in Nat
  BY FS_CardinalityType DEF Laid
<1> QED BY <1>2, <1>3

\* The size of a set is the number of its elements.
LEMMA CardinalityOfIs ==
  ASSUME NEW S, Laid(S)
  PROVE  CardinalityOf(S) = Count(S) /\ LengthOf(S) = Count(S)
<1> DEFINE iter == CHOOSE it : it = [T \in SUBSET S |->
                     IF T = {} THEN 0 ELSE cardinality(Chosen(T)) + it[T \ {Chosen(T)}]]
           f == [T \in SUBSET S |-> Count(T)]
<1>1. f = [T \in SUBSET S |->
             IF T = {} THEN 0 ELSE cardinality(Chosen(T)) + f[T \ {Chosen(T)}]]
  <2>1. Summed(f, S)
    BY CountsSum
  <2>2. f = [T \in SUBSET S |-> f[T]]
    OBVIOUS
  <2> HIDE DEF f
  <2> QED BY <2>1, <2>2, Zenon DEF Summed
<1>2. iter = [T \in SUBSET S |->
                IF T = {} THEN 0 ELSE cardinality(Chosen(T)) + iter[T \ {Chosen(T)}]]
  BY <1>1, Zenon
<1>3. CardinalityOf(S) = iter[S]
  BY Zenon DEF CardinalityOf, MapThenSumSet, MapThenFoldSet, Chosen
<1>4. LengthOf(S) = CardinalityOf(S)
  BY Zenon DEF LengthOf, CardinalityOf, MapThenSumSet, MapThenFoldSet, length, cardinality
<1> HIDE DEF iter, f
<1>5. Summed(iter, S)
  BY <1>2, Zenon DEF Summed
<1> QED BY <1>3, <1>4, <1>5, SumsCount

-----------------------------------------------------------------------------
(***************************************************************************)
(* The hull of a set and its gaps.                                         *)
(***************************************************************************)

\* The hull of a set has what lies from its first to its last element.
LEMMA HullElements ==
  ASSUME NEW S, Laid(S), S # {}
  PROVE  Elements(HullOf(S)) = first(begin(S)) .. last(rbegin(S))
BY HullSpans, ProperEnds, ElementsAre DEF HullOf

\* The number of elements between the k-th interval and the next.
GapSize(S, k) == distance(InOrder(S)[k], InOrder(S)[k + 1])

\* What lies in the first n gaps.
GapKeys(S, n) ==
  {e \in Int : \E k \in 1 .. n : last(InOrder(S)[k]) < e /\ e < first(InOrder(S)[k + 1])}

\* An interval of a set ends before the next one begins.
LEMMA NextBegins ==
  ASSUME NEW S, Laid(S), NEW k \in Gaps(S)
  PROVE  /\ k \in 1 .. Len(InOrder(S)) /\ k + 1 \in 1 .. Len(InOrder(S))
         /\ last(InOrder(S)[k]) \in Int /\ first(InOrder(S)[k + 1]) \in Int
         /\ last(InOrder(S)[k]) < first(InOrder(S)[k + 1])
         /\ ~ is_empty(InOrder(S)[k]) /\ ~ is_empty(InOrder(S)[k + 1])
<1> DEFINE q == InOrder(S)
<1>1. Len(q) \in Nat
  BY ListedIs
<1>2. k \in 1 .. Len(q) /\ k + 1 \in 1 .. Len(q) /\ k < k + 1
  BY <1>1 DEF Gaps
<1>3. /\ \A j, l \in 1 .. Len(q) : j < l => last(q[j]) < first(q[l])
      /\ \A j \in 1 .. Len(q) : Proper(q[j]) /\ first(q[j]) \in Int /\ last(q[j]) \in Int
  BY ListedIs
<1> HIDE DEF q
<1>4. Proper(q[k]) /\ Proper(q[k + 1])
  BY <1>2, <1>3
<1>5. ~ is_empty(q[k]) /\ ~ is_empty(q[k + 1])
  BY <1>4, ProperEnds
<1> QED BY <1>2, <1>3, <1>5 DEF q

\* The size of a gap.
LEMMA GapSizeIs ==
  ASSUME NEW S, Laid(S), NEW k \in Gaps(S)
  PROVE  /\ GapSize(S, k) = first(InOrder(S)[k + 1]) - last(InOrder(S)[k]) - 1
         /\ GapSize(S, k) \in Nat
<1> DEFINE x == InOrder(S)[k]
           y == InOrder(S)[k + 1]
<1>1. last(x) \in Int /\ first(y) \in Int /\ last(x) < first(y) /\ ~ is_empty(x) /\ ~ is_empty(y)
  BY NextBegins
<1>2. GapSize(S, k) = distance(x, y)
  BY DEF GapSize
<1> HIDE DEF x, y
<1>3. distance(x, y) = first(y) - last(x) - 1
  BY <1>1 DEF distance
<1> QED BY <1>1, <1>2, <1>3 DEF x, y

\* One pass of distance.
WithGap(S, x, k) == x + GapSize(S, k)

\* The sum of the gaps.
DistanceLoopOf(S) ==
  FoldLeft(LAMBDA x, k : WithGap(S, x, k), 0, [k \in 1 .. (Len(InOrder(S)) - 1) |-> k])

\* The operation is its loop.
LEMMA DistanceIsLoop ==
  ASSUME NEW S
  PROVE  DistanceOf(S) = DistanceLoopOf(S)
BY Zenon DEF DistanceOf, DistanceLoopOf, WithGap, GapSize

\* The states h of the loop of distance.
DistanceRuns(S, q) ==
  \E h \in [0 .. Len(q) -> Nat] :
    /\ h[0] = 0
    /\ h[Len(q)] = DistanceLoopOf(S)
    /\ \A k \in 1 .. Len(q) : h[k] = WithGap(S, h[k - 1], q[k]) /\ q[k] \in Gaps(S)

\* The loop of distance: every pass adds a gap.
LEMMA DistanceLoop ==
  ASSUME NEW S, Laid(S),
         0 \in Nat, NEW q \in Seq(Gaps(S)), q = [k \in 1 .. (Len(InOrder(S)) - 1) |-> k]
  PROVE  DistanceRuns(S, q)
<1> DEFINE D == Nat
           Q == Gaps(S)
           g == [p \in D \X Q |-> WithGap(S, p[1], p[2])]
           iter == CHOOSE it : it = [s \in SUBSET DOMAIN q |->
                     IF s = {} THEN 0 ELSE WithGap(S, it[s \ {Max(s)}], q[Max(s)])]
<1>0. 0 \in D /\ q \in Seq(Q)
  OBVIOUS
<1>1. ASSUME NEW y \in D, NEW t \in Q
      PROVE  WithGap(S, y, t) \in D
  BY <1>1, GapSizeIs DEF WithGap
<1>2. g \in [D \X Q -> D]
  <2>1. \A p \in D \X Q : WithGap(S, p[1], p[2]) \in D
    BY <1>1
  <2> QED BY <2>1, Zenon
<1>3. \A y \in D, t \in Q : g[<<y, t>>] = WithGap(S, y, t)
  <2> HIDE DEF D, Q
  <2> QED OBVIOUS
<1> HIDE DEF g, D, Q
<1>4. PICK it \in [SUBSET DOMAIN q -> D] : Solves(it, D, Q, g, 0, q)
  BY <1>0, <1>2, FoldSolved
<1>5. it = [s \in SUBSET DOMAIN q |->
              IF s = {} THEN 0 ELSE WithGap(S, it[s \ {Max(s)}], q[Max(s)])]
  <2>1. \A s \in SUBSET DOMAIN q :
          it[s] = IF s = {} THEN 0 ELSE WithGap(S, it[s \ {Max(s)}], q[Max(s)])
    <3>1. it[{}] = 0
      BY <1>4 DEF Solves
    <3>2. ASSUME NEW s \in SUBSET DOMAIN q, s # {}
          PROVE  it[s] = WithGap(S, it[s \ {Max(s)}], q[Max(s)])
      <4>1. /\ it[s \ {Max(s)}] \in D /\ q[Max(s)] \in Q
            /\ it[s] = g[<<it[s \ {Max(s)}], q[Max(s)]>>]
        BY <1>4, <3>2 DEF Solves
      <4> QED BY <1>3, <4>1
    <3> QED BY <3>1, <3>2
  <2>2. it = [s \in SUBSET DOMAIN q |-> it[s]]
    OBVIOUS
  <2> QED BY <2>1, <2>2, Zenon
<1>6. iter = [s \in SUBSET DOMAIN q |->
                IF s = {} THEN 0 ELSE WithGap(S, iter[s \ {Max(s)}], q[Max(s)])]
  BY <1>5, Zenon
<1>7. iter[DOMAIN q] = DistanceLoopOf(S)
  BY ZenonT(40) DEF DistanceLoopOf, FoldLeft, MapThenFoldSet
<1> HIDE DEF iter
<1>8. \A s \in SUBSET DOMAIN q :
        iter[s] = IF s = {} THEN 0 ELSE WithGap(S, iter[s \ {Max(s)}], q[Max(s)])
  BY <1>6
<1>9. SolvesWithin(iter, D, g, 0, q)
  <2>1. iter[{}] = 0
    BY <1>8
  <2>2. ASSUME NEW s \in SUBSET DOMAIN q, s # {}, iter[s \ {Max(s)}] \in D
        PROVE  iter[s] = g[<<iter[s \ {Max(s)}], q[Max(s)]>>]
    <3>1. q[Max(s)] \in Q
      BY <1>4, <2>2 DEF Solves
    <3>2. g[<<iter[s \ {Max(s)}], q[Max(s)]>>] = WithGap(S, iter[s \ {Max(s)}], q[Max(s)])
      BY <1>3, <2>2, <3>1
    <3>3. iter[s] = WithGap(S, iter[s \ {Max(s)}], q[Max(s)])
      BY <1>8, <2>2
    <3> QED BY <3>2, <3>3
  <2> QED BY <2>1, <2>2 DEF SolvesWithin
<1>10. PICK h \in [0 .. Len(q) -> D] : Passes(h, Q, g, 0, q, iter[DOMAIN q])
  BY <1>0, <1>2, <1>9, FoldStates
<1>11. ASSUME NEW k \in 1 .. Len(q)
       PROVE  h[k] = WithGap(S, h[k - 1], q[k]) /\ q[k] \in Q
  <2>1. h[k - 1] \in D
    <3>1. k - 1 \in 0 .. Len(q)
      <4>1. Len(q) \in Nat
        BY <1>0, LenProperties
      <4> QED BY <4>1, PassBefore
    <3>2. \A j \in 0 .. Len(q) : h[j] \in D
      BY <1>10
    <3> QED BY <3>1, <3>2
  <2> QED BY <1>3, <1>10, <2>1 DEF Passes
<1> QED BY <1>7, <1>10, <1>11 DEF D, Q, Passes, DistanceRuns


\* One gap more.
LEMMA NextGap ==
  ASSUME NEW S, Laid(S), NEW k \in Gaps(S), IsFiniteSet(GapKeys(S, k - 1))
  PROVE  /\ IsFiniteSet(GapKeys(S, k))
         /\ Cardinality(GapKeys(S, k)) = Cardinality(GapKeys(S, k - 1)) + GapSize(S, k)
<1> DEFINE q == InOrder(S)
           l == last(q[k])
           f == first(q[k + 1])
           A == GapKeys(S, k - 1)
           B == (l + 1) .. (f - 1)
<1>1. k \in 1 .. Len(q) /\ k + 1 \in 1 .. Len(q) /\ l \in Int /\ f \in Int /\ l < f
  BY NextBegins
<1>2. GapSize(S, k) = f - l - 1 /\ GapSize(S, k) \in Nat
  BY GapSizeIs
<1>3. Len(q) \in Nat /\ k \in Int
  BY ListedIs DEF Gaps
<1>4. GapKeys(S, k) = A \cup B
  <2>1. \A j : j \in 1 .. k <=> j \in 1 .. k - 1 \/ j = k
    BY <1>1, <1>3
  <2>2. \A e \in Int : e \in B <=> l < e /\ e < f
    BY <1>1
  <2>3. B \in SUBSET Int
    BY <1>1
  <2> HIDE DEF B
  <2> QED BY <2>1, <2>2, <2>3 DEF GapKeys
<1>5. A \cap B = {}
  <2>0. \A e \in B : e \in Int /\ l < e /\ e < f
    BY <1>1
  <2> HIDE DEF B
  <2> SUFFICES ASSUME NEW e \in Int, NEW j \in 1 .. k - 1, last(q[j]) < e, e < first(q[j + 1]),
                      l < e, e < f
               PROVE  FALSE
    BY <2>0 DEF GapKeys
  <2>1. j + 1 \in 1 .. Len(q) /\ (j + 1 = k \/ j + 1 < k)
    BY <1>1, <1>3
  <2>2. /\ \A a, b \in 1 .. Len(q) : a < b => last(q[a]) < first(q[b])
        /\ \A a \in 1 .. Len(q) : first(q[a]) \in Int /\ last(q[a]) \in Int /\ first(q[a]) <= last(q[a])
    BY ListedIs
  <2> DEFINE g == first(q[j + 1])
             h == last(q[j + 1])
  <2>3. g \in Int /\ h \in Int /\ g <= h
    BY <2>1, <2>2
  <2>4. j + 1 < k => h < first(q[k])
    BY <1>1, <2>1, <2>2
  <2>5. first(q[k]) \in Int /\ first(q[k]) <= l
    BY <1>1, <2>2
  <2>6. j + 1 = k => h = l
    OBVIOUS
  <2> HIDE DEF g, h, l, f
  <2>7. g <= l
    BY <1>1, <2>1, <2>3, <2>4, <2>5, <2>6
  <2>8. e < g
    BY DEF g
  <2> QED BY <1>1, <2>3, <2>7, <2>8
<1>6. /\ IsFiniteSet(B) /\ Cardinality(B) = f - l - 1
  <2> DEFINE a == l + 1
             c == f - 1
  <2>1. a \in Int /\ c \in Int
    BY <1>1
  <2> HIDE DEF a, c
  <2>2. /\ IsFiniteSet(a .. c)
        /\ Cardinality(a .. c) = IF a > c THEN 0 ELSE c - a + 1
    BY <2>1, FS_Interval
  <2>3. /\ IsFiniteSet(B)
        /\ Cardinality(B) = IF a > c THEN 0 ELSE c - a + 1
    BY <2>2 DEF a, c
  <2> HIDE DEF B, l, f
  <2> QED BY <1>1, <2>3 DEF a, c
<1> HIDE DEF A, B, l, f
<1>7. IsFiniteSet(A)
  BY DEF A
<1>8. /\ IsFiniteSet(A \cup B)
      /\ Cardinality(A \cup B) = Cardinality(A) + Cardinality(B) - Cardinality(A \cap B)
  BY <1>6, <1>7, FS_Union
<1>9. Cardinality(A \cap B) = 0 /\ Cardinality(A) \in Nat /\ Cardinality(B) \in Nat
  BY <1>5, <1>6, <1>7, FS_EmptySet, FS_CardinalityType
<1>10. Cardinality(A \cup B) = Cardinality(A) + GapSize(S, k)
  BY <1>2, <1>6, <1>8, <1>9
<1> QED BY <1>4, <1>8, <1>10 DEF A

\* distance: the number of elements in the gaps.
LEMMA DistanceCounts ==
  ASSUME NEW S, Laid(S)
  PROVE  DistanceOf(S) = Cardinality(GapKeys(S, Len(Numbers(S))))
<1> DEFINE p == Numbers(S)
           n == Len(p)
<1>1. p \in Seq(Gaps(S)) /\ \A k \in 1 .. n : p[k] = k
  BY NumbersAre
<1>2. n \in Nat /\ \A k \in 1 .. n : k \in Gaps(S)
  <2>1. n \in Nat
    BY <1>1, LenProperties
  <2>2. \A k \in 1 .. n : p[k] \in Gaps(S)
    BY <1>1
  <2> QED BY <1>1, <2>1, <2>2
<1>3. p = [k \in 1 .. (Len(InOrder(S)) - 1) |-> k]
  BY DEF Numbers
<1>4. DistanceRuns(S, p)
  BY <1>1, <1>3, DistanceLoop
<1> HIDE DEF p
<1>5. PICK h \in [0 .. n -> Nat] :
        /\ h[0] = 0
        /\ h[n] = DistanceLoopOf(S)
        /\ \A k \in 1 .. n : h[k] = h[k - 1] + GapSize(S, p[k]) /\ p[k] \in Gaps(S)
  BY <1>4 DEF DistanceRuns, WithGap
<1> HIDE DEF n
<1> DEFINE R(k) == IsFiniteSet(GapKeys(S, k)) /\ h[k] = Cardinality(GapKeys(S, k))
           P == [k \in 0 .. n |-> R(k)]
<1>6. P \in [0 .. n -> BOOLEAN] /\ \A k \in 0 .. n : P[k] <=> R(k)
  OBVIOUS
<1>7. R(0)
  <2>1. GapKeys(S, 0) = {}
    BY DEF GapKeys
  <2> QED BY <1>5, <2>1, FS_EmptySet
<1>8. ASSUME NEW k \in 1 .. n, R(k - 1)
      PROVE  R(k)
  <2>1. k \in Gaps(S) /\ p[k] = k
    BY <1>1, <1>2 DEF n
  <2>2. /\ IsFiniteSet(GapKeys(S, k))
        /\ Cardinality(GapKeys(S, k)) = Cardinality(GapKeys(S, k - 1)) + GapSize(S, k)
    BY <1>8, <2>1, NextGap
  <2> QED BY <1>5, <1>8, <2>1, <2>2
<1> HIDE DEF P, R
<1>9. P[0]
  BY <1>2, <1>6, <1>7
<1>10. ASSUME NEW k \in 1 .. n, P[k - 1]
       PROVE  P[k]
  <2>1. k - 1 \in 0 .. n /\ k \in 0 .. n
    BY <1>2
  <2> QED BY <1>6, <1>8, <1>10, <2>1
<1>11. R(n)
  <2>1. n \in 0 .. n
    BY <1>2
  <2>2. P[n]
    BY <1>2, <1>6, <1>9, <1>10, <2>1, Upwards
  <2> QED BY <1>6, <2>1, <2>2
<1> QED BY <1>5, <1>11, DistanceIsLoop DEF R, n, p

\* distance: the number of elements of the hull that are not in the set.
LEMMA DistanceOfIs ==
  ASSUME NEW S, Laid(S)
  PROVE  DistanceOf(S) = Cardinality(Elements(HullOf(S)) \ ElementsOf(S))
<1> DEFINE n == Len(Numbers(S))
<1>1. n = IF S = {} THEN 0 ELSE Len(InOrder(S)) - 1
  BY NumbersAre
<1>2. GapKeys(S, n) = Elements(HullOf(S)) \ ElementsOf(S)
  <2>1. CASE S = {}
    <3>1. GapKeys(S, n) = {}
      BY <1>1, <2>1 DEF GapKeys
    <3>2. Elements(HullOf(S)) = {}
      BY <2>1, IdentityOfType, DynamicIsAll DEF HullOf
    <3> QED BY <3>1, <3>2
  <2>2. CASE S # {}
    <3> DEFINE b == first(begin(S))
               r == last(rbegin(S))
    <3>1. Gaps(S) = 1 .. n
      BY <1>1, <2>2 DEF Gaps
    <3>2. \A e \in Int : e \in GapKeys(S, n) <=> b <= e /\ e <= r /\ ~ Has(S, e)
      BY <2>2, <3>1, GapsAre DEF GapKeys
    <3>3. Elements(HullOf(S)) = b .. r /\ b \in Int /\ r \in Int
      <4>1. begin(S) \in S /\ rbegin(S) \in S
        BY <2>2, FirstAndLast
      <4> QED BY <2>2, <4>1, HullElements, LaidEnds
    <3>4. \A e \in Int : e \in ElementsOf(S) <=> Has(S, e)
      <4>1. S \in SUBSET Interval
        BY LaidEnds
      <4> QED BY <4>1, ElementsOfIs
    <3>5. GapKeys(S, n) \in SUBSET Int
      BY DEF GapKeys
    <3> HIDE DEF b, r, n
    <3> QED BY <3>2, <3>3, <3>4, <3>5
  <2> QED BY <2>1, <2>2
<1> QED BY <1>2, DistanceCounts

-----------------------------------------------------------------------------
(***************************************************************************)
(* The domain of a map.                                                    *)
(***************************************************************************)

\* The states h of the loop of domain.
DomainRuns(style, M, q) ==
  \E h \in [0 .. Len(q) -> FitSets(style)] :
    /\ h[0] = {}
    /\ h[Len(q)] = DomainOf(style, M)
    /\ \A k \in 1 .. Len(q) : h[k] = AddInterval(style, h[k - 1], q[k].itv) /\ q[k] \in Wholes

\* The loop of domain: every pass adds the interval of a segment.
LEMMA DomainLoop ==
  ASSUME NEW style \in Styles, NEW M,
         {} \in FitSets(style), NEW q \in Seq(Wholes), q = SegmentsInOrder(M)
  PROVE  DomainRuns(style, M, q)
<1> DEFINE D == FitSets(style)
           Q == Wholes
           g == [p \in D \X Q |-> AddInterval(style, p[1], p[2].itv)]
           iter == CHOOSE it : it = [s \in SUBSET DOMAIN q |->
                     IF s = {} THEN {} ELSE AddInterval(style, it[s \ {Max(s)}], q[Max(s)].itv)]
<1>0. {} \in D /\ q \in Seq(Q)
  OBVIOUS
<1>1. ASSUME NEW y \in D, NEW t \in Q
      PROVE  AddInterval(style, y, t.itv) \in D
  BY <1>1, AddIs, FitIs DEF Wholes, SegmentType
<1>2. g \in [D \X Q -> D]
  <2>1. \A p \in D \X Q : AddInterval(style, p[1], p[2].itv) \in D
    BY <1>1
  <2> QED BY <2>1, Zenon
<1>3. \A y \in D, t \in Q : g[<<y, t>>] = AddInterval(style, y, t.itv)
  <2> HIDE DEF D, Q
  <2> QED OBVIOUS
<1> HIDE DEF g, D, Q
<1>4. PICK it \in [SUBSET DOMAIN q -> D] : Solves(it, D, Q, g, {}, q)
  BY <1>0, <1>2, FoldSolved
<1>5. it = [s \in SUBSET DOMAIN q |->
              IF s = {} THEN {} ELSE AddInterval(style, it[s \ {Max(s)}], q[Max(s)].itv)]
  <2>1. \A s \in SUBSET DOMAIN q :
          it[s] = IF s = {} THEN {} ELSE AddInterval(style, it[s \ {Max(s)}], q[Max(s)].itv)
    <3>1. it[{}] = {}
      BY <1>4 DEF Solves
    <3>2. ASSUME NEW s \in SUBSET DOMAIN q, s # {}
          PROVE  it[s] = AddInterval(style, it[s \ {Max(s)}], q[Max(s)].itv)
      <4>1. /\ it[s \ {Max(s)}] \in D /\ q[Max(s)] \in Q
            /\ it[s] = g[<<it[s \ {Max(s)}], q[Max(s)]>>]
        BY <1>4, <3>2 DEF Solves
      <4> QED BY <1>3, <4>1
    <3> QED BY <3>1, <3>2
  <2>2. it = [s \in SUBSET DOMAIN q |-> it[s]]
    OBVIOUS
  <2> QED BY <2>1, <2>2, ZenonT(40)
<1>6. iter = [s \in SUBSET DOMAIN q |->
                IF s = {} THEN {} ELSE AddInterval(style, iter[s \ {Max(s)}], q[Max(s)].itv)]
  BY <1>5, Zenon
<1>7. iter[DOMAIN q] = DomainOf(style, M)
  BY Zenon DEF DomainOf, ForSegments, FoldLeft, MapThenFoldSet
<1> HIDE DEF iter
<1>8. \A s \in SUBSET DOMAIN q :
        iter[s] = IF s = {} THEN {} ELSE AddInterval(style, iter[s \ {Max(s)}], q[Max(s)].itv)
  BY <1>6
<1>9. SolvesWithin(iter, D, g, {}, q)
  <2>1. iter[{}] = {}
    BY <1>8
  <2>2. ASSUME NEW s \in SUBSET DOMAIN q, s # {}, iter[s \ {Max(s)}] \in D
        PROVE  iter[s] = g[<<iter[s \ {Max(s)}], q[Max(s)]>>]
    <3>1. q[Max(s)] \in Q
      BY <1>4, <2>2 DEF Solves
    <3>2. g[<<iter[s \ {Max(s)}], q[Max(s)]>>] = AddInterval(style, iter[s \ {Max(s)}], q[Max(s)].itv)
      BY <1>3, <2>2, <3>1
    <3>3. iter[s] = AddInterval(style, iter[s \ {Max(s)}], q[Max(s)].itv)
      BY <1>8, <2>2
    <3> QED BY <3>2, <3>3
  <2> QED BY <2>1, <2>2 DEF SolvesWithin
<1>10. PICK h \in [0 .. Len(q) -> D] : Passes(h, Q, g, {}, q, iter[DOMAIN q])
  BY <1>0, <1>2, <1>9, FoldStates
<1>11. ASSUME NEW k \in 1 .. Len(q)
       PROVE  h[k] = AddInterval(style, h[k - 1], q[k].itv) /\ q[k] \in Q
  <2>1. h[k - 1] \in D
    <3>1. k - 1 \in 0 .. Len(q)
      <4>1. Len(q) \in Nat
        BY <1>0, LenProperties
      <4> QED BY <4>1, PassBefore
    <3>2. \A j \in 0 .. Len(q) : h[j] \in D
      BY <1>10
    <3> QED BY <3>1, <3>2
  <2> QED BY <1>3, <1>10, <2>1 DEF Passes
<1> QED BY <1>7, <1>10, <1>11 DEF D, Q, Passes, DomainRuns


\* domain: the keys that have a value.
LEMMA DomainOfIs ==
  ASSUME NEW style \in Styles, NEW M, Mapped(M)
  PROVE  /\ Fit(style, DomainOf(style, M))
         /\ \A k \in Int : Has(DomainOf(style, M), k) <=> ValueAt(M, k) # NoValue
<1> DEFINE q == SegmentsInOrder(M)
           n == Len(q)
           c == [k \in 1 .. n |-> {e \in Int : In(e, q[k].itv)}]
<1>1. /\ n \in Nat
      /\ \A k \in 1 .. n : q[k] \in M /\ IntervalsOf(q)[k] = q[k].itv
      /\ \A e \in Int : (\E j \in 1 .. n : In(e, IntervalsOf(q)[j])) <=> ValueAt(M, e) # NoValue
  BY IntervalsInOrder
<1>2. q \in Seq(Wholes)
  BY ListOfWholes
<1>3. DomainRuns(style, M, q)
  BY <1>2, NoneIsFit, DomainLoop
<1> HIDE DEF q
<1>4. PICK h \in [0 .. n -> FitSets(style)] :
        /\ h[0] = {}
        /\ h[n] = DomainOf(style, M)
        /\ \A k \in 1 .. n : h[k] = AddInterval(style, h[k - 1], q[k].itv) /\ q[k] \in Wholes
  BY <1>3 DEF DomainRuns
<1>5. ASSUME NEW k \in 1 .. n
      PROVE  k - 1 \in 0 .. n /\ q[k].itv \in Interval
  <2>1. k - 1 \in 0 .. n
    BY <1>1
  <2>2. q[k] \in M
    BY <1>1
  <2> QED BY <2>1, <2>2, MapEnds
<1>6. ASSUME NEW k \in 1 .. n
      PROVE  \A e \in Int : Has(h[k], e) <=> Has(h[k - 1], e) \/ In(e, q[k].itv)
  <2>1. Fit(style, h[k - 1]) /\ h[k] = AddInterval(style, h[k - 1], q[k].itv)
    BY <1>4, <1>5, FitIs
  <2> QED BY <1>5, <2>1, AddIs
<1>7. Grows(h, c, n)
  BY <1>6 DEF Grows
<1>8. \A e \in Int : (\E k \in 1 .. n : e \in c[k]) <=> ValueAt(M, e) # NoValue
  BY <1>1
<1> HIDE DEF c, n
<1>9. \A e \in Int : Has(h[n], e) <=> Has(h[0], e) \/ \E k \in 1 .. n : e \in c[k]
  BY <1>1, <1>7, Gathers
<1>10. \A e \in Int : ~ Has({}, e)
  BY DEF Has
<1>11. Fit(style, h[n])
  <2>1. n \in 0 .. n
    BY <1>1
  <2> QED BY <1>4, <2>1, FitIs
<1> QED BY <1>4, <1>8, <1>9, <1>10, <1>11

\* between of a map: what lies in the hull of its keys and has no value.
LEMMA BetweenMapIs ==
  ASSUME NEW style \in Styles, NEW M, Mapped(M)
  PROVE  /\ Fit(style, BetweenMap(style, M))
         /\ \A k \in Int : Has(BetweenMap(style, M), k) <=>
              k \in Elements(HullOf(KeysOf(M))) /\ ~ Has(KeysOf(M), k)
<1> DEFINE I == KeysOf(M)
<1>1. Laid(I)
  BY KeysOfIs
<1> HIDE DEF I
<1>2. Fit(style, BetweenSet(style, I))
  BY <1>1, BetweenIs
<1>3. \A k \in Int : Has(BetweenSet(style, I), k) <=> k \in Elements(HullOf(I)) /\ ~ Has(I, k)
  <2>1. CASE I = {}
    <3>1. Elements(HullOf(I)) = {}
      BY <2>1, IdentityOfType, DynamicIsAll DEF HullOf
    <3> QED BY <1>1, <2>1, <3>1, BetweenIs
  <2>2. CASE I # {}
    <3> DEFINE b == first(begin(I))
               r == last(rbegin(I))
    <3>1. \A k \in Int : Has(BetweenSet(style, I), k) <=> b <= k /\ k <= r /\ ~ Has(I, k)
      BY <1>1, <2>2, BetweenIs
    <3>2. Elements(HullOf(I)) = b .. r /\ b \in Int /\ r \in Int
      <4>1. begin(I) \in I /\ rbegin(I) \in I
        BY <1>1, <2>2, FirstAndLast
      <4> QED BY <1>1, <2>2, <4>1, HullElements, LaidEnds
    <3> HIDE DEF b, r
    <3>3. \A k \in Int : k \in Elements(HullOf(I)) <=> b <= k /\ k <= r
      BY <3>2
    <3> QED BY <3>1, <3>3
  <2> QED BY <2>1, <2>2
<1> QED BY <1>2, <1>3 DEF I, BetweenMap

-----------------------------------------------------------------------------
(***************************************************************************)
(* Containment in a map.                                                   *)
(***************************************************************************)

\* The intervals of the segments that i overlaps are those of the keys.
LEMMA RangeOfKeys ==
  ASSUME NEW M, Mapped(M), NEW i, Proper(i)
  PROVE  /\ KeysOf(overlap(M, i)) = equal_range(KeysOf(M), i)
         /\ Mapped(overlap(M, i))
<1>1. \A s \in M : s \in overlap(M, i) <=> Lo(s) <= last(i) /\ first(i) <= Hi(s)
  BY OverlapIs
<1>2. overlap(M, i) \in SUBSET M /\ Mapped(overlap(M, i))
  BY OverlapIs
<1>3. Laid(KeysOf(M))
  BY KeysOfIs
<1>4. /\ equal_range(KeysOf(M), i) \in SUBSET KeysOf(M)
      /\ \A k \in KeysOf(M) : k \in equal_range(KeysOf(M), i) <=>
                                first(k) <= last(i) /\ first(i) <= last(k)
  BY <1>3, RangeIs
<1>5. \A s \in M : s.itv \in KeysOf(M)
  BY DEF KeysOf
<1>6. ASSUME NEW k \in KeysOf(overlap(M, i))
      PROVE  k \in equal_range(KeysOf(M), i)
  <2>1. PICK s \in overlap(M, i) : k = s.itv
    BY DEF KeysOf
  <2> QED BY <1>1, <1>2, <1>4, <1>5, <2>1 DEF Lo, Hi
<1>7. ASSUME NEW k \in equal_range(KeysOf(M), i)
      PROVE  k \in KeysOf(overlap(M, i))
  <2>1. PICK s \in M : k = s.itv
    BY <1>4 DEF KeysOf
  <2>2. s \in overlap(M, i)
    BY <1>1, <1>4, <2>1 DEF Lo, Hi
  <2> QED BY <2>1, <2>2 DEF KeysOf
<1> QED BY <1>2, <1>6, <1>7

\* The first and the last segment are those of the first and the last interval.
LEMMA EndsOfKeys ==
  ASSUME NEW E, Mapped(E), E # {}
  PROVE  /\ mbegin(E) \in E /\ mlast(E) \in E
         /\ mbegin(E).itv = begin(KeysOf(E)) /\ mlast(E).itv = rbegin(KeysOf(E))
         /\ KeysOf(E) # {} /\ Laid(KeysOf(E))
<1> DEFINE I == KeysOf(E)
           f == mbegin(E)
           l == mlast(E)
<1>1. /\ f \in E /\ l \in E
      /\ \A r \in E : r = f \/ Hi(f) < Lo(r)
      /\ \A r \in E : r = l \/ Hi(r) < Lo(l)
  BY FirstAndLastSegment
<1>2. f.itv \in I /\ l.itv \in I
  BY <1>1 DEF KeysOf
<1>3. Laid(I)
  BY KeysOfIs
<1> HIDE DEF f, l
<1>4. /\ begin(I) \in I /\ rbegin(I) \in I
      /\ \A r \in I : r = begin(I) \/ last(begin(I)) < first(r)
      /\ \A r \in I : r = rbegin(I) \/ last(r) < first(rbegin(I))
  BY <1>2, <1>3, FirstAndLast
<1>5. PICK s \in E : s.itv = begin(I)
  BY <1>4 DEF KeysOf
<1>6. PICK t \in E : t.itv = rbegin(I)
  BY <1>4 DEF KeysOf
<1>7. \A u \in E : Lo(u) \in Int /\ Hi(u) \in Int /\ Lo(u) <= Hi(u)
  BY MapEnds
<1>8. f.itv = begin(I)
  <2>1. CASE s = f
    BY <1>5, <2>1
  <2>2. CASE Hi(f) < Lo(s)
    <3>1. f.itv = begin(I) \/ Hi(s) < Lo(f)
      BY <1>2, <1>4, <1>5 DEF Lo, Hi
    <3> QED BY <1>1, <1>7, <2>2, <3>1
  <2> QED BY <1>1, <2>1, <2>2
<1>9. l.itv = rbegin(I)
  <2>1. CASE t = l
    BY <1>6, <2>1
  <2>2. CASE Hi(t) < Lo(l)
    <3>1. l.itv = rbegin(I) \/ Hi(l) < Lo(t)
      BY <1>2, <1>4, <1>6 DEF Lo, Hi
    <3> QED BY <1>1, <1>7, <2>2, <3>1
  <2> QED BY <1>1, <2>1, <2>2
<1> QED BY <1>1, <1>2, <1>3, <1>8, <1>9 DEF f, l

\* What covers i in a map: the segments that it overlaps, when there is one, leave
\* no gap and span i.
Spans(M, i) ==
  LET E == overlap(M, i)
  IN /\ E # {}
     /\ contains(hull_of(mbegin(E).itv, mlast(E).itv), i)
     /\ is_joinable(KeysOf(E))

\* It is the containment of sets, of the keys.
LEMMA SpansIs ==
  ASSUME NEW M, Mapped(M), NEW i, Proper(i)
  PROVE  Spans(M, i) <=> \A k \in Int : In(k, i) => ValueAt(M, k) # NoValue
<1> DEFINE E == overlap(M, i)
           I == KeysOf(M)
           F == equal_range(I, i)
<1>1. KeysOf(E) = F /\ Mapped(E)
  BY RangeOfKeys
<1>2. Laid(I) /\ \A k \in Int : Has(I, k) <=> ValueAt(M, k) # NoValue
  BY KeysOfIs
<1>3. i \in Interval /\ ~ is_empty(i)
  BY ProperEnds
<1>4. E # {} <=> F # {}
  BY <1>1 DEF KeysOf
<1>5. E # {} => mbegin(E).itv = begin(F) /\ mlast(E).itv = rbegin(F)
  BY <1>1, EndsOfKeys
<1>6. Spans(M, i) <=> ContainsInterval(I, i)
  BY <1>1, <1>3, <1>4, <1>5, Zenon DEF Spans, ContainsInterval
<1> HIDE DEF I
<1> QED BY <1>2, <1>3, <1>6, ContainsIntervalIs

\* contains(map, interval)
LEMMA ContainsKeysIs ==
  ASSUME NEW M, Mapped(M), NEW i \in Interval
  PROVE  ContainsKeys(M, i) <=> \A k \in Int : In(k, i) => ValueAt(M, k) # NoValue
<1>1. CASE Proper(i)
  <2>1. ContainsKeys(M, i) <=> Spans(M, i)
    <3>1. ~ is_empty(i)
      BY <1>1, ProperEnds
    <3> QED BY <3>1 DEF ContainsKeys, Spans
  <2> QED BY <1>1, <2>1, SpansIs
<1>2. CASE ~ Proper(i)
  <2>1. is_empty(i)
    BY <1>2, ProperIs
  <2>2. \A k \in Int : ~ In(k, i)
    BY <1>2, Ends DEF Proper, In
  <2> QED BY <2>1, <2>2 DEF ContainsKeys
<1> QED BY <1>1, <1>2

\* contains(map, segment): every key of the interval has the value.
LEMMA ContainsSegmentIs ==
  ASSUME NEW M, Mapped(M), NEW s \in SegmentType
  PROVE  ContainsSegment(M, s) <=> \A k \in Int : In(k, s.itv) => ValueAt(M, k) = s.val
<1> DEFINE i == s.itv
           E == overlap(M, i)
<1>0. i \in Interval /\ s.val # NoValue
  BY ContainersAssumption DEF SegmentType
<1>1. CASE ~ Proper(i)
  <2>1. is_empty(i)
    BY <1>0, <1>1, ProperIs
  <2>2. \A k \in Int : ~ In(k, i)
    BY <1>0, <1>1, Ends DEF Proper, In
  <2> QED BY <2>1, <2>2 DEF ContainsSegment
<1>2. CASE Proper(i)
  <2>1. ~ is_empty(i) /\ first(i) \in Int /\ last(i) \in Int
    BY <1>2, ProperEnds
  <2>2. ContainsSegment(M, s) <=> Spans(M, i) /\ \A e \in E : e.val = s.val
    <3>1. E # {} => mbegin(E) \in E
      BY <1>2, RangeOfKeys, EndsOfKeys
    <3>2. ContainsSegment(M, s) <=>
            Spans(M, i) /\ s.val = mbegin(E).val /\ \A e \in E : e.val = mbegin(E).val
      BY <2>1, Zenon DEF ContainsSegment, Spans, map_is_joinable
    <3>3. Spans(M, i) => E # {}
      BY DEF Spans
    <3> HIDE DEF E
    <3> QED BY <3>1, <3>2, <3>3
  <2>3. /\ E \in SUBSET M
        /\ \A e \in M : e \in E <=> Lo(e) <= last(i) /\ first(i) <= Hi(e)
    BY <1>2, OverlapIs
  <2>4. Spans(M, i) <=> \A k \in Int : In(k, i) => ValueAt(M, k) # NoValue
    BY <1>2, SpansIs
  <2> HIDE DEF E
  <2>5. ASSUME \A e \in E : e.val = s.val, NEW k \in Int, In(k, i), ValueAt(M, k) # NoValue
        PROVE  ValueAt(M, k) = s.val
    <3>1. PICK e \in M : Within(k, e) /\ ValueAt(M, k) = e.val
      BY <2>5, ValueCases
    <3>2. Lo(e) \in Int /\ Hi(e) \in Int
      BY MapEnds
    <3>3. Lo(e) <= last(i) /\ first(i) <= Hi(e)
      BY <2>1, <2>5, <3>1, <3>2 DEF Within, In
    <3> QED BY <2>3, <2>5, <3>1, <3>3
  <2>6. ASSUME \A k \in Int : In(k, i) => ValueAt(M, k) = s.val, NEW e \in E
        PROVE  e.val = s.val
    <3>1. e \in M /\ Lo(e) <= last(i) /\ first(i) <= Hi(e)
      BY <2>3
    <3>2. Lo(e) \in Int /\ Hi(e) \in Int /\ Lo(e) <= Hi(e)
      BY <3>1, MapEnds
    <3>3. first(i) <= last(i)
      BY <1>2, ProperEnds
    <3>4. PICK k \in Int : Lo(e) <= k /\ k <= Hi(e) /\ first(i) <= k /\ k <= last(i)
      <4>1. CASE Lo(e) <= first(i)
        BY <2>1, <3>1, <3>3, <4>1
      <4>2. CASE first(i) < Lo(e)
        BY <2>1, <3>1, <3>2, <4>2
      <4> QED BY <2>1, <3>2, <4>1, <4>2
    <3>5. ValueAt(M, k) = e.val
      BY <3>1, <3>4, ValueIn
    <3>6. In(k, i)
      BY <3>4 DEF In
    <3> QED BY <2>6, <3>5, <3>6
  <2> HIDE DEF i
  <2>7. (\A k \in Int : In(k, i) => ValueAt(M, k) = s.val) =>
          \A k \in Int : In(k, i) => ValueAt(M, k) # NoValue
    BY <1>0
  <2>8. ContainsSegment(M, s) <=> \A k \in Int : In(k, i) => ValueAt(M, k) = s.val
    BY <2>2, <2>4, <2>5, <2>6, <2>7
  <2> QED BY <2>8 DEF i
<1> QED BY <1>1, <1>2

-----------------------------------------------------------------------------
(***************************************************************************)
(* The queries of a container.                                             *)
(***************************************************************************)

\* The queries that a map and the set of its keys answer alike.
LEMMA QueriesOfIntervals ==
  ASSUME NEW I, Laid(I), NEW X, X = ElementsOf(I)
  PROVE  /\ \A i \in Given :
              /\ ContainsInterval(I, i) <=> Elements(i) \subseteq X
              /\ Intersects(I, i) <=> Elements(i) \cap X # {}
         /\ \A k \in Ticks : find(I, k) = {i \in I : k \in Elements(i)}
         /\ CardinalityOf(I) = Cardinality(X) /\ LengthOf(I) = Cardinality(X)
         /\ X # {} => Elements(HullOf(I)) = Min(X) .. Max(X)
         /\ DistanceOf(I) = Cardinality(Elements(HullOf(I)) \ X)
         /\ X # {} => FirstOf(I) = Min(X) /\ LastOf(I) = Max(X)
         /\ X = {} => UpperOf(I) < LowerOf(I)
<1>1. X \in SUBSET Int /\ \A k \in Int : k \in X <=> Has(I, k)
  <2>1. I \in SUBSET Interval
    BY LaidEnds
  <2> QED BY <2>1, ElementsOfIs
<1>2. ASSUME NEW i \in Given
      PROVE  /\ ContainsInterval(I, i) <=> Elements(i) \subseteq X
             /\ Intersects(I, i) <=> Elements(i) \cap X # {}
  <2>1. i \in Interval
    BY GivenAre
  <2> DEFINE Y == Elements(i)
  <2>2. Y \in SUBSET Int /\ \A k \in Int : k \in Y <=> In(k, i)
    BY <2>1, ElementsAreIn
  <2> HIDE DEF Y
  <2>3. ContainsInterval(I, i) <=> Y \subseteq X
    BY <1>1, <2>1, <2>2, ContainsIntervalIs
  <2>4. Intersects(I, i) <=> Y \cap X # {}
    BY <1>1, <2>1, <2>2, IntersectsIs
  <2> QED BY <2>3, <2>4 DEF Y
<1>3. \A k \in Ticks : find(I, k) = {i \in I : k \in Elements(i)}
  <2>1. Ticks \in SUBSET Int
    BY ContainersAssumption DEF Ticks
  <2> QED BY <2>1, FindIs
<1>4. CardinalityOf(I) = Cardinality(X) /\ LengthOf(I) = Cardinality(X)
  BY CardinalityOfIs DEF Count
<1>5. DistanceOf(I) = Cardinality(Elements(HullOf(I)) \ X)
  BY DistanceOfIs
<1>6. ASSUME X # {}
      PROVE  /\ Elements(HullOf(I)) = Min(X) .. Max(X)
             /\ FirstOf(I) = Min(X) /\ LastOf(I) = Max(X)
  <2>1. I # {}
    BY <1>1, <1>6 DEF Has
  <2>2. Min(X) = first(begin(I)) /\ Max(X) = last(rbegin(I))
    BY <1>1, <2>1, LimitsAre
  <2>3. Elements(HullOf(I)) = first(begin(I)) .. last(rbegin(I))
    BY <2>1, HullElements
  <2> QED BY <2>1, <2>2, <2>3 DEF FirstOf, LastOf
<1>7. ASSUME X = {}
      PROVE  UpperOf(I) < LowerOf(I)
  <2>1. I = {}
    BY <1>1, <1>7, LimitsAre
  <2> QED BY <2>1 DEF UpperOf, LowerOf
<1> QED BY <1>2, <1>3, <1>4, <1>5, <1>6, <1>7

\* The queries of maps: the domain, its gaps, and containment.
LEMMA QueriesOfMaps ==
  ASSUME ContainerInv, ~ type.set, NEW X, X = ElementsOf(KeysOf(object))
  PROVE  /\ \A style \in Styles :
              /\ ElementsOf(DomainOf(style, object)) = X
              /\ ElementsOf(BetweenMap(style, object)) = Elements(HullOf(KeysOf(object))) \ X
         /\ \A s \in Segments :
              LET f == Content(object)
                  common_keys == Elements(s.itv) \cap X
              IN /\ ContainsKeys(object, s.itv) <=> Elements(s.itv) \subseteq X
                 /\ ContainsSegment(object, s) <=> \A k \in Elements(s.itv) : f[k] = s.val
                 /\ IntersectsSegment(type, object, s) <=>
                      \E k \in common_keys : cell_section(type, f[k], s.val) # NoValue
<1> DEFINE I == KeysOf(object)
<1>1. MapFit(type, object) /\ Mapped(object)
  BY DEF ContainerInv, MapInv, MapFit
<1>2. Laid(I) /\ \A k \in Int : Has(I, k) <=> ValueAt(object, k) # NoValue
  BY <1>1, KeysOfIs
<1>3. X \in SUBSET Int /\ \A k \in Int : k \in X <=> ValueAt(object, k) # NoValue
  <2>1. I \in SUBSET Interval
    BY <1>2, LaidEnds
  <2> QED BY <1>2, <2>1, ElementsOfIs
<1>4. ASSUME NEW style \in Styles
      PROVE  /\ ElementsOf(DomainOf(style, object)) = X
             /\ ElementsOf(BetweenMap(style, object)) = Elements(HullOf(I)) \ X
  <2>1. ASSUME NEW S, Fit(style, S)
        PROVE  /\ ElementsOf(S) \in SUBSET Int
               /\ \A k \in Int : k \in ElementsOf(S) <=> Has(S, k)
    <3>1. S \in SUBSET Interval
      BY <2>1, FitIs, LaidEnds
    <3> QED BY <3>1, ElementsOfIs
  <2>2. ElementsOf(DomainOf(style, object)) = X
    <3> DEFINE S == DomainOf(style, object)
    <3>1. Fit(style, S) /\ \A k \in Int : Has(S, k) <=> ValueAt(object, k) # NoValue
      BY <1>1, DomainOfIs
    <3> HIDE DEF S
    <3>2. ElementsOf(S) = X
      BY <1>3, <2>1, <3>1
    <3> QED BY <3>2 DEF S
  <2>3. ElementsOf(BetweenMap(style, object)) = Elements(HullOf(I)) \ X
    <3> DEFINE S == BetweenMap(style, object)
               H == Elements(HullOf(I))
    <3>1. Fit(style, S) /\ \A k \in Int : Has(S, k) <=> k \in H /\ ~ Has(I, k)
      BY <1>1, BetweenMapIs
    <3>2. H \in SUBSET Int
      BY DEF Elements
    <3> HIDE DEF S, H, I
    <3>3. ElementsOf(S) = H \ X
      BY <1>2, <1>3, <2>1, <3>1, <3>2
    <3> QED BY <3>3 DEF S, H
  <2> QED BY <2>2, <2>3
<1>5. ASSUME NEW s \in Segments
      PROVE  LET f == Content(object)
                 common_keys == Elements(s.itv) \cap X
             IN /\ ContainsKeys(object, s.itv) <=> Elements(s.itv) \subseteq X
                /\ ContainsSegment(object, s) <=> \A k \in Elements(s.itv) : f[k] = s.val
                /\ IntersectsSegment(type, object, s) <=>
                     \E k \in common_keys : cell_section(type, f[k], s.val) # NoValue
  <2> DEFINE f == Content(object)
             Y == Elements(s.itv)
  <2>1. s \in SegmentType /\ s.itv \in Interval /\ \A k \in Int : In(k, s.itv) => k \in Ticks
    BY SegmentsAre, GivenAre, GivenTicks
  <2>2. Y \in SUBSET Int /\ \A k \in Int : k \in Y <=> In(k, s.itv)
    BY <2>1, ElementsAreIn
  <2>3. \A k \in Y : f[k] = ValueAt(object, k)
    <3>1. f = [k \in Ticks |-> ValueAt(object, k)]
      BY <1>1, ContentIs
    <3> HIDE DEF f, Y
    <3> QED BY <2>1, <2>2, <3>1
  <2> HIDE DEF f, Y
  <2>4. ContainsKeys(object, s.itv) <=> Y \subseteq X
    BY <1>1, <1>3, <2>1, <2>2, ContainsKeysIs
  <2>5. ContainsSegment(object, s) <=> \A k \in Y : f[k] = s.val
    BY <1>1, <2>1, <2>2, <2>3, ContainsSegmentIs
  <2>6. IntersectsSegment(type, object, s) <=>
          \E k \in Y \cap X : cell_section(type, f[k], s.val) # NoValue
    <3>1. IntersectsSegment(type, object, s) <=>
            \E k \in Int : In(k, s.itv) /\ cell_section(type, ValueAt(object, k), s.val) # NoValue
      BY <1>1, <2>1, IntersectsSegmentIs
    <3>2. \A k \in Y : cell_section(type, f[k], s.val) = cell_section(type, ValueAt(object, k), s.val)
      BY <2>3
    <3>3. cell_section(type, NoValue, s.val) = NoValue
      BY DEF cell_section
    <3>4. \A k \in Y : cell_section(type, ValueAt(object, k), s.val) # NoValue => k \in X
      BY <1>3, <2>2, <3>3
    <3> QED BY <2>2, <3>1, <3>2, <3>4
  <2> QED BY <2>4, <2>5, <2>6 DEF f, Y
<1> QED BY <1>4, <1>5

\* The queries are those of the elements.
LEMMA Queries ==
  ASSUME ContainerInv
  PROVE  QueriesExact
<1>1. CASE type.set
  <2>1. Laid(object)
    BY <1>1, FitIs DEF ContainerInv, SetInv
  <2> QED BY <1>1, <2>1, QueriesOfIntervals DEF QueriesExact
<1>2. CASE ~ type.set
  <2> DEFINE I == KeysOf(object)
  <2>1. Laid(I)
    <3>1. Mapped(object)
      BY <1>2 DEF ContainerInv, MapInv, MapFit
    <3> QED BY <3>1, KeysOfIs
  <2> HIDE DEF I
  <2>2. /\ \A i \in Given :
             /\ ContainsInterval(I, i) <=> Elements(i) \subseteq ElementsOf(I)
             /\ Intersects(I, i) <=> Elements(i) \cap ElementsOf(I) # {}
        /\ \A k \in Ticks : find(I, k) = {i \in I : k \in Elements(i)}
        /\ CardinalityOf(I) = Cardinality(ElementsOf(I)) /\ LengthOf(I) = Cardinality(ElementsOf(I))
        /\ ElementsOf(I) # {} => Elements(HullOf(I)) = Min(ElementsOf(I)) .. Max(ElementsOf(I))
        /\ DistanceOf(I) = Cardinality(Elements(HullOf(I)) \ ElementsOf(I))
        /\ ElementsOf(I) # {} => FirstOf(I) = Min(ElementsOf(I)) /\ LastOf(I) = Max(ElementsOf(I))
        /\ ElementsOf(I) = {} => UpperOf(I) < LowerOf(I)
    BY <2>1, QueriesOfIntervals
  <2> QED BY <1>2, <2>2, QueriesOfMaps DEF QueriesExact, I
<1> QED BY <1>1, <1>2

\* QueriesExact: whatever a program has done with a container, contains,
\* intersects, find, cardinality, length, hull, distance, first, last, and of a
\* map domain and between, answer from the elements, however the container is cut.
THEOREM QueriesAreExact == Spec => []QueriesExact
BY ContainerInvariant, Queries, PTL

-----------------------------------------------------------------------------
(***************************************************************************)
(* Element iteration.                                                      *)
(*                                                                         *)
(* c are the intervals in the order in which the iterator passes them, b   *)
(* tells whether it is a reverse_iterator, and X are the elements.         *)
(***************************************************************************)

\* e is passed before f.
Ahead(b, e, f) == IF b THEN f < e ELSE e < f

\* The element of an interval that is passed first, and last.
Near(b, i) == IF b THEN last(i) ELSE first(i)
Far(b, i) == IF b THEN first(i) ELSE last(i)

\* The intervals are those of X, in the order of the iteration.
Course(b, c, X) ==
  /\ b \in BOOLEAN /\ Len(c) \in Nat
  /\ \A j \in 1 .. Len(c) :
       /\ first(c[j]) \in Int /\ last(c[j]) \in Int /\ first(c[j]) <= last(c[j])
       /\ length(c[j]) = last(c[j]) - first(c[j]) + 1
  /\ \A j, k \in 1 .. Len(c) :
       j < k => IF b THEN last(c[k]) < first(c[j]) ELSE last(c[j]) < first(c[k])
  /\ X \in SUBSET Int /\ IsFiniteSet(X)
  /\ \A e \in Int : e \in X <=> \E j \in 1 .. Len(c) : first(c[j]) <= e /\ e <= last(c[j])

\* From one interval to the next no element is left out, none precedes the first
\* interval and none follows the last.
LEMMA CourseGoesOn ==
  ASSUME NEW b, NEW c, NEW X, Course(b, c, X), NEW s \in 1 .. Len(c)
  PROVE  /\ Near(b, c[s]) \in X /\ Far(b, c[s]) \in X
         /\ s + 1 \in 1 .. Len(c) => \A e \in X :
              Ahead(b, e, Near(b, c[s + 1])) <=> e = Far(b, c[s]) \/ Ahead(b, e, Far(b, c[s]))
         /\ s = Len(c) => \A e \in X : e = Far(b, c[s]) \/ Ahead(b, e, Far(b, c[s]))
         /\ s = 1 => \A e \in X : ~ Ahead(b, e, Near(b, c[s]))
<1>1. /\ b \in BOOLEAN /\ Len(c) \in Nat
      /\ \A j \in 1 .. Len(c) :
           /\ first(c[j]) \in Int /\ last(c[j]) \in Int /\ first(c[j]) <= last(c[j])
      /\ \A j, k \in 1 .. Len(c) :
           j < k => IF b THEN last(c[k]) < first(c[j]) ELSE last(c[j]) < first(c[k])
      /\ X \in SUBSET Int
      /\ \A e \in Int : e \in X <=> \E j \in 1 .. Len(c) : first(c[j]) <= e /\ e <= last(c[j])
  BY DEF Course
<1>2. Near(b, c[s]) \in X /\ Far(b, c[s]) \in X
  <2>1. first(c[s]) \in X /\ last(c[s]) \in X
    BY <1>1
  <2> QED BY <2>1 DEF Near, Far
<1>3. ASSUME NEW e \in X
      PROVE  \E j \in 1 .. Len(c) : first(c[j]) <= e /\ e <= last(c[j]) /\ (j < s \/ j = s \/ s < j)
  BY <1>1
<1>4. ASSUME NEW e \in X, s + 1 \in 1 .. Len(c)
      PROVE  Ahead(b, e, Near(b, c[s + 1])) <=> e = Far(b, c[s]) \/ Ahead(b, e, Far(b, c[s]))
  <2>1. PICK j \in 1 .. Len(c) : first(c[j]) <= e /\ e <= last(c[j])
    BY <1>3
  <2> DEFINE f == first(c[s])
             l == last(c[s])
             g == first(c[s + 1])
             m == last(c[s + 1])
             x == first(c[j])
             y == last(c[j])
  <2>2. /\ f \in Int /\ l \in Int /\ f <= l /\ g \in Int /\ m \in Int /\ g <= m
        /\ x \in Int /\ y \in Int /\ x <= y /\ e \in Int
    BY <1>1, <1>4
  <2>3. j < s \/ j = s \/ j = s + 1 \/ s + 1 < j
    BY <1>1
  <2>4. s < s + 1
    BY <1>1
  <2>5. CASE b = FALSE
    <3>1. /\ l < g
          /\ j < s => y < f
          /\ s + 1 < j => m < x
      BY <1>1, <1>4, <2>4, <2>5
    <3>2. (j = s => y = l) /\ (j = s + 1 => x = g)
      OBVIOUS
    <3> HIDE DEF f, l, g, m, x, y
    <3>3. e < g <=> e = l \/ e < l
      BY <2>1, <2>2, <2>3, <3>1, <3>2 DEF x, y
    <3> QED BY <2>5, <3>3 DEF Ahead, Near, Far, g, l
  <2>6. CASE b = TRUE
    <3>1. /\ m < f
          /\ j < s => l < x
          /\ s + 1 < j => y < g
      BY <1>1, <1>4, <2>4, <2>6
    <3>2. (j = s => x = f) /\ (j = s + 1 => y = m)
      OBVIOUS
    <3> HIDE DEF f, l, g, m, x, y
    <3>3. m < e <=> e = f \/ f < e
      BY <2>1, <2>2, <2>3, <3>1, <3>2 DEF x, y
    <3> QED BY <2>6, <3>3 DEF Ahead, Near, Far, m, f
  <2> QED BY <1>1, <2>5, <2>6
<1>5. ASSUME NEW e \in X, s = Len(c)
      PROVE  e = Far(b, c[s]) \/ Ahead(b, e, Far(b, c[s]))
  <2>1. PICK j \in 1 .. Len(c) : first(c[j]) <= e /\ e <= last(c[j])
    BY <1>3
  <2>2. j < s \/ j = s
    BY <1>1, <1>5
  <2> QED BY <1>1, <2>1, <2>2 DEF Ahead, Far
<1>6. ASSUME NEW e \in X, s = 1
      PROVE  ~ Ahead(b, e, Near(b, c[s]))
  <2>1. PICK j \in 1 .. Len(c) : first(c[j]) <= e /\ e <= last(c[j])
    BY <1>3
  <2>2. s < j \/ j = s
    BY <1>1, <1>6
  <2> QED BY <1>1, <2>1, <2>2 DEF Ahead, Near
<1> QED BY <1>2, <1>4, <1>5, <1>6

\* A position at an element.
At(c, p) ==
  /\ p \in [saltator : 1 .. Len(c), reptator : Nat]
  /\ p.reptator < length(c[p.saltator])

\* The elements that are passed before a position.
PassedBefore(b, c, X, p) ==
  IF p = elements_end(c) THEN X ELSE {e \in X : Ahead(b, e, dereference(b, c, p))}

\* The iteration begins before every element.
LEMMA IterationBegins ==
  ASSUME NEW b, NEW c, NEW X, Course(b, c, X)
  PROVE  /\ elements_begin = elements_end(c) \/ At(c, elements_begin)
         /\ PassedBefore(b, c, X, elements_begin) = {}
<1>1. /\ Len(c) \in Nat
      /\ X \in SUBSET Int
      /\ \A e \in Int : e \in X <=> \E j \in 1 .. Len(c) : first(c[j]) <= e /\ e <= last(c[j])
  BY DEF Course
<1> DEFINE p == elements_begin
<1>2. p.saltator = 1 /\ p.reptator = 0 /\ p = [saltator |-> 1, reptator |-> 0]
  BY DEF elements_begin
<1>3. CASE Len(c) = 0
  <2>1. p = elements_end(c)
    BY <1>2, <1>3 DEF elements_end
  <2>2. X = {}
    BY <1>1, <1>3
  <2> QED BY <2>1, <2>2 DEF PassedBefore
<1>4. CASE Len(c) # 0
  <2>1. 1 \in 1 .. Len(c)
    BY <1>1, <1>4
  <2>2. At(c, p)
    <3>1. /\ first(c[1]) \in Int /\ last(c[1]) \in Int /\ first(c[1]) <= last(c[1])
          /\ length(c[1]) = last(c[1]) - first(c[1]) + 1
      BY <2>1 DEF Course
    <3>2. 0 < length(c[1])
      BY <3>1
    <3> QED BY <1>2, <2>1, <3>2 DEF At
  <2>3. p # elements_end(c)
    BY <1>1, <1>2, <1>4 DEF elements_end
  <2>4. dereference(b, c, p) = Near(b, c[1])
    <3>1. first(c[1]) \in Int /\ last(c[1]) \in Int
      BY <2>1 DEF Course
    <3> QED BY <1>2, <3>1 DEF dereference, Near
  <2>5. \A e \in X : ~ Ahead(b, e, Near(b, c[1]))
    BY <2>1, CourseGoesOn
  <2> HIDE DEF p
  <2>6. PassedBefore(b, c, X, p) = {}
    BY <2>3, <2>4, <2>5 DEF PassedBefore
  <2> QED BY <2>2, <2>6 DEF p
<1> QED BY <1>3, <1>4

\* An increment passes the element at which the iterator stands, and no other,
\* and a decrement undoes it.
LEMMA IterationGoesOn ==
  ASSUME NEW b, NEW c, NEW X, Course(b, c, X), NEW p, At(c, p)
  PROVE  LET d == dereference(b, c, p)
             r == increment(c, p)
         IN /\ r = elements_end(c) \/ At(c, r)
            /\ decrement(c, r) = p
            /\ d \in X /\ d \notin PassedBefore(b, c, X, p)
            /\ PassedBefore(b, c, X, r) = PassedBefore(b, c, X, p) \cup {d}
<1> DEFINE s == p.saltator
           t == p.reptator
           i == c[s]
           d == dereference(b, c, p)
           r == increment(c, p)
<1>1. /\ p = [saltator |-> s, reptator |-> t] /\ s \in 1 .. Len(c) /\ t \in Nat
      /\ t < length(i)
  BY DEF At
<1>2. /\ b \in BOOLEAN /\ Len(c) \in Nat /\ X \in SUBSET Int
      /\ first(i) \in Int /\ last(i) \in Int /\ first(i) <= last(i)
      /\ length(i) = last(i) - first(i) + 1
      /\ \A e \in Int : first(i) <= e /\ e <= last(i) => e \in X
  BY <1>1 DEF Course
<1>3. d = IF b THEN last(i) - t ELSE first(i) + t
  BY DEF dereference
<1>4. d \in X /\ d \in Int
  <2> HIDE DEF d, i, t
  <2> QED BY <1>1, <1>2, <1>3
<1>5. p # elements_end(c)
  BY <1>1, <1>2 DEF elements_end
<1>6. \A e \in X : e \in PassedBefore(b, c, X, p) <=> Ahead(b, e, d)
  BY <1>5 DEF PassedBefore
<1>7. PassedBefore(b, c, X, p) \in SUBSET X /\ PassedBefore(b, c, X, r) \in SUBSET X
  BY DEF PassedBefore
<1>8. ~ Ahead(b, d, d)
  BY <1>4 DEF Ahead
<1>9. CASE t < length(i) - 1
  <2>1. r = [saltator |-> s, reptator |-> t + 1]
    BY <1>1, <1>9 DEF increment
  <2>2. At(c, r)
    <3>1. t + 1 \in Nat /\ t + 1 < length(i)
      BY <1>1, <1>2, <1>9
    <3> HIDE DEF r
    <3>2. r.saltator = s /\ r.reptator = t + 1
      BY <2>1
    <3>3. r \in [saltator : 1 .. Len(c), reptator : Nat]
      BY <1>1, <2>1, <3>1
    <3> QED BY <3>1, <3>2, <3>3 DEF At
  <2>3. decrement(c, r) = p
    <3> HIDE DEF r
    <3>1. r.saltator = s /\ r.reptator = t + 1
      BY <2>1
    <3>2. 0 < t + 1 /\ (t + 1) - 1 = t
      BY <1>1
    <3>3. decrement(c, r) = [r EXCEPT !.reptator = r.reptator - 1]
      BY <3>1, <3>2 DEF decrement
    <3>4. [r EXCEPT !.reptator = r.reptator - 1] = [saltator |-> s, reptator |-> t]
      BY <2>1, <3>2
    <3> QED BY <1>1, <3>3, <3>4
  <2>4. r # elements_end(c)
    BY <1>1, <1>2, <2>1 DEF elements_end
  <2>5. dereference(b, c, r) = IF b THEN d - 1 ELSE d + 1
    <3> HIDE DEF r
    <3>1. r.saltator = s /\ r.reptator = t + 1
      BY <2>1
    <3>2. dereference(b, c, r) = IF b THEN last(i) - (t + 1) ELSE first(i) + (t + 1)
      BY <3>1 DEF dereference
    <3> HIDE DEF i, d, t
    <3> QED BY <1>1, <1>2, <1>3, <3>2
  <2>6. \A e \in X : e \in PassedBefore(b, c, X, r) <=> e = d \/ Ahead(b, e, d)
    <3>1. \A e \in X : e \in PassedBefore(b, c, X, r) <=> Ahead(b, e, dereference(b, c, r))
      BY <2>4 DEF PassedBefore
    <3> HIDE DEF d, r
    <3>2. \A e \in X : Ahead(b, e, dereference(b, c, r)) <=> e = d \/ Ahead(b, e, d)
      BY <1>2, <1>4, <2>5 DEF Ahead
    <3> QED BY <3>1, <3>2
  <2> HIDE DEF d, r
  <2> QED BY <1>4, <1>6, <1>7, <1>8, <2>2, <2>3, <2>6 DEF d, r
<1>10. CASE ~ (t < length(i) - 1)
  <2>1. r = [saltator |-> s + 1, reptator |-> 0]
    BY <1>1, <1>10 DEF increment
  <2>2. t = length(i) - 1
    BY <1>1, <1>2, <1>10
  <2>3. d = Far(b, i)
    <3> HIDE DEF d, t, i
    <3> QED BY <1>2, <1>3, <2>2 DEF Far
  <2>4. decrement(c, r) = p
    <3> HIDE DEF r
    <3>1. r.saltator = s + 1 /\ r.reptator = 0 /\ (s + 1) - 1 = s
      BY <1>1, <2>1
    <3>2. decrement(c, r) = [saltator |-> (s + 1) - 1, reptator |-> length(c[(s + 1) - 1]) - 1]
      BY <3>1 DEF decrement
    <3>3. decrement(c, r) = [saltator |-> s, reptator |-> length(i) - 1]
      BY <3>1, <3>2
    <3> QED BY <1>1, <2>2, <3>3
  <2>5. s + 1 \in 1 .. Len(c) \/ s = Len(c)
    BY <1>1, <1>2
  <2>6. CASE s = Len(c)
    <3>1. r = elements_end(c)
      BY <2>1, <2>6 DEF elements_end
    <3>2. \A e \in X : e = d \/ Ahead(b, e, d)
      BY <1>1, <2>3, <2>6, CourseGoesOn
    <3>3. PassedBefore(b, c, X, r) = X
      BY <3>1 DEF PassedBefore
    <3> HIDE DEF d, r
    <3> QED BY <1>4, <1>6, <1>7, <1>8, <2>4, <3>1, <3>2, <3>3 DEF d, r
  <2>7. CASE s + 1 \in 1 .. Len(c)
    <3>1. /\ first(c[s + 1]) \in Int /\ last(c[s + 1]) \in Int
          /\ first(c[s + 1]) <= last(c[s + 1])
          /\ length(c[s + 1]) = last(c[s + 1]) - first(c[s + 1]) + 1
      BY <2>7 DEF Course
    <3> HIDE DEF r
    <3>2. r.saltator = s + 1 /\ r.reptator = 0
      BY <2>1
    <3>3. At(c, r)
      <4>1. 0 < length(c[s + 1])
        BY <3>1
      <4>2. r \in [saltator : 1 .. Len(c), reptator : Nat]
        BY <2>1, <2>7
      <4> QED BY <3>2, <4>1, <4>2 DEF At
    <3>4. dereference(b, c, r) = Near(b, c[s + 1])
      BY <3>1, <3>2 DEF dereference, Near
    <3>5. r # elements_end(c)
      BY <1>2, <2>7, <3>2 DEF elements_end
    <3>6. \A e \in X : e \in PassedBefore(b, c, X, r) <=> e = d \/ Ahead(b, e, d)
      <4>1. \A e \in X : e \in PassedBefore(b, c, X, r) <=> Ahead(b, e, Near(b, c[s + 1]))
        BY <3>4, <3>5 DEF PassedBefore
      <4> QED BY <1>1, <2>3, <2>7, <4>1, CourseGoesOn
    <3> HIDE DEF d
    <3> QED BY <1>4, <1>6, <1>7, <1>8, <2>4, <3>3, <3>6 DEF d, r
  <2> QED BY <2>5, <2>6, <2>7
<1> QED BY <1>1, <1>2, <1>9, <1>10

\* The positions of an iterator.
Positions == [saltator : Nat, reptator : Nat]

\* The positions h of a walk of n increments.
Walked(h, c, n) == h[0] = elements_begin /\ \A k \in 1 .. n : h[k] = increment(c, h[k - 1])

\* There is such a walk.
LEMMA SomeWalk ==
  ASSUME NEW c, NEW n \in Nat
  PROVE  \E h \in [0 .. n -> Positions] : Walked(h, c, n)
<1> DEFINE D == Positions
           Q == {0}
           q == [k \in 1 .. n |-> 0]
           g == [x \in D \X Q |-> increment(c, x[1])]
<1>1. \A p \in D : increment(c, p) \in D
  BY DEF increment, Positions
<1>2. g \in [D \X Q -> D]
  <2>1. \A x \in D \X Q : increment(c, x[1]) \in D
    BY <1>1
  <2> QED BY <2>1, Zenon
<1>3. \A p \in D, t \in Q : g[<<p, t>>] = increment(c, p)
  <2> HIDE DEF D, Q
  <2> QED OBVIOUS
<1>4. q \in Seq(Q) /\ Len(q) = n
  OBVIOUS
<1>5. elements_begin \in D
  BY DEF elements_begin, Positions
<1> HIDE DEF D, Q, q, g
<1>6. PICK it \in [SUBSET DOMAIN q -> D] : Solves(it, D, Q, g, elements_begin, q)
  BY <1>2, <1>4, <1>5, FoldSolved
<1>7. SolvesWithin(it, D, g, elements_begin, q)
  BY <1>6 DEF Solves, SolvesWithin
<1>8. PICK h \in [0 .. n -> D] : Passes(h, Q, g, elements_begin, q, it[DOMAIN q])
  BY <1>2, <1>4, <1>5, <1>7, FoldStates
<1>9. ASSUME NEW k \in 1 .. n
      PROVE  h[k] = increment(c, h[k - 1])
  <2>1. h[k - 1] \in D
    <3>1. k - 1 \in 0 .. n
      OBVIOUS
    <3> QED BY <1>8, <3>1
  <2> QED BY <1>3, <1>4, <1>8, <2>1 DEF Passes
<1>10. h[0] = elements_begin
  BY <1>8 DEF Passes
<1> QED BY <1>8, <1>9, <1>10 DEF Walked, D

\* Walk is one.
LEMMA WalkIs ==
  ASSUME NEW c, NEW n \in Nat
  PROVE  Walked(Walk(c, n), c, n)
<1> DEFINE p == CHOOSE p : p = [k \in 0 .. n |->
                 IF k = 0 THEN elements_begin ELSE increment(c, p[k - 1])]
<1>1. PICK h \in [0 .. n -> Positions] : Walked(h, c, n)
  BY SomeWalk
<1>2. h = [k \in 0 .. n |-> IF k = 0 THEN elements_begin ELSE increment(c, h[k - 1])]
  <2>1. \A k \in 0 .. n : h[k] = IF k = 0 THEN elements_begin ELSE increment(c, h[k - 1])
    BY <1>1 DEF Walked
  <2>2. h = [k \in 0 .. n |-> h[k]]
    OBVIOUS
  <2> QED BY <2>1, <2>2, Zenon
<1>3. p = [k \in 0 .. n |-> IF k = 0 THEN elements_begin ELSE increment(c, p[k - 1])]
  BY <1>2, Zenon
<1>4. Walk(c, n) = p
  BY Zenon DEF Walk
<1> HIDE DEF p
<1>5. p[0] = elements_begin /\ \A k \in 1 .. n : p[k] = increment(c, p[k - 1])
  BY <1>3
<1> QED BY <1>4, <1>5 DEF Walked

\* After k increments k elements are passed, and the iterator stands at another or
\* at the end.
Progress(b, c, X, h, k) ==
  /\ h[k] = elements_end(c) \/ At(c, h[k])
  /\ IsFiniteSet(PassedBefore(b, c, X, h[k])) /\ Cardinality(PassedBefore(b, c, X, h[k])) = k
  /\ \A e : e \in PassedBefore(b, c, X, h[k]) <=>
              \E j \in 1 .. k : e = dereference(b, c, h[j - 1])

\* Before the last element the iterator is not at the end.
LEMMA NotAtEnd ==
  ASSUME NEW b, NEW c, NEW X, NEW h, NEW k, Progress(b, c, X, h, k), Cardinality(X) # k
  PROVE  At(c, h[k])
BY DEF Progress, PassedBefore

\* What an increment does to the progress.
LEMMA ProgressGoesOn ==
  ASSUME NEW b, NEW c, NEW X, Course(b, c, X), NEW n, n = Cardinality(X), n \in Nat,
         NEW h, Walked(h, c, n), NEW k \in 1 .. n, Progress(b, c, X, h, k - 1)
  PROVE  Progress(b, c, X, h, k)
<1> DEFINE p == h[k - 1]
           d == dereference(b, c, p)
           A == PassedBefore(b, c, X, p)
<1>1. At(c, p)
  <2>1. k - 1 # n
    OBVIOUS
  <2> QED BY <2>1, NotAtEnd
<1>2. h[k] = increment(c, p)
  BY DEF Walked
<1>3. /\ h[k] = elements_end(c) \/ At(c, h[k])
      /\ d \notin A
      /\ PassedBefore(b, c, X, h[k]) = A \cup {d}
  BY <1>1, <1>2, IterationGoesOn
<1>4. /\ IsFiniteSet(A) /\ Cardinality(A) = k - 1
      /\ \A e : e \in A <=> \E j \in 1 .. k - 1 : e = dereference(b, c, h[j - 1])
  BY DEF Progress
<1>5. \A j : j \in 1 .. k <=> j \in 1 .. k - 1 \/ j = k
  OBVIOUS
<1>6. \A e : e \in A \cup {d} <=> \E j \in 1 .. k : e = dereference(b, c, h[j - 1])
  <2> HIDE DEF A
  <2> QED BY <1>4, <1>5
<1> HIDE DEF A, d, p
<1>7. IsFiniteSet(A \cup {d}) /\ Cardinality(A \cup {d}) = (k - 1) + 1
  BY <1>3, <1>4, FS_AddElement
<1> QED BY <1>3, <1>6, <1>7 DEF Progress

\* The whole of a walk: to the end, each element once and in order, and every step
\* back undoes the step forward.
WalkPasses(b, c, X, h, n) ==
  /\ h[n] = elements_end(c)
  /\ \A k \in 1 .. n : decrement(c, h[k]) = h[k - 1]
  /\ \A e : e \in X <=> \E k \in 1 .. n : e = dereference(b, c, h[k - 1])
  /\ \A j, k \in 1 .. n : j < k => Ahead(b, dereference(b, c, h[j - 1]), dereference(b, c, h[k - 1]))

\* A walk of as many steps as there are elements is such a walk.
LEMMA WalkIsComplete ==
  ASSUME NEW b, NEW c, NEW X, Course(b, c, X), NEW n, n = Cardinality(X), n \in Nat,
         NEW h, Walked(h, c, n)
  PROVE  WalkPasses(b, c, X, h, n)
<1> DEFINE P == [k \in 0 .. n |-> Progress(b, c, X, h, k)]
<1>1. P \in [0 .. n -> BOOLEAN] /\ \A k \in 0 .. n : P[k] <=> Progress(b, c, X, h, k)
  BY DEF Progress
<1>2. Progress(b, c, X, h, 0)
  <2>1. h[0] = elements_begin
    BY DEF Walked
  <2>2. /\ h[0] = elements_end(c) \/ At(c, h[0])
        /\ PassedBefore(b, c, X, h[0]) = {}
    BY <2>1, IterationBegins
  <2> QED BY <2>2, FS_EmptySet DEF Progress
<1>3. ASSUME NEW k \in 1 .. n, Progress(b, c, X, h, k - 1)
      PROVE  Progress(b, c, X, h, k)
  BY <1>3, ProgressGoesOn
<1> HIDE DEF P
<1>4. P[0]
  BY <1>1, <1>2
<1>5. ASSUME NEW k \in 1 .. n, P[k - 1]
      PROVE  P[k]
  <2>1. k - 1 \in 0 .. n /\ k \in 0 .. n
    OBVIOUS
  <2> QED BY <1>1, <1>3, <1>5, <2>1
<1>6. \A k \in 0 .. n : Progress(b, c, X, h, k)
  <2>1. \A k \in 0 .. n : P[k]
    BY <1>1, <1>4, <1>5, Upwards
  <2> QED BY <1>1, <2>1
<1>7. ASSUME NEW k \in 1 .. n
      PROVE  /\ At(c, h[k - 1]) /\ Progress(b, c, X, h, k - 1)
             /\ h[k] = increment(c, h[k - 1])
  <2>1. k - 1 \in 0 .. n /\ k - 1 # n
    OBVIOUS
  <2> QED BY <1>6, <2>1, NotAtEnd DEF Walked
<1>8. \A k \in 1 .. n : decrement(c, h[k]) = h[k - 1]
  BY <1>7, IterationGoesOn
<1>9. h[n] = elements_end(c)
  <2> SUFFICES ASSUME At(c, h[n])
               PROVE  FALSE
    BY <1>6 DEF Progress
  <2> DEFINE A == PassedBefore(b, c, X, h[n])
             d == dereference(b, c, h[n])
  <2>1. Progress(b, c, X, h, n)
    BY <1>6
  <2>2. Cardinality(A) = n
    BY <2>1 DEF Progress
  <2>3. d \in X /\ d \notin A
    BY IterationGoesOn
  <2>4. A \in SUBSET X /\ IsFiniteSet(X)
    BY DEF PassedBefore, Course
  <2> HIDE DEF A, d
  <2> QED BY <2>2, <2>3, <2>4, FS_Subset
<1>10. \A e : e \in X <=> \E k \in 1 .. n : e = dereference(b, c, h[k - 1])
  <2>1. Progress(b, c, X, h, n)
    BY <1>6
  <2>2. PassedBefore(b, c, X, h[n]) = X
    BY <1>9 DEF PassedBefore
  <2> QED BY <2>1, <2>2 DEF Progress
<1>11. ASSUME NEW j \in 1 .. n, NEW k \in 1 .. n, j < k
       PROVE  Ahead(b, dereference(b, c, h[j - 1]), dereference(b, c, h[k - 1]))
  <2>1. j \in 1 .. k - 1
    BY <1>11
  <2>2. dereference(b, c, h[j - 1]) \in PassedBefore(b, c, X, h[k - 1])
    BY <1>7, <2>1 DEF Progress
  <2>3. h[k - 1] # elements_end(c)
    <3>1. h[k - 1].saltator \in 1 .. Len(c) /\ Len(c) \in Nat
      BY <1>7 DEF At, Course
    <3> QED BY <3>1 DEF elements_end
  <2> QED BY <2>2, <2>3 DEF PassedBefore
<1> QED BY <1>8, <1>9, <1>10, <1>11 DEF WalkPasses

\* The intervals of a set, in order and in reverse, are such a course.
LEMMA CourseOf ==
  ASSUME NEW S, Laid(S), NEW q, q = InOrder(S), NEW X, X = ElementsOf(ToSet(q))
  PROVE  Course(FALSE, q, X) /\ Course(TRUE, Reverse(q), X) /\ Cardinality(X) \in Nat
<1> DEFINE n == Len(q)
           r == Reverse(q)
<1>1. /\ n \in Nat /\ DOMAIN q = 1 .. n
      /\ \A j, k \in 1 .. n : j < k => last(q[j]) < first(q[k])
      /\ \A s \in S : \E k \in 1 .. n : q[k] = s
      /\ \A k \in 1 .. n : /\ q[k] \in S /\ Proper(q[k])
                           /\ first(q[k]) \in Int /\ last(q[k]) \in Int
                           /\ first(q[k]) <= last(q[k])
  BY ListedIs
<1>2. ToSet(q) = S
  BY <1>1 DEF ToSet
<1>3. IsFiniteSet(X) /\ Cardinality(X) \in Nat
  BY <1>2, FinitelyMany DEF Count
<1>4. X \in SUBSET Int /\ \A e \in Int : e \in X <=> Has(S, e)
  <2>1. S \in SUBSET Interval
    BY LaidEnds
  <2> QED BY <1>2, <2>1, ElementsOfIs
<1>5. ASSUME NEW k \in 1 .. n
      PROVE  length(q[k]) = last(q[k]) - first(q[k]) + 1
  <2> DEFINE i == q[k]
  <2>1. Proper(i) /\ first(i) \in Int /\ last(i) \in Int
    BY <1>1
  <2> HIDE DEF i
  <2>2. ~ is_empty(i) /\ i.up \in Int
    BY <2>1, ProperEnds DEF Interval
  <2>3. last_next(i) = last(i) + 1
    BY <2>2 DEF last_next, last
  <2>4. length(i) = last(i) - first(i) + 1
    BY <2>1, <2>2, <2>3 DEF length
  <2> QED BY <2>4 DEF i
<1>6. \A e \in Int : e \in X <=> \E j \in 1 .. n : first(q[j]) <= e /\ e <= last(q[j])
  BY <1>1, <1>4 DEF Has, In
<1>7. /\ Len(r) = n
      /\ \A k \in 1 .. n : r[k] = q[(n - k) + 1] /\ (n - k) + 1 \in 1 .. n
  <2>1. r = [k \in 1 .. n |-> q[(n - k) + 1]]
    BY DEF Reverse
  <2>2. Len(r) = n
    BY <1>1, <2>1
  <2> HIDE DEF r, n
  <2> QED BY <1>1, <2>1, <2>2
<1>8. Course(FALSE, q, X)
  BY <1>1, <1>3, <1>4, <1>5, <1>6 DEF Course
<1>9. Course(TRUE, r, X)
  <2> HIDE DEF n, r
  <2>1. \A j \in 1 .. n : /\ first(r[j]) \in Int /\ last(r[j]) \in Int
                          /\ first(r[j]) <= last(r[j])
                          /\ length(r[j]) = last(r[j]) - first(r[j]) + 1
    BY <1>1, <1>5, <1>7
  <2>2. ASSUME NEW j \in 1 .. n, NEW k \in 1 .. n, j < k
        PROVE  last(r[k]) < first(r[j])
    <3>1. (n - k) + 1 < (n - j) + 1
      BY <1>1, <2>2
    <3> QED BY <1>1, <1>7, <3>1
  <2>3. \A e \in Int : (\E j \in 1 .. n : first(r[j]) <= e /\ e <= last(r[j])) <=>
                       \E j \in 1 .. n : first(q[j]) <= e /\ e <= last(q[j])
    <3>1. \A j \in 1 .. n : \E k \in 1 .. n : q[j] = r[k]
      <4> SUFFICES ASSUME NEW j \in 1 .. n
                   PROVE  \E k \in 1 .. n : q[j] = r[k]
        OBVIOUS
      <4>1. (n - j) + 1 \in 1 .. n /\ (n - ((n - j) + 1)) + 1 = j
        BY <1>1
      <4> QED BY <1>7, <4>1
    <3>2. \A j \in 1 .. n : \E k \in 1 .. n : r[j] = q[k]
      BY <1>7
    <3> QED BY <3>1, <3>2
  <2>4. Len(r) = n /\ n \in Nat
    BY <1>1, <1>7
  <2> QED BY <1>3, <1>4, <1>6, <2>1, <2>2, <2>3, <2>4 DEF Course
<1> QED BY <1>3, <1>8, <1>9

\* The iterators of a container.
LEMMA Iterations ==
  ASSUME ContainerInv
  PROVE  IterationExact
<1> DEFINE S == IF type.set THEN object ELSE KeysOf(object)
           q == InOrder(S)
           X == ElementsOf(ToSet(q))
           n == Cardinality(X)
<1>1. Laid(S)
  <2>1. CASE type.set
    BY <2>1, FitIs DEF ContainerInv, SetInv
  <2>2. CASE ~ type.set
    <3>1. Mapped(object)
      BY <2>2 DEF ContainerInv, MapInv, MapFit
    <3> QED BY <2>2, <3>1, KeysOfIs
  <2> QED BY <2>1, <2>2
<1> HIDE DEF S
<1>2. Course(FALSE, q, X) /\ Course(TRUE, Reverse(q), X) /\ n \in Nat
  BY <1>1, CourseOf
<1> HIDE DEF q, X, n
<1> DEFINE Exact(b, c) ==
             LET p == Walk(c, n)
                 e == [k \in 1 .. n |-> dereference(b, c, p[k - 1])]
             IN /\ p[n] = elements_end(c)
                /\ \A k \in 1 .. n : decrement(c, p[k]) = p[k - 1]
                /\ {e[k] : k \in 1 .. n} = X
                /\ \A j, k \in 1 .. n : j < k => IF b THEN e[k] < e[j] ELSE e[j] < e[k]
<1>3. ASSUME NEW b \in BOOLEAN, NEW c, Course(b, c, X)
      PROVE  Exact(b, c)
  <2> DEFINE p == Walk(c, n)
             e == [k \in 1 .. n |-> dereference(b, c, p[k - 1])]
  <2>1. Walked(p, c, n)
    BY <1>2, WalkIs
  <2> HIDE DEF p
  <2>2. n = Cardinality(X)
    BY DEF n
  <2>3. WalkPasses(b, c, X, p, n)
    BY <1>2, <1>3, <2>1, <2>2, WalkIsComplete
  <2>4. \A k \in 1 .. n : e[k] = dereference(b, c, p[k - 1])
    OBVIOUS
  <2> HIDE DEF e
  <2>5. {e[k] : k \in 1 .. n} = X
    BY <2>3, <2>4 DEF WalkPasses
  <2>6. \A j, k \in 1 .. n : j < k => IF b THEN e[k] < e[j] ELSE e[j] < e[k]
    BY <2>3, <2>4 DEF WalkPasses, Ahead
  <2>7. p[n] = elements_end(c) /\ \A k \in 1 .. n : decrement(c, p[k]) = p[k - 1]
    BY <2>3 DEF WalkPasses
  <2> QED BY <2>5, <2>6, <2>7 DEF p, e
<1> HIDE DEF Exact
<1>4. Exact(FALSE, q) /\ Exact(TRUE, Reverse(q))
  BY <1>2, <1>3
<1> QED BY <1>4, Zenon DEF IterationExact, Exact, S, q, X, n

\* IterationExact: whatever a program has done with a container, an element
\* iterator passes each element once and in order, to the end and in reverse, and
\* a step back undoes a step forward.
THEOREM IterationsAreExact == Spec => []IterationExact
BY ContainerInvariant, Iterations, PTL
=============================================================================
