---------------------------- MODULE ICLSetProofs ----------------------------
(***************************************************************************)
(* Proofs about the operators of ICLInterval and of ICLIntervalSet, for    *)
(* limits, intervals and sets of any size.  They are lemmas, which the     *)
(* proofs about intervals and containers rest on.                          *)
(*                                                                         *)
(* Those about intervals go through one observation: the elements of an    *)
(* interval are the integers from first to last, whatever its bounds.      *)
(* Those about sets say what an operation does to each element.            *)
(***************************************************************************)
EXTENDS ICLIntervalSet, FiniteSetTheorems, WellFoundedInduction,
        SequenceTheorems, TLAPS

(***************************************************************************)
(* What the operators of intervals return: an interval of their type, of   *)
(* these first and last elements.                                          *)
(***************************************************************************)

\* The bounds are four.
LEMMA BoundsAre == Bounds = {Open, LeftOpen, RightOpen, Closed}
BY DEF Bounds, Open, LeftOpen, RightOpen, Closed

-----------------------------------------------------------------------------
\* What a closed or open side does to the first and the last element.
LEMMA Ends ==
  ASSUME NEW i \in Interval
  PROVE  /\ i.lo \in Int /\ i.up \in Int /\ i.b \in Bounds
         /\ first(i) \in Int /\ last(i) \in Int
         /\ first(i) = IF i.b \in {RightOpen, Closed} THEN i.lo ELSE i.lo + 1
         /\ last(i) = IF i.b \in {LeftOpen, Closed} THEN i.up ELSE i.up - 1
BY DEF Interval, first, last, is_left_closed, is_right_closed

\* The elements of an interval are those from its first to its last.
LEMMA ElementsAre ==
  ASSUME NEW i \in Interval
  PROVE  Elements(i) = first(i) .. last(i)
<1>1. ASSUME NEW e \in Elements(i) PROVE e \in first(i) .. last(i)
  BY Ends DEF Elements, Open, LeftOpen, RightOpen, Closed
<1>2. ASSUME NEW e \in first(i) .. last(i) PROVE e \in Elements(i)
  BY Ends DEF Elements, Open, LeftOpen, RightOpen, Closed
<1> QED BY <1>1, <1>2

\* Membership, for the leaves that speak of single elements.
LEMMA Member ==
  ASSUME NEW i \in Interval, NEW e
  PROVE  e \in Elements(i) <=> e \in Int /\ first(i) <= e /\ e <= last(i)
BY ElementsAre, Ends

\* An interval has no element if its last one would lie before its first.
LEMMA NoElements ==
  ASSUME NEW i \in Interval
  PROVE  Elements(i) = {} <=> last(i) < first(i)
<1>1. first(i) \in Int /\ last(i) \in Int
  BY Ends
<1>2. CASE last(i) < first(i)
  <2>1. \A e : e \notin Elements(i)
    BY Member, <1>1, <1>2
  <2> QED BY <2>1, <1>2
<1>3. CASE ~ last(i) < first(i)
  <2>1. first(i) \in Elements(i)
    BY Member, <1>1, <1>3
  <2> QED BY <2>1, <1>3
<1> QED BY <1>2, <1>3

\* is_empty: the last element lies before the first one.
LEMMA EmptyIs ==
  ASSUME NEW i \in Interval
  PROVE  is_empty(i) <=> last(i) < first(i)
BY Ends, BoundsAre DEF is_empty, Open, LeftOpen, RightOpen, Closed

-----------------------------------------------------------------------------
(***************************************************************************)
(* Every interval has the bounds of its type.                              *)
(***************************************************************************)

\* The intervals of a type, which are intervals.
LEMMA OfType ==
  ASSUME NEW t \in Types, NEW i
  PROVE  i \in IntervalOf(t) <=> i \in Interval /\ (t # Dynamic => i.b = t)
BY DEF IntervalOf

\* A constructor keeps the limits; a static type keeps its own bounds.
LEMMA Constructed ==
  ASSUME NEW t \in Types, NEW low \in Int, NEW up \in Int, NEW b \in Bounds
  PROVE  /\ construct(t, low, up, b) \in IntervalOf(t)
         /\ construct(t, low, up, b).lo = low
         /\ construct(t, low, up, b).up = up
         /\ construct(t, low, up, b).b = IF t = Dynamic THEN b ELSE t
BY DEF construct, IntervalOf, Interval, Types, Dynamic

\* A bounded value is a limit and the bit of one side.
LEMMA Bounded ==
  ASSUME NEW low \in Int \X {0, 2}, NEW up \in Int \X {0, 1}
  PROVE  /\ construct_bounded(low, up) \in Interval
         /\ construct_bounded(low, up).lo = low[1]
         /\ construct_bounded(low, up).up = up[1]
         /\ construct_bounded(low, up).b = low[2] + up[2]
BY DEF construct_bounded, Interval, Bounds, Open, Closed

\* The default constructor: an empty interval of the type.
LEMMA IdentityOfType ==
  ASSUME NEW t \in Types
  PROVE  identity_element(t) \in IntervalOf(t) /\ Elements(identity_element(t)) = {}
<1>1. identity_element(t) \in IntervalOf(t)
  BY Constructed DEF identity_element, Bounds, RightOpen, Open, Closed
<1>2. identity_element(t).b \in Bounds
  BY <1>1 DEF IntervalOf, Interval
<1>3. last(identity_element(t)) < first(identity_element(t))
  BY <1>1, OfType, Ends, BoundsAre
     DEF identity_element, construct, Types, Dynamic, Open, LeftOpen, RightOpen, Closed, Bounds
<1> QED BY <1>1, <1>3, OfType, NoElements

-----------------------------------------------------------------------------
(***************************************************************************)
(* Bounded values.  A lower one stands for the first element it admits, an *)
(* upper one for the last.                                                 *)
(***************************************************************************)

LowEnd(p) == IF p[2] = 2 THEN p[1] ELSE p[1] + 1
UpEnd(p) == IF p[2] = 1 THEN p[1] ELSE p[1] - 1

\* construct_bounded: the dynamic interval between two bounded limits.
LEMMA BoundedSpan ==
  ASSUME NEW low \in Int \X {0, 2}, NEW up \in Int \X {0, 1}
  PROVE  /\ construct_bounded(low, up) \in Interval
         /\ construct_bounded(low, up) \in IntervalOf(Dynamic)
         /\ first(construct_bounded(low, up)) = LowEnd(low)
         /\ last(construct_bounded(low, up)) = UpEnd(up)
<1> DEFINE r == construct_bounded(low, up)
<1>1. r \in Interval /\ r.lo = low[1] /\ r.up = up[1] /\ r.b = low[2] + up[2]
  BY Bounded
<1>2. r \in IntervalOf(Dynamic)
  BY <1>1 DEF IntervalOf
<1>3. r.b \in {RightOpen, Closed} <=> low[2] = 2
  BY <1>1 DEF RightOpen, Closed
<1>4. r.b \in {LeftOpen, Closed} <=> up[2] = 1
  BY <1>1 DEF LeftOpen, Closed
<1>5. first(r) = LowEnd(low)
  BY <1>1, <1>3, Ends DEF LowEnd
<1>6. last(r) = UpEnd(up)
  BY <1>1, <1>4, Ends DEF UpEnd
<1> QED BY <1>1, <1>2, <1>5, <1>6

\* The bounded limits of an interval are its first and last element in other words.
LEMMA Sides ==
  ASSUME NEW i \in Interval
  PROVE  /\ bounded_lower(i) \in Int \X {0, 2} /\ LowEnd(bounded_lower(i)) = first(i)
         /\ bounded_upper(i) \in Int \X {0, 1} /\ UpEnd(bounded_upper(i)) = last(i)
         /\ reverse_bounded_lower(i) \in Int \X {0, 1}
         /\ UpEnd(reverse_bounded_lower(i)) = first(i) - 1
         /\ reverse_bounded_upper(i) \in Int \X {0, 2}
         /\ LowEnd(reverse_bounded_upper(i)) = last(i) + 1
BY Ends DEF bounded_lower, bounded_upper, reverse_bounded_lower, reverse_bounded_upper,
            left, right, reverse_left, reverse_right, is_left_closed, is_right_closed,
            LowEnd, UpEnd

\* An interval of a static type, given its limits.
LEMMA StaticSpan ==
  ASSUME NEW t \in Bounds, NEW low \in Int, NEW up \in Int
  PROVE  /\ construct(t, low, up, t) \in Interval
         /\ construct(t, low, up, t) \in IntervalOf(t)
         /\ first(construct(t, low, up, t)) = IF t \in {RightOpen, Closed} THEN low ELSE low + 1
         /\ last(construct(t, low, up, t)) = IF t \in {LeftOpen, Closed} THEN up ELSE up - 1
<1> DEFINE r == construct(t, low, up, t)
<1>1. t \in Types /\ t # Dynamic
  BY DEF Types, Bounds, Open, Closed, Dynamic
<1>2. r \in IntervalOf(t) /\ r.lo = low /\ r.up = up /\ r.b = t
  BY <1>1, Constructed
<1>3. r \in Interval
  BY <1>2 DEF IntervalOf
<1> QED BY <1>2, <1>3, Ends

\* The two sides of an interval of a static type.
LEMMA StaticEnds ==
  ASSUME NEW t \in Bounds, NEW i \in IntervalOf(t)
  PROVE  /\ i \in Interval /\ i.lo \in Int /\ i.up \in Int /\ i.b = t
         /\ first(i) = IF t \in {RightOpen, Closed} THEN i.lo ELSE i.lo + 1
         /\ last(i) = IF t \in {LeftOpen, Closed} THEN i.up ELSE i.up - 1
<1>1. i \in Interval /\ i.b = t
  BY DEF IntervalOf, Bounds, Open, Closed, Dynamic
<1> QED BY <1>1, Ends

-----------------------------------------------------------------------------
(***************************************************************************)
(* The algebra.                                                            *)
(***************************************************************************)

\* exclusive_less, by first and last elements.
LEMMA ExclusiveIs ==
  ASSUME NEW v \in Interval, NEW w \in Interval
  PROVE  exclusive_less(v, w) <=>
           last(v) < first(v) \/ last(w) < first(w) \/ last(v) < first(w)
BY EmptyIs DEF exclusive_less

\* The five types.
LEMMA TypesDiffer ==
  /\ Dynamic # Closed /\ Dynamic # Open /\ Closed # Open
  /\ \A t \in {LeftOpen, RightOpen} : t # Dynamic /\ t # Closed /\ t # Open
  /\ Types = {Dynamic, Closed, Open, LeftOpen, RightOpen}
  /\ \A t \in Types : t # Dynamic => t \in Bounds
BY DEF Dynamic, Open, LeftOpen, RightOpen, Closed, Types, Bounds

\* What the overloads of left_subtract return when the minuend is not left of v.
LEMMA LeftSubtractCases ==
  ASSUME NEW t \in Types, NEW v, NEW w, ~ exclusive_less(w, v)
  PROVE  LET r == left_subtract(t, v, w)
         IN /\ t = Dynamic =>
                 r = construct_bounded(reverse_bounded_upper(w), bounded_upper(v))
            /\ t = Closed /\ upper_less_equal(v, w) => r = identity_element(t)
            /\ t = Closed /\ ~ upper_less_equal(v, w) => r = construct(t, w.up + 1, v.up, t)
            /\ t = Open => r = construct(t, w.up - 1, v.up, t)
            /\ t \in {LeftOpen, RightOpen} => r = construct(t, w.up, v.up, t)
BY TypesDiffer DEF left_subtract

\* The branch of right_subtract that each type takes.
LEMMA RightSubtractCases ==
  ASSUME NEW t \in Types, NEW v, NEW w, ~ exclusive_less(v, w)
  PROVE  LET r == right_subtract(t, v, w)
         IN /\ t = Dynamic =>
                 r = construct_bounded(bounded_lower(v), reverse_bounded_lower(w))
            /\ t = Closed /\ lower_less_equal(w, v) => r = identity_element(t)
            /\ t = Closed /\ ~ lower_less_equal(w, v) => r = construct(t, v.lo, w.lo - 1, t)
            /\ t = Open => r = construct(t, v.lo, w.lo + 1, t)
            /\ t \in {LeftOpen, RightOpen} => r = construct(t, v.lo, w.lo, t)
BY TypesDiffer DEF right_subtract

\* What is left of v when the minuend w is not left of it: the elements from
\* the one after the last of w.
LEMMA LeftSubtractEnds ==
  ASSUME NEW t \in Types, NEW v \in IntervalOf(t), NEW w \in IntervalOf(t),
         ~ exclusive_less(w, v)
  PROVE  LET r == left_subtract(t, v, w)
         IN /\ r \in IntervalOf(t)
            /\ \/ first(r) = last(w) + 1 /\ last(r) = last(v)
               \/ Elements(r) = {} /\ last(v) <= last(w)
<1>0. v \in Interval /\ w \in Interval
  BY OfType
<1>1. CASE t = Dynamic
  <2>1. left_subtract(t, v, w) = construct_bounded(reverse_bounded_upper(w), bounded_upper(v))
    BY <1>1, LeftSubtractCases
  <2> QED BY <1>0, <1>1, <2>1, BoundedSpan, Sides
<1>2. CASE t = Closed /\ upper_less_equal(v, w)
  <2>1. left_subtract(t, v, w) = identity_element(t)
    BY <1>2, LeftSubtractCases
  <2>2. last(v) <= last(w)
    BY <1>0, <1>2, Ends DEF upper_less_equal, upper_less, upper_equal
  <2> QED BY <2>1, <2>2, IdentityOfType
<1>3. CASE t # Dynamic /\ ~ (t = Closed /\ upper_less_equal(v, w))
  <2>1. t \in Bounds
    BY <1>3, TypesDiffer
  <2>2. PICK low \in Int : /\ left_subtract(t, v, w) = construct(t, low, v.up, t)
                           /\ (IF t \in {RightOpen, Closed} THEN low ELSE low + 1) = last(w) + 1
    <3>1. w.up \in Int /\ last(w) = IF t \in {LeftOpen, Closed} THEN w.up ELSE w.up - 1
      BY <2>1, StaticEnds
    <3>2. CASE t = Closed
      BY <1>3, <2>1, <3>1, <3>2, LeftSubtractCases
    <3>3. CASE t = Open
      BY <2>1, <3>1, <3>3, LeftSubtractCases DEF Open, LeftOpen, RightOpen, Closed
    <3>4. CASE t \in {LeftOpen, RightOpen}
      BY <2>1, <3>1, <3>4, LeftSubtractCases DEF LeftOpen, RightOpen, Closed
    <3> QED BY <1>3, <3>2, <3>3, <3>4, TypesDiffer
  <2> QED BY <2>1, <2>2, StaticSpan, StaticEnds
<1> QED BY <1>1, <1>2, <1>3

\* The elements before the first of w.
LEMMA RightSubtractEnds ==
  ASSUME NEW t \in Types, NEW v \in IntervalOf(t), NEW w \in IntervalOf(t),
         ~ exclusive_less(v, w)
  PROVE  LET r == right_subtract(t, v, w)
         IN /\ r \in IntervalOf(t)
            /\ \/ first(r) = first(v) /\ last(r) = first(w) - 1
               \/ Elements(r) = {} /\ first(w) <= first(v)
<1>0. v \in Interval /\ w \in Interval
  BY OfType
<1>1. CASE t = Dynamic
  <2>1. right_subtract(t, v, w) = construct_bounded(bounded_lower(v), reverse_bounded_lower(w))
    BY <1>1, RightSubtractCases
  <2> QED BY <1>0, <1>1, <2>1, BoundedSpan, Sides
<1>2. CASE t = Closed /\ lower_less_equal(w, v)
  <2>1. right_subtract(t, v, w) = identity_element(t)
    BY <1>2, RightSubtractCases
  <2>2. first(w) <= first(v)
    BY <1>0, <1>2, Ends DEF lower_less_equal, lower_less, lower_equal
  <2> QED BY <2>1, <2>2, IdentityOfType
<1>3. CASE t # Dynamic /\ ~ (t = Closed /\ lower_less_equal(w, v))
  <2>1. t \in Bounds
    BY <1>3, TypesDiffer
  <2>2. PICK up \in Int : /\ right_subtract(t, v, w) = construct(t, v.lo, up, t)
                          /\ (IF t \in {LeftOpen, Closed} THEN up ELSE up - 1) = first(w) - 1
    <3>1. w.lo \in Int /\ first(w) = IF t \in {RightOpen, Closed} THEN w.lo ELSE w.lo + 1
      BY <2>1, StaticEnds
    <3>2. CASE t = Closed
      BY <1>3, <2>1, <3>1, <3>2, RightSubtractCases
    <3>3. CASE t = Open
      BY <2>1, <3>1, <3>3, RightSubtractCases DEF Open, LeftOpen, RightOpen, Closed
    <3>4. CASE t \in {LeftOpen, RightOpen}
      BY <2>1, <3>1, <3>4, RightSubtractCases DEF LeftOpen, RightOpen, Closed
    <3> QED BY <1>3, <3>2, <3>3, <3>4, TypesDiffer
  <2> QED BY <2>1, <2>2, StaticSpan, StaticEnds
<1> QED BY <1>1, <1>2, <1>3

\* The intersection of two intervals that are not empty.
LEMMA IntersectionEnds ==
  ASSUME NEW t \in Types, NEW v \in IntervalOf(t), NEW w \in IntervalOf(t),
         ~ is_empty(v), ~ is_empty(w)
  PROVE  LET r == Intersection(t, v, w)
         IN /\ r \in IntervalOf(t)
            /\ first(r) = MaxOf(first(v), first(w))
            /\ last(r) = MinOf(last(v), last(w))
<1>0. v \in Interval /\ w \in Interval
  BY OfType
<1>1. CASE t = Dynamic
  <2>1. Intersection(t, v, w) = construct_bounded(lower_max(v, w), upper_min(v, w))
    BY <1>1 DEF Intersection
  <2>2. /\ lower_max(v, w) \in Int \X {0, 2}
        /\ LowEnd(lower_max(v, w)) = MaxOf(first(v), first(w))
    BY <1>0, Sides DEF lower_max, lower_less, MaxOf
  <2>3. /\ upper_min(v, w) \in Int \X {0, 1}
        /\ UpEnd(upper_min(v, w)) = MinOf(last(v), last(w))
    BY <1>0, Sides DEF upper_min, upper_less, MinOf
  <2> QED BY <1>1, <2>1, <2>2, <2>3, BoundedSpan
<1>2. CASE t # Dynamic
  <2>1. t \in Bounds
    BY <1>2, TypesDiffer
  <2>2. Intersection(t, v, w) = construct(t, MaxOf(v.lo, w.lo), MinOf(v.up, w.up), t)
    BY <1>2 DEF Intersection
  <2>3. MaxOf(v.lo, w.lo) \in Int /\ MinOf(v.up, w.up) \in Int
    BY <2>1, StaticEnds DEF MaxOf, MinOf
  <2> QED BY <2>1, <2>2, <2>3, StaticSpan, StaticEnds DEF MaxOf, MinOf
<1> QED BY <1>1, <1>2

\* The hull of two intervals that are not empty.
LEMMA HullEnds ==
  ASSUME NEW t \in Types, NEW v \in IntervalOf(t), NEW w \in IntervalOf(t),
         ~ is_empty(v), ~ is_empty(w)
  PROVE  LET r == hull(t, v, w)
         IN /\ r \in IntervalOf(t)
            /\ first(r) = MinOf(first(v), first(w))
            /\ last(r) = MaxOf(last(v), last(w))
<1>0. v \in Interval /\ w \in Interval
  BY OfType
<1>1. CASE t = Dynamic
  <2>1. hull(t, v, w) = construct_bounded(lower_min(v, w), upper_max(v, w))
    BY <1>1 DEF hull
  <2>2. /\ lower_min(v, w) \in Int \X {0, 2}
        /\ LowEnd(lower_min(v, w)) = MinOf(first(v), first(w))
    BY <1>0, Sides DEF lower_min, lower_less, MinOf
  <2>3. /\ upper_max(v, w) \in Int \X {0, 1}
        /\ UpEnd(upper_max(v, w)) = MaxOf(last(v), last(w))
    BY <1>0, Sides DEF upper_max, upper_less, MaxOf
  <2> QED BY <1>1, <2>1, <2>2, <2>3, BoundedSpan
<1>2. CASE t # Dynamic
  <2>1. t \in Bounds
    BY <1>2, TypesDiffer
  <2>2. hull(t, v, w) = construct(t, MinOf(v.lo, w.lo), MaxOf(v.up, w.up), t)
    BY <1>2 DEF hull
  <2>3. MinOf(v.lo, w.lo) \in Int /\ MaxOf(v.up, w.up) \in Int
    BY <2>1, StaticEnds DEF MaxOf, MinOf
  <2> QED BY <2>1, <2>2, <2>3, StaticSpan, StaticEnds DEF MaxOf, MinOf
<1> QED BY <1>1, <1>2

\* What BetweenOrdered returns for the static types.
LEMMA BetweenCases ==
  ASSUME NEW t \in Types, NEW v, NEW w
  PROVE  LET r == BetweenOrdered(t, v, w)
         IN /\ t = Dynamic =>
                 r = right_subtract(t, left_subtract(t, hull(t, v, w), v), w)
            /\ t = Closed => r = construct(t, v.up + 1, w.lo - 1, t)
            /\ t = Open => r = construct(t, last(v), first(w), t)
            /\ t \in {LeftOpen, RightOpen} => r = construct(t, v.up, w.lo, t)
BY TypesDiffer DEF BetweenOrdered

\* The gap between two intervals of which the first ends before the second
\* begins.  The gap between neighbours is empty.
LEMMA BetweenEnds ==
  ASSUME NEW t \in Types, NEW v \in IntervalOf(t), NEW w \in IntervalOf(t),
         ~ is_empty(v), ~ is_empty(w), last(v) < first(w)
  PROVE  LET r == BetweenOrdered(t, v, w)
         IN /\ r \in IntervalOf(t)
            /\ \/ first(r) = last(v) + 1 /\ last(r) = first(w) - 1
               \/ Elements(r) = {} /\ first(w) <= last(v) + 1
<1>0. v \in Interval /\ w \in Interval
  BY OfType
<1>e. /\ first(v) \in Int /\ last(v) \in Int /\ first(v) <= last(v)
      /\ first(w) \in Int /\ last(w) \in Int /\ first(w) <= last(w)
  BY <1>0, Ends, EmptyIs
<1>1. CASE t = Dynamic
  <2> DEFINE h == hull(t, v, w)
             q == left_subtract(t, h, v)
  <2>1. h \in IntervalOf(t) /\ h \in Interval /\ first(h) = first(v) /\ last(h) = last(w)
    BY <1>e, HullEnds, OfType DEF MinOf, MaxOf
  <2>2. ~ exclusive_less(v, h)
    BY <1>0, <1>e, <2>1, ExclusiveIs
  <2>3. q \in IntervalOf(t) /\ q \in Interval
    BY <2>1, <2>2, LeftSubtractEnds, OfType
  <2>4. first(q) = last(v) + 1 /\ last(q) = last(w)
    BY <1>e, <2>1, <2>2, LeftSubtractEnds
  <2>5. ~ exclusive_less(q, w)
    BY <1>0, <1>e, <2>3, <2>4, ExclusiveIs
  <2>6. BetweenOrdered(t, v, w) = right_subtract(t, q, w)
    BY <1>1, BetweenCases
  <2> HIDE DEF q
  <2> QED BY <2>3, <2>4, <2>5, <2>6, RightSubtractEnds
<1>2. CASE t # Dynamic
  <2>1. t \in Bounds
    BY <1>2, TypesDiffer
  <2>2. PICK low \in Int, up \in Int :
          /\ BetweenOrdered(t, v, w) = construct(t, low, up, t)
          /\ (IF t \in {RightOpen, Closed} THEN low ELSE low + 1) = last(v) + 1
          /\ (IF t \in {LeftOpen, Closed} THEN up ELSE up - 1) = first(w) - 1
    <3>1. /\ v.up \in Int /\ last(v) = IF t \in {LeftOpen, Closed} THEN v.up ELSE v.up - 1
          /\ w.lo \in Int /\ first(w) = IF t \in {RightOpen, Closed} THEN w.lo ELSE w.lo + 1
      BY <2>1, StaticEnds
    <3>2. CASE t = Closed
      BY <3>1, <3>2, BetweenCases
    <3>3. CASE t = Open
      BY <1>e, <3>1, <3>3, BetweenCases DEF Open, LeftOpen, RightOpen, Closed
    <3>4. CASE t \in {LeftOpen, RightOpen}
      BY <3>1, <3>4, BetweenCases DEF LeftOpen, RightOpen, Closed
    <3> QED BY <1>2, <3>2, <3>3, <3>4, TypesDiffer
  <2> QED BY <2>1, <2>2, StaticSpan
<1> QED BY <1>1, <1>2

-----------------------------------------------------------------------------
(***************************************************************************)
(* The intervals that the constructors make of points.                     *)
(***************************************************************************)

\* construct with limits for a closed interval, moved outwards where the type
\* is open: what singleton and the hull of two points do.
LEMMA PointsExact ==
  ASSUME NEW t \in Types, NEW low \in Int, NEW up \in Int, NEW r,
         r = construct(t, IF t \in {LeftOpen, Open} THEN low - 1 ELSE low,
                          IF t \in {RightOpen, Open} THEN up + 1 ELSE up, Closed)
  PROVE  r \in IntervalOf(t) /\ Elements(r) = low .. up
<1> DEFINE l == IF t \in {LeftOpen, Open} THEN low - 1 ELSE low
           u == IF t \in {RightOpen, Open} THEN up + 1 ELSE up
<1>1. l \in Int /\ u \in Int /\ Closed \in Bounds
  BY DEF Bounds, Open, Closed
<1>2. /\ r \in IntervalOf(t) /\ r.lo = l /\ r.up = u
      /\ r.b = IF t = Dynamic THEN Closed ELSE t
  <2>1. r = construct(t, l, u, Closed)
    OBVIOUS
  <2> HIDE DEF l, u
  <2> QED BY <1>1, <2>1, Constructed
<1>3. r \in Interval
  BY <1>2, OfType
<1>4. first(r) = low
  BY <1>2, <1>3, Ends DEF Types, Bounds, Dynamic, Open, LeftOpen, RightOpen, Closed
<1>5. last(r) = up
  BY <1>2, <1>3, Ends DEF Types, Bounds, Dynamic, Open, LeftOpen, RightOpen, Closed
<1> QED BY <1>2, <1>3, <1>4, <1>5, ElementsAre

\* singleton has one element.
LEMMA SingletonExact ==
  ASSUME NEW t \in Types, NEW v \in Int
  PROVE  singleton(t, v) \in IntervalOf(t) /\ Elements(singleton(t, v)) = {v}
<1> DEFINE r == singleton(t, v)
<1>1. r \in IntervalOf(t) /\ Elements(r) = v .. v
  BY PointsExact DEF singleton
<1> QED BY <1>1

-----------------------------------------------------------------------------
(***************************************************************************)
(* Numbers.                                                                *)
(***************************************************************************)

\* A nonempty set of naturals has a least element.
LEMMA LeastOf ==
  ASSUME NEW S \in SUBSET Nat, S # {}
  PROVE  \E m \in S : \A x \in S : m <= x
<1> DEFINE R == {ss \in Nat \X Nat : ss[1] < ss[2]}
<1>1. R = OpToRel(<, Nat)
  BY Zenon DEF OpToRel
<1>2. IsWellFoundedOn(R, Nat)
  BY <1>1, NatLessThanWellFounded, Zenon
<1> HIDE DEF R
<1>3. PICK m \in S : \A x \in S : ~ (<<x, m>> \in R)
  BY <1>2, WFMin, Zenon
<1>4. ASSUME NEW x \in S
      PROVE  m <= x
  <2>1. ~ (<<x, m>> \in R)
    BY <1>3
  <2>2. ~ (x < m)
    BY <2>1 DEF R
  <2> QED BY <2>2
<1> QED BY <1>4

\* What holds at 0 and passes from each number to the next holds up to n.
LEMMA Upwards ==
  ASSUME NEW n \in Nat, NEW P \in [0 .. n -> BOOLEAN], P[0],
         \A k \in 1 .. n : P[k - 1] => P[k]
  PROVE  \A k \in 0 .. n : P[k]
<1> SUFFICES ASSUME NEW k \in 0 .. n, ~ P[k]
             PROVE  FALSE
  OBVIOUS
<1> DEFINE F == {j \in 0 .. n : ~ P[j]}
<1>1. F \in SUBSET Nat /\ F # {}
  OBVIOUS
<1>2. PICK m \in F : \A j \in F : m <= j
  BY <1>1, LeastOf
<1>3. m \in 1 .. n /\ ~ P[m]
  BY <1>2
<1>4. m - 1 \in 0 .. n /\ ~ (m <= m - 1)
  BY <1>3
<1>5. P[m - 1]
  BY <1>2, <1>4
<1> QED BY <1>3, <1>5

\* The greatest of the numbers up to n.
LEMMA MaxUpTo ==
  ASSUME NEW n \in Nat, NEW s \in SUBSET (1 .. n), n \in s
  PROVE  Max(s) = n
<1>1. \A y \in s : y \in Int /\ n >= y
  OBVIOUS
<1>2. \A x \in s : (\A y \in s : x >= y) => x = n
  BY <1>1
<1>3. n \in s /\ (\A y \in s : n >= y)
  BY <1>1
<1>4. Max(s) \in s /\ (\A y \in s : Max(s) >= y)
  BY <1>3 DEF Max
<1> QED BY <1>2, <1>4

\* A nonempty set of numbers up to n has a greatest one.
LEMMA MaxIn ==
  ASSUME NEW n \in Nat, NEW s \in SUBSET (1 .. n), s # {}
  PROVE  Max(s) \in s
<1> DEFINE D == {n - x : x \in s}
<1>1. D \in SUBSET Nat /\ D # {}
  <2>1. \A x \in s : x \in 1 .. n
    OBVIOUS
  <2>2. \A x \in 1 .. n : n - x \in Nat
    OBVIOUS
  <2> QED BY <2>1, <2>2
<1>2. PICK m \in D : \A y \in D : m <= y
  BY <1>1, LeastOf
<1>3. PICK x \in s : m = n - x
  BY <1>2
<1>4. \A y \in s : n - y \in D
  OBVIOUS
<1>5. \A y \in s : n - x <= n - y
  BY <1>2, <1>3, <1>4
<1>6. \A y \in s : y \in Int
  OBVIOUS
<1>7. \A y \in s : x >= y
  BY <1>5, <1>6
<1> QED BY <1>7 DEF Max

-----------------------------------------------------------------------------
(***************************************************************************)
(* Loops.  FoldLeft is the value, at all positions, of a function chosen   *)
(* for its equation on sets of positions.  There is such a function        *)
(* whenever the step stays within a set D of states, and the states that   *)
(* the loop passes are its values at 1 .. k.                               *)
(***************************************************************************)

\* it solves the equation of a fold over q, whose step is the function g.
Solution(it, n, g, x, q) ==
  \A s \in SUBSET (1 .. n) :
    it[s] = IF s = {} THEN x ELSE g[<<it[s \ {Max(s)}], q[Max(s)]>>]

\* The equation of a fold has a solution: it is extended by one position at a
\* time.
LEMMA FoldExists ==
  ASSUME NEW D, NEW Q, NEW g \in [D \X Q -> D], NEW x \in D,
         NEW n \in Nat, NEW q \in [1 .. n -> Q]
  PROVE  \E it \in [SUBSET (1 .. n) -> D] : Solution(it, n, g, x, q)
<1> DEFINE Solves(it, m) ==
             \A s \in SUBSET (1 .. m) :
               it[s] = IF s = {} THEN x ELSE g[<<it[s \ {Max(s)}], q[Max(s)]>>]
           Solvable(m) == \E it \in [SUBSET (1 .. m) -> D] : Solves(it, m)
           P == [m \in 0 .. n |-> Solvable(m)]
<1>1. P \in [0 .. n -> BOOLEAN] /\ \A m \in 0 .. n : P[m] = Solvable(m)
  OBVIOUS
<1> HIDE DEF P
<1>2. P[0]
  <2> DEFINE it == [s \in SUBSET (1 .. 0) |-> x]
  <2>1. \A s \in SUBSET (1 .. 0) : s = {}
    OBVIOUS
  <2>2. it \in [SUBSET (1 .. 0) -> D]
    OBVIOUS
  <2>3. Solves(it, 0)
    BY <2>1
  <2> HIDE DEF it
  <2>4. Solvable(0)
    BY <2>2, <2>3
  <2> HIDE DEF Solvable
  <2> QED BY <1>1, <2>4
<1>3. ASSUME NEW m \in 1 .. n, P[m - 1]
      PROVE  P[m]
  <2>1. PICK old \in [SUBSET (1 .. m - 1) -> D] : Solves(old, m - 1)
    <3>1. m - 1 \in 0 .. n
      OBVIOUS
    <3>2. Solvable(m - 1)
      BY <1>1, <1>3, <3>1
    <3> QED BY <3>2
  <2> DEFINE it == [s \in SUBSET (1 .. m) |->
                      IF m \in s THEN g[<<old[s \ {m}], q[m]>>] ELSE old[s]]
  <2>2. \A s \in SUBSET (1 .. m) : s \ {m} \in SUBSET (1 .. m - 1)
    OBVIOUS
  <2>3. \A s \in SUBSET (1 .. m) : m \notin s => s \in SUBSET (1 .. m - 1)
    OBVIOUS
  <2>4. q[m] \in Q
    OBVIOUS
  <2>5. it \in [SUBSET (1 .. m) -> D]
    <3>1. ASSUME NEW s \in SUBSET (1 .. m), m \in s
          PROVE  g[<<old[s \ {m}], q[m]>>] \in D
      <4>1. old[s \ {m}] \in D
        BY <2>2
      <4>2. <<old[s \ {m}], q[m]>> \in D \X Q
        BY <4>1, <2>4
      <4> QED BY <4>2
    <3> QED BY <3>1, <2>3
  <2>6. ASSUME NEW s \in SUBSET (1 .. m)
        PROVE  it[s] = IF s = {} THEN x ELSE g[<<it[s \ {Max(s)}], q[Max(s)]>>]
    <3>1. CASE m \in s
      <4>1. Max(s) = m
        BY <3>1, MaxUpTo
      <4>2. s \ {m} \in SUBSET (1 .. m) /\ m \notin s \ {m}
        OBVIOUS
      <4>3. it[s \ {m}] = old[s \ {m}]
        BY <4>2
      <4>4. it[s] = g[<<old[s \ {m}], q[m]>>]
        BY <3>1
      <4> HIDE DEF it
      <4> QED BY <3>1, <4>1, <4>3, <4>4
    <3>2. CASE m \notin s
      <4>1. s \in SUBSET (1 .. m - 1) /\ it[s] = old[s]
        BY <3>2
      <4>2. s \ {Max(s)} \in SUBSET (1 .. m) /\ m \notin s \ {Max(s)}
        BY <3>2
      <4>3. it[s \ {Max(s)}] = old[s \ {Max(s)}]
        BY <4>2
      <4> HIDE DEF it
      <4> QED BY <2>1, <4>1, <4>3
    <3> QED BY <3>1, <3>2
  <2>7. Solves(it, m)
    BY <2>6
  <2> HIDE DEF it
  <2>8. Solvable(m)
    BY <2>5, <2>7
  <2> HIDE DEF Solvable
  <2> QED BY <1>1, <2>8
<1>4. \A m \in 0 .. n : P[m]
  BY <1>1, <1>2, <1>3, Upwards
<1>5. Solvable(n)
  <2> HIDE DEF Solvable
  <2> QED BY <1>1, <1>4
<1> QED BY <1>5, Zenon DEF Solution

\* What the positions up to k are without the last of them.
LEMMA UpTo ==
  ASSUME NEW n \in Nat, NEW k \in 1 .. n
  PROVE  /\ 1 .. k \in SUBSET (1 .. n) /\ 1 .. k # {} /\ Max(1 .. k) = k
         /\ (1 .. k) \ {Max(1 .. k)} = 1 .. (k - 1)
<1>1. Max(1 .. k) = k
  BY MaxUpTo
<1>2. 1 .. k \in SUBSET (1 .. n) /\ 1 .. k # {}
  OBVIOUS
<1>3. (1 .. k) \ {k} = 1 .. (k - 1)
  OBVIOUS
<1> QED BY <1>1, <1>2, <1>3

\* The same for a sequence q of members of Q and states in D, with the states and
\* the members that each step is taken with.
Solves(it, D, Q, g, x, q) ==
  /\ it[{}] = x
  /\ \A s \in SUBSET DOMAIN q : s # {} =>
       /\ it[s \ {Max(s)}] \in D /\ q[Max(s)] \in Q
       /\ it[s] = g[<<it[s \ {Max(s)}], q[Max(s)]>>]

\* A solution as far as its values are known to be states.
SolvesWithin(iter, D, g, x, q) ==
  /\ iter[{}] = x
  /\ \A s \in SUBSET DOMAIN q : s # {} /\ iter[s \ {Max(s)}] \in D =>
       iter[s] = g[<<iter[s \ {Max(s)}], q[Max(s)]>>]

\* h are the states that a loop over q passes from x to y.
Passes(h, Q, g, x, q, y) ==
  /\ h[0] = x /\ h[Len(q)] = y
  /\ \A k \in 1 .. Len(q) : h[k] = g[<<h[k - 1], q[k]>>] /\ q[k] \in Q

\* A solution for a sequence, with the states and the members it takes a step
\* with.
LEMMA FoldSolved ==
  ASSUME NEW D, NEW Q, NEW g \in [D \X Q -> D], NEW x \in D, NEW q \in Seq(Q)
  PROVE  \E it \in [SUBSET DOMAIN q -> D] : Solves(it, D, Q, g, x, q)
<1> DEFINE n == Len(q)
<1>1. n \in Nat /\ q \in [1 .. n -> Q] /\ DOMAIN q = 1 .. n
  BY LenProperties
<1> HIDE DEF n
<1>s. PICK it \in [SUBSET (1 .. n) -> D] : Solution(it, n, g, x, q)
  BY <1>1, FoldExists
<1>2. \A s \in SUBSET (1 .. n) :
        it[s] = IF s = {} THEN x ELSE g[<<it[s \ {Max(s)}], q[Max(s)]>>]
  BY <1>s DEF Solution
<1>3. it[{}] = x
  BY <1>2
<1>4. ASSUME NEW s \in SUBSET (1 .. n), s # {}
      PROVE  /\ it[s \ {Max(s)}] \in D /\ q[Max(s)] \in Q
             /\ it[s] = g[<<it[s \ {Max(s)}], q[Max(s)]>>]
  <2>1. Max(s) \in 1 .. n
    BY <1>1, <1>4, MaxIn
  <2>2. s \ {Max(s)} \in SUBSET (1 .. n)
    OBVIOUS
  <2> QED BY <1>1, <1>2, <1>4, <2>1, <2>2
<1> QED BY <1>1, <1>3, <1>4 DEF Solves

\* Any solution passes, on the positions up to k, the states of the loop.
LEMMA FoldStates ==
  ASSUME NEW D, NEW Q, NEW g \in [D \X Q -> D], NEW x \in D, NEW q \in Seq(Q),
         NEW iter, SolvesWithin(iter, D, g, x, q)
  PROVE  \E h \in [0 .. Len(q) -> D] : Passes(h, Q, g, x, q, iter[DOMAIN q])
<1>0. /\ iter[{}] = x
      /\ \A s \in SUBSET DOMAIN q : s # {} /\ iter[s \ {Max(s)}] \in D =>
           iter[s] = g[<<iter[s \ {Max(s)}], q[Max(s)]>>]
  BY DEF SolvesWithin
<1> DEFINE n == Len(q)
           h == [k \in 0 .. n |-> iter[1 .. k]]
           P == [k \in 0 .. n |-> h[k] \in D]
<1>1. n \in Nat /\ q \in [1 .. n -> Q] /\ DOMAIN q = 1 .. n
  BY LenProperties
<1> HIDE DEF n
<1>2. \A k \in 0 .. n : h[k] = iter[1 .. k]
  OBVIOUS
<1>3. h[0] = x
  <2>1. 1 .. 0 = {} /\ 0 \in 0 .. n
    BY <1>1
  <2> HIDE DEF h
  <2> QED BY <1>0, <1>2, <2>1
<1>4. \A k \in 0 .. n : P[k] = (h[k] \in D)
  OBVIOUS
<1>4a. P \in [0 .. n -> BOOLEAN]
  OBVIOUS
<1>4b. h = [k \in 0 .. n |-> h[k]]
  OBVIOUS
<1> HIDE DEF h, P
<1>5. ASSUME NEW k \in 1 .. n, h[k - 1] \in D
      PROVE  h[k] = g[<<h[k - 1], q[k]>>] /\ h[k] \in D /\ q[k] \in Q
  <2>1. /\ 1 .. k \in SUBSET (1 .. n) /\ 1 .. k # {} /\ Max(1 .. k) = k
        /\ (1 .. k) \ {Max(1 .. k)} = 1 .. (k - 1)
    BY <1>1, UpTo
  <2>2. k - 1 \in 0 .. n /\ k \in 0 .. n
    BY <1>1
  <2>3. iter[(1 .. k) \ {Max(1 .. k)}] = h[k - 1]
    BY <1>2, <2>1, <2>2
  <2>4. iter[1 .. k] = g[<<iter[(1 .. k) \ {Max(1 .. k)}], q[Max(1 .. k)]>>]
    BY <1>0, <1>1, <1>5, <2>1, <2>3, Zenon
  <2>5. h[k] = g[<<h[k - 1], q[k]>>]
    BY <1>2, <2>1, <2>2, <2>3, <2>4
  <2>6. q[k] \in Q
    BY <1>1
  <2> QED BY <1>5, <2>5, <2>6
<1>6. P[0]
  <2>1. 0 \in 0 .. n
    BY <1>1
  <2> QED BY <1>3, <1>4, <2>1, Zenon
<1>7. ASSUME NEW k \in 1 .. n, P[k - 1]
      PROVE  P[k]
  <2>1. k - 1 \in 0 .. n /\ k \in 0 .. n
    BY <1>1
  <2> QED BY <1>4, <1>5, <1>7, <2>1
<1>8. \A k \in 0 .. n : h[k] \in D
  BY <1>1, <1>4, <1>4a, <1>6, <1>7, Upwards
<1>9. h \in [0 .. n -> D]
  BY <1>4b, <1>8, Zenon
<1>10. ASSUME NEW k \in 1 .. n
       PROVE  h[k] = g[<<h[k - 1], q[k]>>] /\ q[k] \in Q
  <2>1. k - 1 \in 0 .. n
    BY <1>1
  <2> QED BY <1>5, <1>8, <2>1
<1>11. h[n] = iter[DOMAIN q]
  BY <1>1, <1>2
<1>12. Passes(h, Q, g, x, q, iter[DOMAIN q])
  BY <1>3, <1>10, <1>11 DEF n, Passes
<1> QED BY <1>9, <1>12 DEF n

-----------------------------------------------------------------------------
(***************************************************************************)
(* The order of iteration.  R relates what comes first to what follows it. *)
(***************************************************************************)

\* R is a strict total order of S.
Orders(R, S) ==
  /\ \A r \in S : <<r, r>> \notin R
  /\ \A r, s \in S : r # s => <<r, s>> \in R \/ <<s, r>> \in R
  /\ \A r, s, t \in S : <<r, s>> \in R /\ <<s, t>> \in R => <<r, t>> \in R

\* How many members come before s.
RankIn(R, S, s) == Cardinality({r \in S \ {s} : <<r, s>> \in R})

\* q has at each position a member of that rank, if there is one.
Ranks(q, R, S) ==
  /\ q = [k \in 1 .. Cardinality(S) |-> q[k]]
  /\ \A k \in 1 .. Cardinality(S) : \A s \in S :
       RankIn(R, S, s) = k - 1 => q[k] \in S /\ RankIn(R, S, q[k]) = k - 1

\* A strict total order of a finite set ranks its members from 0 to one less
\* than their number: those that precede a member tell its rank.
LEMMA Ranked ==
  ASSUME NEW S, IsFiniteSet(S), NEW R,
         Orders(R, S)
  PROVE  /\ Cardinality(S) \in Nat
         /\ \A s \in S : RankIn(R, S, s) \in 0 .. (Cardinality(S) - 1)
         /\ \A r, s \in S : <<r, s>> \in R <=> RankIn(R, S, r) < RankIn(R, S, s)
         /\ \A k \in 0 .. (Cardinality(S) - 1) : \E s \in S : RankIn(R, S, s) = k
<1>0. /\ \A r \in S : <<r, r>> \notin R
      /\ \A r, s \in S : r # s => <<r, s>> \in R \/ <<s, r>> \in R
      /\ \A r, s, t \in S : <<r, s>> \in R /\ <<s, t>> \in R => <<r, t>> \in R
  BY DEF Orders
<1> DEFINE Before(s) == {r \in S \ {s} : <<r, s>> \in R}
           n == Cardinality(S)
           f == [s \in S |-> Cardinality(Before(s))]
<1>1. n \in Nat
  BY FS_CardinalityType
<1>2. ASSUME NEW s \in S
      PROVE  IsFiniteSet(Before(s)) /\ f[s] \in 0 .. (n - 1)
  <2>1. Before(s) \in SUBSET (S \ {s})
    OBVIOUS
  <2>2. IsFiniteSet(S \ {s}) /\ Cardinality(S \ {s}) = n - 1
    BY FS_RemoveElement
  <2>3. IsFiniteSet(Before(s)) /\ Cardinality(Before(s)) <= n - 1
    <3> HIDE DEF Before
    <3> QED BY <2>1, <2>2, FS_Subset
  <2>4. Cardinality(Before(s)) \in Nat
    BY <2>3, FS_CardinalityType
  <2>5. f[s] = Cardinality(Before(s))
    OBVIOUS
  <2> HIDE DEF Before, f, n
  <2> QED BY <1>1, <2>3, <2>4, <2>5
<1> HIDE DEF n
<1>t. \A s \in S : f[s] \in Int
  <2> HIDE DEF f
  <2>1. \A s \in S : f[s] \in 0 .. (n - 1)
    BY <1>2
  <2> QED BY <1>1, <2>1
<1>3. ASSUME NEW r \in S, NEW s \in S, <<r, s>> \in R
      PROVE  f[r] < f[s]
  <2>1. r # s /\ r \in Before(s) /\ r \notin Before(r)
    BY <1>0, <1>3
  <2>2. <<s, r>> \notin R
    BY <1>0, <1>3
  <2>3. Before(r) \subseteq Before(s)
    BY <1>0, <1>3, <2>2
  <2>4. Before(r) \in SUBSET Before(s) /\ Before(r) # Before(s)
    BY <2>1, <2>3
  <2>5. f[s] = Cardinality(Before(s)) /\ f[r] = Cardinality(Before(r))
    OBVIOUS
  <2> HIDE DEF Before, f
  <2>6. Cardinality(Before(r)) <= Cardinality(Before(s))
    BY <1>2, <2>4, FS_Subset
  <2>7. Cardinality(Before(r)) # Cardinality(Before(s))
    BY <1>2, <2>4, FS_Subset
  <2> QED BY <1>1, <1>2, <2>5, <2>6, <2>7
<1>4. ASSUME NEW r \in S, NEW s \in S, f[r] < f[s]
      PROVE  <<r, s>> \in R
  <2> HIDE DEF f
  <2>1. ~ (f[s] < f[r]) /\ r # s
    BY <1>4, <1>t
  <2>2. <<s, r>> \notin R
    BY <1>3, <2>1
  <2> QED BY <1>0, <2>1, <2>2
<1>5. f \in Injection(S, 0 .. (n - 1))
  <2>1. f \in [S -> 0 .. (n - 1)]
    BY <1>2
  <2>2. ASSUME NEW r \in S, NEW s \in S, f[r] = f[s]
        PROVE  r = s
    <3> HIDE DEF f
    <3>1. ~ (f[s] < f[r]) /\ ~ (f[r] < f[s])
      BY <2>2, <1>t
    <3> QED BY <1>0, <1>3, <3>1
  <2> HIDE DEF f
  <2> QED BY <2>1, <2>2 DEF Injection, IsInjective
<1>6. f \in Surjection(S, 0 .. (n - 1))
  <2>1. IsFiniteSet(0 .. (n - 1)) /\ Cardinality(0 .. (n - 1)) = n
    <3>1. 0 \in Int /\ n - 1 \in Int
      BY <1>1
    <3>2. /\ IsFiniteSet(0 .. (n - 1))
          /\ Cardinality(0 .. (n - 1)) = IF 0 > n - 1 THEN 0 ELSE (n - 1) - 0 + 1
      BY <3>1, FS_Interval
    <3> QED BY <1>1, <3>2
  <2>2. Cardinality(S) = n
    BY DEF n
  <2> HIDE DEF f
  <2> QED BY <1>5, <2>1, <2>2, FS_Injection
<1>7. \A k \in 0 .. (n - 1) : \E s \in S : f[s] = k
  <2> HIDE DEF f
  <2> QED BY <1>6 DEF Surjection
<1>8. \A s \in S : RankIn(R, S, s) = f[s]
  BY DEF RankIn
<1>9. \A r, s \in S : <<r, s>> \in R <=> f[r] < f[s]
  BY <1>3, <1>4
<1>10. \A s \in S : f[s] \in 0 .. (n - 1)
  BY <1>2
<1> HIDE DEF f, Before
<1> QED BY <1>1, <1>7, <1>8, <1>9, <1>10 DEF n

\* A function from 1 .. n is a sequence.
LEMMA SequenceOf ==
  ASSUME NEW S, NEW n \in Nat, NEW q \in [1 .. n -> S]
  PROVE  q \in Seq(S) /\ Len(q) = n
<1>1. q \in Seq(S)
  OBVIOUS
<1>2. Len(q) \in Nat /\ DOMAIN q = 1 .. Len(q) /\ DOMAIN q = 1 .. n
  BY <1>1, LenProperties
<1> QED BY <1>1, <1>2

\* The sequence of the members by their ranks lists each once, in order.
LEMMA Listed ==
  ASSUME NEW S, IsFiniteSet(S), NEW R,
         Orders(R, S),
         NEW q, Ranks(q, R, S)
  PROVE  /\ q \in Seq(S) /\ Len(q) = Cardinality(S)
         /\ \A j, k \in 1 .. Len(q) : j < k <=> <<q[j], q[k]>> \in R
         /\ \A s \in S : \E k \in 1 .. Len(q) : q[k] = s
<1> DEFINE rank(s) == RankIn(R, S, s)
           n == Cardinality(S)
<1>1. /\ n \in Nat
      /\ \A s \in S : rank(s) \in 0 .. (n - 1)
      /\ \A r, s \in S : <<r, s>> \in R <=> rank(r) < rank(s)
      /\ \A k \in 0 .. (n - 1) : \E s \in S : rank(s) = k
  BY Ranked
<1>2. \A k \in 1 .. n : \A s \in S : rank(s) = k - 1 => q[k] \in S /\ rank(q[k]) = k - 1
  BY DEF Ranks
<1>3. q = [k \in 1 .. n |-> q[k]]
  BY DEF Ranks
<1> HIDE DEF rank, n
<1>4. \A k \in 1 .. n : q[k] \in S /\ rank(q[k]) = k - 1
  <2> SUFFICES ASSUME NEW k \in 1 .. n
               PROVE  q[k] \in S /\ rank(q[k]) = k - 1
    OBVIOUS
  <2>1. k - 1 \in 0 .. (n - 1)
    BY <1>1
  <2>2. \E s \in S : rank(s) = k - 1
    BY <1>1, <2>1
  <2> QED BY <1>2, <2>2
<1>5. q \in [1 .. n -> S]
  <2>1. \A k \in 1 .. n : q[k] \in S
    BY <1>4
  <2> QED BY <1>3, <2>1, Zenon
<1>6. q \in Seq(S) /\ Len(q) = n
  BY <1>1, <1>5, SequenceOf, Zenon
<1>7. \A j, k \in 1 .. n : j < k <=> <<q[j], q[k]>> \in R
  <2> SUFFICES ASSUME NEW j \in 1 .. n, NEW k \in 1 .. n
               PROVE  j < k <=> <<q[j], q[k]>> \in R
    OBVIOUS
  <2>1. q[j] \in S /\ q[k] \in S /\ rank(q[j]) = j - 1 /\ rank(q[k]) = k - 1
    BY <1>4
  <2>2. <<q[j], q[k]>> \in R <=> rank(q[j]) < rank(q[k])
    BY <1>1, <2>1
  <2> QED BY <2>1, <2>2
<1>8. \A s \in S : \E k \in 1 .. n : q[k] = s
  <2> SUFFICES ASSUME NEW s \in S
               PROVE  \E k \in 1 .. n : q[k] = s
    OBVIOUS
  <2>1. PICK k \in 1 .. n : k - 1 = rank(s)
    <3>1. rank(s) \in 0 .. (n - 1)
      BY <1>1
    <3>2. rank(s) + 1 \in 1 .. n /\ (rank(s) + 1) - 1 = rank(s)
      BY <1>1, <3>1
    <3> QED BY <3>2
  <2>2. q[k] \in S /\ rank(q[k]) = k - 1
    BY <1>4
  <2>3. k - 1 \in Int /\ ~ (k - 1 < k - 1)
    OBVIOUS
  <2>4. <<q[k], s>> \notin R /\ <<s, q[k]>> \notin R
    BY <1>1, <2>1, <2>2, <2>3
  <2>5. q[k] = s
    BY <2>2, <2>4 DEF Orders
  <2> QED BY <2>5
<1> QED BY <1>6, <1>7, <1>8 DEF n

-----------------------------------------------------------------------------
(***************************************************************************)
(* Intervals that are not empty, by their first and last elements.         *)
(***************************************************************************)

Proper(i) == i \in Interval /\ first(i) <= last(i)

\* k is one of the elements of i.
In(k, i) == first(i) <= k /\ k <= last(i)

\* Every interval is one of the dynamic type.
LEMMA DynamicIsAll ==
  /\ IntervalOf(Dynamic) = Interval /\ Dynamic \in Types
BY DEF IntervalOf, Types

\* The ends of an interval that is not empty.
LEMMA ProperEnds ==
  ASSUME NEW i, Proper(i)
  PROVE  /\ i \in Interval /\ first(i) \in Int /\ last(i) \in Int
         /\ first(i) <= last(i) /\ ~ is_empty(i)
BY Ends, EmptyIs DEF Proper

\* What is not empty is proper.
LEMMA ProperIs ==
  ASSUME NEW i \in Interval
  PROVE  /\ Proper(i) <=> ~ is_empty(i)
         /\ first(i) \in Int /\ last(i) \in Int
         /\ NonEmpty(i) = IF Proper(i) THEN {i} ELSE {}
BY Ends, EmptyIs DEF Proper, NonEmpty

\* The elements of an interval.
LEMMA ElementsAreIn ==
  ASSUME NEW i \in Interval, NEW k
  PROVE  k \in Elements(i) <=> k \in Int /\ In(k, i)
BY Member DEF In

\* An interval of no elements is not proper.
LEMMA NotProper ==
  ASSUME NEW i \in Interval, Elements(i) = {}
  PROVE  ~ Proper(i)
BY NoElements, Ends DEF Proper

\* exclusive_less of two intervals that are not empty.
LEMMA LessIs ==
  ASSUME NEW i, NEW j, Proper(i), Proper(j)
  PROVE  exclusive_less(i, j) <=> last(i) < first(j)
BY ProperEnds, ExclusiveIs DEF Proper

\* left_over_of: what of x lies before m.
LEMMA LeftOver ==
  ASSUME NEW x, NEW m, Proper(x), Proper(m)
  PROVE  LET r == left_over_of(x, m)
         IN /\ r \in Interval
            /\ Proper(r) <=> first(x) < first(m)
            /\ Proper(r) =>
                 /\ first(r) = first(x)
                 /\ last(r) = IF last(x) < first(m) THEN last(x) ELSE first(m) - 1
<1> DEFINE r == right_subtract(Dynamic, x, m)
<1>0. left_over_of(x, m) = r
  BY DEF left_over_of
<1>1. /\ x \in Interval /\ first(x) \in Int /\ last(x) \in Int /\ first(x) <= last(x)
      /\ m \in Interval /\ first(m) \in Int /\ last(m) \in Int /\ first(m) <= last(m)
  BY ProperEnds
<1>2. CASE exclusive_less(x, m)
  <2>1. r = x
    BY <1>2 DEF right_subtract
  <2>2. last(x) < first(m)
    BY <1>2, LessIs
  <2> HIDE DEF r
  <2> QED BY <1>0, <1>1, <2>1, <2>2
<1>3. CASE ~ exclusive_less(x, m)
  <2>1. /\ r \in Interval
        /\ \/ first(r) = first(x) /\ last(r) = first(m) - 1
           \/ Elements(r) = {} /\ first(m) <= first(x)
    BY <1>1, <1>3, DynamicIsAll, RightSubtractEnds
  <2>2. ~ (last(x) < first(m))
    BY <1>3, LessIs
  <2>3. first(r) \in Int /\ last(r) \in Int
    BY <2>1, ProperIs
  <2>4. Elements(r) = {} => ~ Proper(r)
    BY <2>1, NotProper
  <2> HIDE DEF r
  <2>5. CASE Elements(r) = {} /\ first(m) <= first(x)
    BY <1>0, <1>1, <2>1, <2>4, <2>5
  <2>6. CASE first(r) = first(x) /\ last(r) = first(m) - 1
    <3>1. Proper(r) <=> first(x) <= first(m) - 1
      BY <2>1, <2>6 DEF Proper
    <3> QED BY <1>0, <1>1, <2>1, <2>2, <2>6, <3>1
  <2> QED BY <2>1, <2>5, <2>6
<1> QED BY <1>2, <1>3

\* right_over_of: what of x lies after m.
LEMMA RightOver ==
  ASSUME NEW x, NEW m, Proper(x), Proper(m)
  PROVE  LET r == right_over_of(x, m)
         IN /\ r \in Interval
            /\ Proper(r) <=> last(m) < last(x)
            /\ Proper(r) =>
                 /\ first(r) = IF last(m) < first(x) THEN first(x) ELSE last(m) + 1
                 /\ last(r) = last(x)
<1> DEFINE r == left_subtract(Dynamic, x, m)
<1>0. right_over_of(x, m) = r
  BY DEF right_over_of
<1>1. /\ x \in Interval /\ first(x) \in Int /\ last(x) \in Int /\ first(x) <= last(x)
      /\ m \in Interval /\ first(m) \in Int /\ last(m) \in Int /\ first(m) <= last(m)
  BY ProperEnds
<1>2. CASE exclusive_less(m, x)
  <2>1. r = x
    BY <1>2 DEF left_subtract
  <2>2. last(m) < first(x)
    BY <1>2, LessIs
  <2> HIDE DEF r
  <2> QED BY <1>0, <1>1, <2>1, <2>2
<1>3. CASE ~ exclusive_less(m, x)
  <2>1. /\ r \in Interval
        /\ \/ first(r) = last(m) + 1 /\ last(r) = last(x)
           \/ Elements(r) = {} /\ last(x) <= last(m)
    BY <1>1, <1>3, DynamicIsAll, LeftSubtractEnds
  <2>2. ~ (last(m) < first(x))
    BY <1>3, LessIs
  <2>3. first(r) \in Int /\ last(r) \in Int
    BY <2>1, ProperIs
  <2>4. Elements(r) = {} => ~ Proper(r)
    BY <2>1, NotProper
  <2> HIDE DEF r
  <2>5. CASE Elements(r) = {} /\ last(x) <= last(m)
    BY <1>0, <1>1, <2>1, <2>4, <2>5
  <2>6. CASE first(r) = last(m) + 1 /\ last(r) = last(x)
    <3>1. Proper(r) <=> last(m) + 1 <= last(x)
      BY <2>1, <2>6 DEF Proper
    <3> QED BY <1>0, <1>1, <2>1, <2>2, <2>6, <3>1
  <2> QED BY <2>1, <2>5, <2>6
<1> QED BY <1>2, <1>3

\* common: the elements of both.
LEMMA CommonIs ==
  ASSUME NEW x, NEW m, Proper(x), Proper(m)
  PROVE  /\ common(x, m) \in Interval
         /\ first(common(x, m)) = IF first(x) < first(m) THEN first(m) ELSE first(x)
         /\ last(common(x, m)) = IF last(x) < last(m) THEN last(x) ELSE last(m)
BY ProperEnds, DynamicIsAll, IntersectionEnds DEF common, MinOf, MaxOf

\* hull_of: from the first to the last element of both.
LEMMA HullIs ==
  ASSUME NEW x, NEW m, Proper(x), Proper(m)
  PROVE  /\ Proper(hull_of(x, m))
         /\ first(hull_of(x, m)) = IF first(x) < first(m) THEN first(x) ELSE first(m)
         /\ last(hull_of(x, m)) = IF last(x) < last(m) THEN last(m) ELSE last(x)
<1>1. /\ hull_of(x, m) \in Interval
      /\ first(hull_of(x, m)) = IF first(x) < first(m) THEN first(x) ELSE first(m)
      /\ last(hull_of(x, m)) = IF last(x) < last(m) THEN last(m) ELSE last(x)
  BY ProperEnds, DynamicIsAll, HullEnds DEF hull_of, MinOf, MaxOf
<1> QED BY <1>1, ProperEnds DEF Proper

\* hull_of with an interval that is empty is the other one.
LEMMA HullWithEmpty ==
  ASSUME NEW x \in Interval, NEW m \in Interval
  PROVE  /\ ~ Proper(m) => hull_of(x, m) = x
         /\ Proper(m) /\ ~ Proper(x) => hull_of(x, m) = m
BY ProperIs DEF hull_of, hull

\* The operations return intervals, also of arguments that are empty.
LEMMA OperationsTyped ==
  ASSUME NEW x \in Interval, NEW m \in Interval
  PROVE  /\ left_over_of(x, m) \in Interval /\ right_over_of(x, m) \in Interval
         /\ common(x, m) \in Interval /\ hull_of(x, m) \in Interval
<1>1. left_over_of(x, m) \in Interval
  <2>1. CASE exclusive_less(x, m)
    BY <2>1 DEF left_over_of, right_subtract
  <2>2. CASE ~ exclusive_less(x, m)
    BY <2>2, DynamicIsAll, RightSubtractEnds DEF left_over_of
  <2> QED BY <2>1, <2>2
<1>2. right_over_of(x, m) \in Interval
  <2>1. CASE exclusive_less(m, x)
    BY <2>1 DEF right_over_of, left_subtract
  <2>2. CASE ~ exclusive_less(m, x)
    BY <2>2, DynamicIsAll, LeftSubtractEnds DEF right_over_of
  <2> QED BY <2>1, <2>2
<1>3. common(x, m) \in Interval
  <2>1. CASE is_empty(x) \/ is_empty(m)
    BY <2>1, DynamicIsAll, IdentityOfType DEF common, Intersection
  <2>2. CASE ~ is_empty(x) /\ ~ is_empty(m)
    BY <2>2, DynamicIsAll, IntersectionEnds DEF common
  <2> QED BY <2>1, <2>2
<1>4. hull_of(x, m) \in Interval
  <2>1. CASE Proper(x) /\ Proper(m)
    BY <2>1, HullIs DEF Proper
  <2>2. CASE ~ (Proper(x) /\ Proper(m))
    BY <2>2, HullWithEmpty
  <2> QED BY <2>1, <2>2
<1> QED BY <1>1, <1>2, <1>3, <1>4

-----------------------------------------------------------------------------
(***************************************************************************)
(* Sets of intervals that are not empty and do not overlap.                *)
(***************************************************************************)

Laid(S) ==
  /\ IsFiniteSet(S)
  /\ \A s \in S : Proper(s)
  /\ \A s, t \in S : s = t \/ last(s) < first(t) \/ last(t) < first(s)

\* No interval begins where another ends.
Joined(S) == \A s, t \in S : last(s) + 1 # first(t)

\* What the type of a set asks of its intervals.
Fit(style, S) == Laid(S) /\ (style = "joining" => Joined(S))

\* k is an element of the set.
Has(S, k) == \E s \in S : In(k, s)

\* The intervals of a set that is laid out.
LEMMA LaidEnds ==
  ASSUME NEW S, Laid(S), NEW s \in S
  PROVE  /\ Proper(s) /\ s \in Interval
         /\ first(s) \in Int /\ last(s) \in Int /\ first(s) <= last(s)
BY ProperEnds DEF Laid

\* Of two different ones, one lies before the other.
LEMMA LaidApart ==
  ASSUME NEW S, Laid(S), NEW s \in S, NEW t \in S, s # t
  PROVE  last(s) < first(t) \/ last(t) < first(s)
BY DEF Laid

\* A part of a set that is laid out is laid out.
LEMMA LaidPart ==
  ASSUME NEW S, Laid(S), NEW T \in SUBSET S
  PROVE  Laid(T) /\ (Joined(S) => Joined(T))
BY FS_Subset DEF Laid, Joined

\* The intervals of the set in the order of iteration are a list of its members,
\* each before the next.
LEMMA Iterated ==
  ASSUME NEW S, Laid(S)
  PROVE  /\ InOrder(S) \in Seq(S) /\ Len(InOrder(S)) = Cardinality(S)
         /\ Cardinality(S) \in Nat
         /\ \A j, k \in 1 .. Len(InOrder(S)) :
              j < k <=> last(InOrder(S)[j]) < first(InOrder(S)[k])
         /\ \A s \in S : \E k \in 1 .. Len(InOrder(S)) : InOrder(S)[k] = s
<1> DEFINE R == {p \in S \X S : exclusive_less(p[1], p[2])}
           q == InOrder(S)
<1>1. \A r, s \in S : <<r, s>> \in R <=> last(r) < first(s)
  <2> SUFFICES ASSUME NEW r \in S, NEW s \in S
               PROVE  <<r, s>> \in R <=> last(r) < first(s)
    OBVIOUS
  <2>1. exclusive_less(r, s) <=> last(r) < first(s)
    BY LessIs, LaidEnds
  <2> QED BY <2>1
<1>2. \A s \in S : {r \in S \ {s} : <<r, s>> \in R} = {r \in S \ {s} : exclusive_less(r, s)}
  OBVIOUS
<1> HIDE DEF R
<1>3. \A r \in S : <<r, r>> \notin R
  BY <1>1, LaidEnds
<1>4. \A r, s \in S : r # s => <<r, s>> \in R \/ <<s, r>> \in R
  BY <1>1, LaidApart
<1>5. \A r, s, t \in S : <<r, s>> \in R /\ <<s, t>> \in R => <<r, t>> \in R
  <2> SUFFICES ASSUME NEW r \in S, NEW s \in S, NEW t \in S,
                      <<r, s>> \in R, <<s, t>> \in R
               PROVE  <<r, t>> \in R
    OBVIOUS
  <2>1. last(r) < first(s) /\ last(s) < first(t)
    BY <1>1
  <2>2. last(r) < first(t)
    BY <2>1, LaidEnds
  <2> QED BY <1>1, <2>2
<1>6. Orders(R, S)
  BY <1>3, <1>4, <1>5 DEF Orders
<1>7. Ranks(q, R, S)
  <2>1. \A k \in 1 .. Cardinality(S) :
          q[k] = CHOOSE s \in S : Cardinality({r \in S \ {s} : exclusive_less(r, s)}) = k - 1
    BY Zenon DEF InOrder
  <2>2. q = [k \in 1 .. Cardinality(S) |->
               CHOOSE s \in S : Cardinality({r \in S \ {s} : exclusive_less(r, s)}) = k - 1]
    BY Zenon DEF InOrder
  <2> HIDE DEF q
  <2>3. q = [k \in 1 .. Cardinality(S) |-> q[k]]
    BY <2>1, <2>2, Zenon
  <2>4. ASSUME NEW k \in 1 .. Cardinality(S), NEW s \in S, RankIn(R, S, s) = k - 1
        PROVE  q[k] \in S /\ RankIn(R, S, q[k]) = k - 1
    <3>1. Cardinality({r \in S \ {s} : exclusive_less(r, s)}) = k - 1
      BY <1>2, <2>4 DEF RankIn
    <3>2. q[k] \in S /\ Cardinality({r \in S \ {q[k]} : exclusive_less(r, q[k])}) = k - 1
      BY <2>1, <3>1, Zenon
    <3> QED BY <1>2, <3>2 DEF RankIn
  <2> QED BY <2>3, <2>4, Zenon DEF Ranks
<1>0. IsFiniteSet(S) /\ Cardinality(S) \in Nat
  BY FS_CardinalityType DEF Laid
<1> HIDE DEF q
<1>8. /\ q \in Seq(S) /\ Len(q) = Cardinality(S)
      /\ \A j, k \in 1 .. Len(q) : j < k <=> <<q[j], q[k]>> \in R
      /\ \A s \in S : \E k \in 1 .. Len(q) : q[k] = s
  BY <1>0, <1>6, <1>7, Listed
<1>9. \A j, k \in 1 .. Len(q) : j < k <=> last(q[j]) < first(q[k])
  <2>1. \A k \in 1 .. Len(q) : q[k] \in S
    BY <1>8
  <2> QED BY <1>1, <1>8, <2>1, Zenon
<1> QED BY <1>0, <1>8, <1>9 DEF q

\* begin and rbegin are the first and the last interval.
LEMMA FirstAndLast ==
  ASSUME NEW S, Laid(S), S # {}
  PROVE  /\ begin(S) \in S /\ rbegin(S) \in S
         /\ \A r \in S : r = begin(S) \/ last(begin(S)) < first(r)
         /\ \A r \in S : r = rbegin(S) \/ last(r) < first(rbegin(S))
<1> DEFINE q == InOrder(S)
           n == Cardinality(S)
<1>1. /\ q \in Seq(S) /\ Len(q) = n /\ n \in Nat
      /\ \A j, k \in 1 .. Len(q) : j < k <=> last(q[j]) < first(q[k])
      /\ \A s \in S : \E k \in 1 .. Len(q) : q[k] = s
  BY Iterated
<1>2. n # 0
  BY FS_EmptySet DEF Laid
<1> HIDE DEF q, n
<1>3. /\ 1 \in 1 .. Len(q) /\ n \in 1 .. Len(q)
      /\ \A k \in 1 .. Len(q) : (k = 1 \/ 1 < k) /\ (k = n \/ k < n)
  BY <1>1, <1>2
<1>4. q[1] \in S /\ q[n] \in S
  BY <1>1, <1>3
<1>5. \A r \in S : r = q[1] \/ last(q[1]) < first(r)
  BY <1>1, <1>3
<1>6. \A r \in S : r = q[n] \/ last(r) < first(q[n])
  BY <1>1, <1>3
<1>7. begin(S) \in S /\ \A r \in S \ {begin(S)} : exclusive_less(begin(S), r)
  <2>1. \A r \in S \ {q[1]} : exclusive_less(q[1], r)
    BY <1>4, <1>5, LaidEnds, LessIs
  <2> QED BY <1>4, <2>1 DEF begin
<1>8. rbegin(S) \in S /\ \A r \in S \ {rbegin(S)} : exclusive_less(r, rbegin(S))
  <2>1. \A r \in S \ {q[n]} : exclusive_less(r, q[n])
    BY <1>4, <1>6, LaidEnds, LessIs
  <2> QED BY <1>4, <2>1 DEF rbegin
<1> QED BY <1>7, <1>8, LaidEnds, LessIs

\* equal_range: the intervals that share an element with i.
LEMMA RangeIs ==
  ASSUME NEW S, Laid(S), NEW i, Proper(i)
  PROVE  /\ equal_range(S, i) \in SUBSET S
         /\ \A s \in S : s \in equal_range(S, i) <=>
                           first(s) <= last(i) /\ first(i) <= last(s)
         /\ Laid(equal_range(S, i))
<1>1. \A s \in S : s \in equal_range(S, i) <=>
                     first(s) <= last(i) /\ first(i) <= last(s)
  <2> SUFFICES ASSUME NEW s \in S
               PROVE  s \in equal_range(S, i) <=>
                        first(s) <= last(i) /\ first(i) <= last(s)
    OBVIOUS
  <2>1. /\ exclusive_less(s, i) <=> last(s) < first(i)
        /\ exclusive_less(i, s) <=> last(i) < first(s)
    BY LessIs, LaidEnds
  <2> QED BY <2>1, LaidEnds, ProperEnds DEF equal_range
<1>2. equal_range(S, i) \in SUBSET S
  BY DEF equal_range
<1> QED BY <1>1, <1>2, LaidPart

-----------------------------------------------------------------------------
(***************************************************************************)
(* Changing a set.                                                         *)
(***************************************************************************)

\* Two intervals of which one lies before the other.
Clear(s, t) == last(s) < first(t) \/ last(t) < first(s)

\* New intervals that are clear of each other and of those that stay.
LEMMA Replaced ==
  ASSUME NEW S, Laid(S), NEW E, NEW N, IsFiniteSet(N),
         \A n \in N : Proper(n),
         \A m, n \in N : m = n \/ Clear(m, n),
         \A s \in S \ E, n \in N : Clear(s, n)
  PROVE  Laid((S \ E) \cup N)
<1>1. IsFiniteSet((S \ E) \cup N)
  <2>1. IsFiniteSet(S \ E)
    BY FS_Subset DEF Laid
  <2> QED BY <2>1, FS_Union
<1>2. \A s \in (S \ E) \cup N : Proper(s)
  BY DEF Laid
<1>3. \A s, t \in (S \ E) \cup N : s = t \/ last(s) < first(t) \/ last(t) < first(s)
  BY DEF Laid, Clear
<1> QED BY <1>1, <1>2, <1>3 DEF Laid

\* NonEmpty makes a set of at most one interval.
LEMMA AtMostOne ==
  ASSUME NEW i \in Interval, NEW j \in Interval
  PROVE  /\ IsFiniteSet(NonEmpty(i)) /\ IsFiniteSet(NonEmpty(i) \cup NonEmpty(j))
         /\ \A n \in NonEmpty(i) : n = i /\ Proper(n)
         /\ Proper(i) => i \in NonEmpty(i)
<1>1. IsFiniteSet(NonEmpty(i)) /\ IsFiniteSet(NonEmpty(j))
  BY FS_EmptySet, FS_Singleton DEF NonEmpty
<1> QED BY <1>1, FS_Union, ProperIs

\* subtract: the set keeps its form and loses the elements of i and no other.
LEMMA SubtractIs ==
  ASSUME NEW S, Laid(S), NEW i \in Interval
  PROVE  /\ Laid(SubtractInterval(S, i))
         /\ Joined(S) => Joined(SubtractInterval(S, i))
         /\ \A k \in Int : Has(SubtractInterval(S, i), k) <=> Has(S, k) /\ ~ In(k, i)
<1> DEFINE E == equal_range(S, i)
           lo == left_over_of(begin(E), i)
           ro == right_over_of(rbegin(E), i)
           N == NonEmpty(lo) \cup NonEmpty(ro)
<1>1. CASE ~ Proper(i)
  <2>1. SubtractInterval(S, i) = S
    BY <1>1, ProperIs DEF SubtractInterval
  <2>2. \A k \in Int : ~ In(k, i)
    BY <1>1, ProperIs DEF Proper, In
  <2> QED BY <2>1, <2>2
<1>2. CASE Proper(i) /\ E = {}
  <2>1. SubtractInterval(S, i) = S
    BY <1>2 DEF SubtractInterval
  <2>2. \A s \in S : ~ (first(s) <= last(i) /\ first(i) <= last(s))
    BY <1>2, RangeIs
  <2>3. \A k \in Int : Has(S, k) => ~ In(k, i)
    BY <1>2, <2>2, LaidEnds, ProperEnds DEF Has, In
  <2> QED BY <2>1, <2>3
<1>3. CASE Proper(i) /\ E # {}
  <2>0. /\ i \in Interval /\ first(i) \in Int /\ last(i) \in Int /\ first(i) <= last(i)
    BY <1>3, ProperEnds
  <2>1. /\ E \in SUBSET S /\ Laid(E)
        /\ \A s \in S : s \in E <=> first(s) <= last(i) /\ first(i) <= last(s)
    BY <1>3, RangeIs
  <2>s. \A s \in S : /\ first(s) \in Int /\ last(s) \in Int /\ first(s) <= last(s)
                     /\ Proper(s)
    BY LaidEnds
  <2> DEFINE b == begin(E)
             r == rbegin(E)
  <2>2. /\ b \in E /\ r \in E
        /\ \A s \in E : s = b \/ last(b) < first(s)
        /\ \A s \in E : s = r \/ last(s) < first(r)
    BY <1>3, <2>1, FirstAndLast
  <2>3. SubtractInterval(S, i) = (S \ E) \cup N
    BY <1>3, ProperIs DEF SubtractInterval
  <2>4. /\ lo \in Interval
        /\ Proper(lo) <=> first(b) < first(i)
        /\ Proper(lo) => first(lo) = first(b) /\ last(lo) = first(i) - 1
    BY <1>3, <2>0, <2>1, <2>2, <2>s, LeftOver
  <2>5. /\ ro \in Interval
        /\ Proper(ro) <=> last(i) < last(r)
        /\ Proper(ro) => first(ro) = last(i) + 1 /\ last(ro) = last(r)
    BY <1>3, <2>0, <2>1, <2>2, <2>s, RightOver
  <2> HIDE DEF E, b, r, lo, ro
  <2>6. /\ IsFiniteSet(N)
        /\ \A n \in N : Proper(n) /\ n \in {lo, ro}
        /\ Proper(lo) => lo \in N
        /\ Proper(ro) => ro \in N
    BY <2>4, <2>5, AtMostOne
  <2> HIDE DEF N
  <2>7. \A s \in S \ E : last(s) < first(i) \/ last(i) < first(s)
    BY <2>0, <2>1, <2>s
  <2>8. \A s \in S \ E : Clear(s, b) /\ Clear(s, r)
    BY <2>1, <2>2, LaidApart DEF Clear
  <2>9. \A s \in S \ E, n \in N : Clear(s, n)
    BY <2>0, <2>1, <2>2, <2>4, <2>5, <2>6, <2>8, <2>s DEF Clear
  <2>10. \A m, n \in N : m = n \/ Clear(m, n)
    BY <2>0, <2>4, <2>5, <2>6 DEF Clear
  <2>11. Laid((S \ E) \cup N)
    BY <2>6, <2>9, <2>10, Replaced
  <2>12. ASSUME Joined(S) PROVE Joined((S \ E) \cup N)
    <3>1. \A s, t \in S : last(s) + 1 # first(t)
      BY <2>12 DEF Joined
    <3>2. \A s \in S \ E, t \in S \ E : last(s) + 1 # first(t)
      BY <3>1
    <3>4. \A s \in S \ E, n \in N : last(s) + 1 # first(n)
      BY <2>0, <2>1, <2>2, <2>4, <2>5, <2>6, <2>7, <2>s, <3>1
    <3>5. \A s \in S \ E, n \in N : last(n) + 1 # first(s)
      BY <2>0, <2>1, <2>2, <2>4, <2>5, <2>6, <2>7, <2>s, <3>1
    <3>6. \A m, n \in N : last(m) + 1 # first(n)
      BY <2>0, <2>1, <2>2, <2>4, <2>5, <2>6, <2>s
    <3> QED BY <3>2, <3>4, <3>5, <3>6 DEF Joined
  <2>13. ASSUME NEW k \in Int, Has((S \ E) \cup N, k)
         PROVE  Has(S, k) /\ ~ In(k, i)
    <3>1. PICK s \in (S \ E) \cup N : In(k, s)
      BY <2>13 DEF Has
    <3>2. CASE s \in S \ E
      BY <2>0, <2>7, <2>s, <3>1, <3>2 DEF Has, In
    <3>3. CASE s \in N
      BY <2>0, <2>1, <2>2, <2>4, <2>5, <2>6, <2>s, <3>1, <3>3 DEF Has, In
    <3> QED BY <3>2, <3>3
  <2>14. ASSUME NEW k \in Int, Has(S, k), ~ In(k, i)
         PROVE  Has((S \ E) \cup N, k)
    <3>1. PICK s \in S : In(k, s)
      BY <2>14 DEF Has
    <3>2. CASE s \notin E
      BY <3>1, <3>2 DEF Has
    <3>3. CASE s \in E /\ k < first(i)
      <4>1. s = b
        BY <2>0, <2>1, <2>2, <2>s, <3>1, <3>3 DEF In
      <4>2. Proper(lo) /\ In(k, lo)
        BY <2>0, <2>4, <2>s, <3>1, <3>3, <4>1 DEF In
      <4> QED BY <2>6, <4>2 DEF Has
    <3>4. CASE s \in E /\ last(i) < k
      <4>1. s = r
        BY <2>0, <2>1, <2>2, <2>s, <3>1, <3>4 DEF In
      <4>2. Proper(ro) /\ In(k, ro)
        BY <2>0, <2>5, <2>s, <3>1, <3>4, <4>1 DEF In
      <4> QED BY <2>6, <4>2 DEF Has
    <3> QED BY <2>0, <2>14, <3>2, <3>3, <3>4 DEF In
  <2> QED BY <2>3, <2>11, <2>12, <2>13, <2>14
<1> QED BY <1>1, <1>2, <1>3

\* join_neighbours: of a set in which i alone may touch another interval.
LEMMA JoinNeighboursIs ==
  ASSUME NEW T, Laid(T), NEW i \in T,
         \A s, t \in T : last(s) + 1 = first(t) => s = i \/ t = i
  PROVE  /\ Laid(join_neighbours(T, i)) /\ Joined(join_neighbours(T, i))
         /\ \A k \in Int : Has(join_neighbours(T, i), k) <=> Has(T, k)
<1> DEFINE P == {p \in T : touches(p, i)}
           N == {n \in T : touches(i, n)}
           pp == CHOOSE p \in P : TRUE
           nn == CHOOSE n \in N : TRUE
           joined == IF P = {} THEN i ELSE hull_of(pp, i)
           whole == IF N = {} THEN joined ELSE hull_of(joined, nn)
           J == join_neighbours(T, i)
<1>t. \A s \in T : /\ first(s) \in Int /\ last(s) \in Int /\ first(s) <= last(s)
                   /\ Proper(s) /\ s \in Interval
  BY LaidEnds
<1>a. \A s, t \in T : s = t \/ last(s) < first(t) \/ last(t) < first(s)
  BY DEF Laid
<1>p. /\ \A s \in T : s \in P <=> last(s) + 1 = first(i)
      /\ \A s \in T : s \in N <=> last(i) + 1 = first(s)
      /\ P \subseteq T /\ N \subseteq T
  BY DEF touches
<1>1. CASE P = {} /\ N = {}
  <2>1. J = T
    BY <1>1 DEF join_neighbours
  <2>2. Joined(T)
    BY <1>1, <1>p DEF Joined
  <2> QED BY <2>1, <2>2
<1>2. CASE ~ (P = {} /\ N = {})
  <2> DEFINE E == P \cup N \cup {i}
  <2>1. J = (T \ E) \cup {whole}
    BY <1>2 DEF join_neighbours
  <2>2. P # {} => pp \in P
    OBVIOUS
  <2>3. N # {} => nn \in N
    OBVIOUS
  <2> HIDE DEF P, N, pp, nn
  <2>4. \A s \in P : s = pp /\ s \in T /\ last(s) + 1 = first(i)
    BY <1>p, <1>a, <1>t, <2>2
  <2>5. \A s \in N : s = nn /\ s \in T /\ last(i) + 1 = first(s)
    BY <1>p, <1>a, <1>t, <2>3
  <2>6. /\ Proper(joined) /\ last(joined) = last(i)
        /\ first(joined) = IF P = {} THEN first(i) ELSE first(pp)
        /\ first(joined) <= first(i)
    <3>1. CASE P = {}
      BY <3>1, <1>t
    <3>2. CASE P # {}
      BY <3>2, <1>t, <2>2, <2>4, HullIs
    <3> QED BY <3>1, <3>2
  <2> HIDE DEF joined
  <2>7. /\ Proper(whole) /\ first(whole) = first(joined)
        /\ last(whole) = IF N = {} THEN last(i) ELSE last(nn)
        /\ last(i) <= last(whole)
    <3>1. CASE N = {}
      BY <3>1, <1>t, <2>6
    <3>2. CASE N # {}
      <4>1. /\ Proper(nn) /\ first(nn) \in Int /\ last(nn) \in Int
            /\ last(i) + 1 = first(nn) /\ first(nn) <= last(nn)
        BY <1>t, <2>3, <2>5, <3>2
      <4>2. first(joined) \in Int /\ first(joined) <= last(joined)
        BY <2>6, ProperEnds
      <4> QED BY <1>t, <2>6, <3>2, <4>1, <4>2, HullIs
    <3> QED BY <3>1, <3>2
  <2> HIDE DEF whole
  <2>w. first(whole) \in Int /\ last(whole) \in Int
    BY <2>7, ProperEnds
  <2>8. \A s \in T \ E : Clear(s, whole)
    <3> SUFFICES ASSUME NEW s \in T \ E
                 PROVE  Clear(s, whole)
      OBVIOUS
    <3>1. CASE last(s) < first(i)
      <4>1. P # {} => last(s) < first(pp)
        BY <1>t, <1>a, <2>2, <2>4, <3>1
      <4> QED BY <2>6, <2>7, <3>1, <4>1 DEF Clear
    <3>2. CASE last(i) < first(s)
      <4>1. N # {} => last(nn) < first(s)
        BY <1>t, <1>a, <2>3, <2>5, <3>2
      <4> QED BY <2>6, <2>7, <3>2, <4>1 DEF Clear
    <3> QED BY <1>a, <3>1, <3>2
  <2>9. Laid((T \ E) \cup {whole})
    <3>1. IsFiniteSet({whole})
      BY FS_Singleton
    <3> HIDE DEF E
    <3> QED BY <2>7, <2>8, <3>1, Replaced
  <2>10. Joined((T \ E) \cup {whole})
    <3>1. \A s, t \in T \ E : last(s) + 1 # first(t)
      OBVIOUS
    <3>2. \A s \in T \ E : last(s) + 1 # first(whole)
      <4> SUFFICES ASSUME NEW s \in T \ E, last(s) + 1 = first(whole)
                   PROVE  FALSE
        OBVIOUS
      <4>1. CASE P = {}
        BY <1>p, <2>6, <2>7, <4>1
      <4>2. CASE P # {}
        <5>1. pp \in T /\ last(s) + 1 = first(pp) /\ last(pp) + 1 = first(i)
          BY <2>2, <2>4, <2>6, <2>7, <4>2
        <5>2. pp # i
          BY <1>t, <5>1
        <5> QED BY <5>1, <5>2
      <4> QED BY <4>1, <4>2
    <3>3. \A s \in T \ E : last(whole) + 1 # first(s)
      <4> SUFFICES ASSUME NEW s \in T \ E, last(whole) + 1 = first(s)
                   PROVE  FALSE
        OBVIOUS
      <4>1. CASE N = {}
        BY <1>p, <2>7, <4>1
      <4>2. CASE N # {}
        <5>1. nn \in T /\ last(nn) + 1 = first(s) /\ last(i) + 1 = first(nn)
          BY <2>3, <2>5, <2>7, <4>2
        <5>2. nn # i
          BY <1>t, <5>1
        <5> QED BY <5>1, <5>2
      <4> QED BY <4>1, <4>2
    <3>4. last(whole) + 1 # first(whole)
      BY <2>7, <2>w, ProperEnds
    <3> QED BY <3>1, <3>2, <3>3, <3>4 DEF Joined
  <2>11. ASSUME NEW k \in Int
         PROVE  Has((T \ E) \cup {whole}, k) <=> Has(T, k)
    <3>1. In(k, whole) <=> \E s \in E : In(k, s)
      <4>1. \A s \in E : s \in T /\ (s \in P \/ s \in N \/ s = i)
        BY <1>p
      <4>2. ASSUME NEW s \in E, In(k, s)
            PROVE  In(k, whole)
        BY <1>t, <2>4, <2>5, <2>6, <2>7, <2>w, <4>1, <4>2 DEF In
      <4>3. ASSUME In(k, whole)
            PROVE  \E s \in E : In(k, s)
        <5>1. CASE k < first(i)
          <6>1. P # {} /\ In(k, pp)
            BY <1>t, <2>2, <2>4, <2>6, <2>7, <4>3, <5>1 DEF In
          <6> QED BY <2>2, <6>1
        <5>2. CASE last(i) < k
          <6>1. N # {} /\ In(k, nn)
            BY <1>t, <2>3, <2>5, <2>6, <2>7, <4>3, <5>2 DEF In
          <6> QED BY <2>3, <6>1
        <5> QED BY <1>t, <5>1, <5>2 DEF In
      <4> QED BY <4>2, <4>3
    <3>2. E \subseteq T
      BY <1>p
    <3> HIDE DEF E
    <3> QED BY <3>1, <3>2 DEF Has
  <2> QED BY <2>1, <2>9, <2>10, <2>11
<1> QED BY <1>1, <1>2

\* join_under: what i overlaps becomes one interval with it.
LEMMA JoinUnderIs ==
  ASSUME NEW S, Laid(S), NEW i, Proper(i), equal_range(S, i) # {}
  PROVE  LET u == JoinedUnder(equal_range(S, i), i)
         IN /\ Laid(join_under(S, i)) /\ u \in join_under(S, i)
            /\ join_under(S, i) = (S \ equal_range(S, i)) \cup {u}
            /\ \A k \in Int : Has(join_under(S, i), k) <=> Has(S, k) \/ In(k, i)
<1> DEFINE E == equal_range(S, i)
           b == begin(E)
           r == rbegin(E)
           lo == left_over_of(b, i)
           ro == right_over_of(r, i)
           h == hull_of(lo, i)
           u == JoinedUnder(E, i)
<1>0. /\ i \in Interval /\ first(i) \in Int /\ last(i) \in Int /\ first(i) <= last(i)
  BY ProperEnds
<1>1. /\ E \in SUBSET S /\ Laid(E)
      /\ \A s \in S : s \in E <=> first(s) <= last(i) /\ first(i) <= last(s)
  BY RangeIs
<1>s. \A s \in S : /\ first(s) \in Int /\ last(s) \in Int /\ first(s) <= last(s)
                   /\ Proper(s)
  BY LaidEnds
<1>2. /\ b \in E /\ r \in E
      /\ \A s \in E : s = b \/ last(b) < first(s)
      /\ \A s \in E : s = r \/ last(s) < first(r)
  BY <1>1, FirstAndLast
<1>3. join_under(S, i) = (S \ E) \cup {u}
  BY DEF join_under
<1>4. /\ lo \in Interval
      /\ Proper(lo) <=> first(b) < first(i)
      /\ Proper(lo) => first(lo) = first(b) /\ last(lo) = first(i) - 1
  BY <1>0, <1>1, <1>2, <1>s, LeftOver
<1>5. /\ ro \in Interval
      /\ Proper(ro) <=> last(i) < last(r)
      /\ Proper(ro) => first(ro) = last(i) + 1 /\ last(ro) = last(r)
  BY <1>0, <1>1, <1>2, <1>s, RightOver
<1>6. u = hull_of(h, ro)
  BY DEF JoinedUnder
<1> HIDE DEF E, b, r, lo, ro, u
<1>7. /\ Proper(h) /\ last(h) = last(i)
      /\ first(h) = IF first(b) < first(i) THEN first(b) ELSE first(i)
  <2>1. CASE Proper(lo)
    BY <1>0, <1>4, <2>1, HullIs, <1>1, <1>2, <1>s
  <2>2. CASE ~ Proper(lo)
    BY <1>0, <1>4, <2>2, HullWithEmpty, <1>1, <1>2, <1>s
  <2> QED BY <2>1, <2>2
<1> HIDE DEF h
<1>8. /\ Proper(u) /\ first(u) = first(h)
      /\ last(u) = IF last(i) < last(r) THEN last(r) ELSE last(i)
  <2>0. h \in Interval /\ first(h) \in Int /\ last(h) \in Int /\ first(h) <= last(h)
    BY <1>7, ProperEnds
  <2>1. CASE Proper(ro)
    BY <1>0, <1>5, <1>6, <1>7, <2>0, <2>1, HullIs, <1>1, <1>2, <1>s
  <2>2. CASE ~ Proper(ro)
    BY <1>0, <1>5, <1>6, <1>7, <2>0, <2>2, HullWithEmpty, <1>1, <1>2, <1>s
  <2> QED BY <2>1, <2>2
<1>u. /\ first(u) \in Int /\ last(u) \in Int
      /\ first(u) = IF first(b) < first(i) THEN first(b) ELSE first(i)
  BY <1>7, <1>8, ProperEnds
<1>9. \A s \in S \ E : Clear(s, u)
  <2> SUFFICES ASSUME NEW s \in S \ E
               PROVE  Clear(s, u)
    OBVIOUS
  <2>1. \/ last(s) < first(i) \/ last(i) < first(s)
    BY <1>0, <1>1, <1>s
  <2>2. /\ last(s) < first(b) \/ last(b) < first(s)
        /\ last(s) < first(r) \/ last(r) < first(s)
    BY <1>1, <1>2, LaidApart
  <2> QED BY <1>0, <1>1, <1>2, <1>8, <1>s, <1>u, <2>1, <2>2 DEF Clear
<1>10. Laid((S \ E) \cup {u})
  <2>1. IsFiniteSet({u})
    BY FS_Singleton
  <2>2. (\A n \in {u} : Proper(n)) /\ (\A s \in S \ E, n \in {u} : Clear(s, n))
    BY <1>8, <1>9
  <2>3. \A m, n \in {u} : m = n \/ Clear(m, n)
    OBVIOUS
  <2> QED BY <2>1, <2>2, <2>3, Replaced
<1>11. ASSUME NEW k \in Int
       PROVE  Has((S \ E) \cup {u}, k) <=> Has(S, k) \/ In(k, i)
  <2>1. ASSUME NEW s \in E, In(k, s) PROVE In(k, u)
    BY <1>0, <1>1, <1>2, <1>8, <1>s, <1>u, <2>1 DEF In
  <2>2. In(k, i) => In(k, u)
    BY <1>0, <1>1, <1>2, <1>8, <1>s, <1>u DEF In
  <2>3. In(k, u) => In(k, b) \/ In(k, i) \/ In(k, r)
    BY <1>0, <1>1, <1>2, <1>8, <1>s, <1>u DEF In
  <2> QED BY <1>1, <1>2, <2>1, <2>2, <2>3 DEF Has
<1> QED BY <1>3, <1>10, <1>11 DEF E, u

-----------------------------------------------------------------------------
(***************************************************************************)
(* Addition.                                                               *)
(***************************************************************************)

\* What i does not overlap, with i.
LEMMA WithAnother ==
  ASSUME NEW S, Laid(S), NEW i, Proper(i), equal_range(S, i) = {}
  PROVE  /\ Laid(S \cup {i}) /\ i \notin S
         /\ \A k \in Int : Has(S \cup {i}, k) <=> Has(S, k) \/ In(k, i)
<1>1. \A s \in S : Clear(s, i)
  BY RangeIs, LaidEnds, ProperEnds DEF Clear
<1>2. Laid((S \ {}) \cup {i})
  <2>1. IsFiniteSet({i})
    BY FS_Singleton
  <2>2. (\A n \in {i} : Proper(n)) /\ (\A s \in S \ {}, n \in {i} : Clear(s, n))
    BY <1>1
  <2>3. \A m, n \in {i} : m = n \/ Clear(m, n)
    OBVIOUS
  <2> QED BY <2>1, <2>2, <2>3, Replaced
<1>3. i \notin S
  BY <1>1, LaidEnds DEF Clear
<1>4. (S \ {}) \cup {i} = S \cup {i}
  OBVIOUS
<1>5. \A k \in Int : Has(S \cup {i}, k) <=> Has(S, k) \/ In(k, i)
  BY DEF Has
<1> QED BY <1>2, <1>3, <1>4, <1>5

\* add to an interval_set.
LEMMA JoiningAddIs ==
  ASSUME NEW S, Laid(S), Joined(S), NEW i \in Interval
  PROVE  /\ Laid(AddInterval("joining", S, i)) /\ Joined(AddInterval("joining", S, i))
         /\ \A k \in Int :
              Has(AddInterval("joining", S, i), k) <=> Has(S, k) \/ In(k, i)
<1> DEFINE A == AddInterval("joining", S, i)
           E == equal_range(S, i)
<1>1. CASE ~ Proper(i)
  <2>1. A = S
    BY <1>1, ProperIs DEF AddInterval
  <2>2. \A k \in Int : ~ In(k, i)
    BY <1>1, ProperIs DEF Proper, In
  <2> QED BY <2>1, <2>2
<1>2. CASE Proper(i) /\ E = {}
  <2>1. A = join_neighbours(S \cup {i}, i)
    BY <1>2, ProperIs DEF AddInterval
  <2>2. /\ Laid(S \cup {i}) /\ i \in S \cup {i}
        /\ \A k \in Int : Has(S \cup {i}, k) <=> Has(S, k) \/ In(k, i)
    BY <1>2, WithAnother
  <2>3. \A s, t \in S \cup {i} : last(s) + 1 = first(t) => s = i \/ t = i
    BY DEF Joined
  <2>4. /\ Laid(join_neighbours(S \cup {i}, i)) /\ Joined(join_neighbours(S \cup {i}, i))
        /\ \A k \in Int : Has(join_neighbours(S \cup {i}, i), k) <=> Has(S \cup {i}, k)
    BY <2>2, <2>3, JoinNeighboursIs
  <2> QED BY <2>1, <2>2, <2>4
<1>3. CASE Proper(i) /\ E # {}
  <2> DEFINE u == JoinedUnder(E, i)
             T == join_under(S, i)
  <2>1. A = join_neighbours(T, u)
    BY <1>3, ProperIs DEF AddInterval, joining_add_over
  <2>2. /\ Laid(T) /\ u \in T /\ T = (S \ E) \cup {u}
        /\ \A k \in Int : Has(T, k) <=> Has(S, k) \/ In(k, i)
    BY <1>3, JoinUnderIs
  <2> HIDE DEF T, u
  <2>3. \A s, t \in T : last(s) + 1 = first(t) => s = u \/ t = u
    BY <2>2 DEF Joined
  <2>4. /\ Laid(join_neighbours(T, u)) /\ Joined(join_neighbours(T, u))
        /\ \A k \in Int : Has(join_neighbours(T, u), k) <=> Has(T, k)
    BY <2>2, <2>3, JoinNeighboursIs
  <2> QED BY <2>1, <2>2, <2>4
<1> QED BY <1>1, <1>2, <1>3

\* add to a separate_interval_set.
LEMMA SeparatingAddIs ==
  ASSUME NEW S, Laid(S), NEW i \in Interval
  PROVE  /\ Laid(AddInterval("separating", S, i))
         /\ \A k \in Int :
              Has(AddInterval("separating", S, i), k) <=> Has(S, k) \/ In(k, i)
<1> DEFINE A == AddInterval("separating", S, i)
           E == equal_range(S, i)
<1>1. CASE ~ Proper(i)
  <2>1. A = S
    BY <1>1, ProperIs DEF AddInterval
  <2>2. \A k \in Int : ~ In(k, i)
    BY <1>1, ProperIs DEF Proper, In
  <2> QED BY <2>1, <2>2
<1>2. CASE Proper(i) /\ E = {}
  <2>1. A = S \cup {i}
    BY <1>2, ProperIs DEF AddInterval
  <2> QED BY <1>2, <2>1, WithAnother
<1>3. CASE Proper(i) /\ E # {}
  <2>1. A = join_under(S, i)
    BY <1>3, ProperIs DEF AddInterval, separating_add_over
  <2> QED BY <1>3, <2>1, JoinUnderIs
<1> QED BY <1>1, <1>2, <1>3

\* add_front: the interval that begins before i is cut where i begins.
LEMMA AddFrontIs ==
  ASSUME NEW S, Laid(S), NEW i, Proper(i), equal_range(S, i) # {}
  PROVE  /\ Laid(add_front(S, i)) /\ equal_range(add_front(S, i), i) # {}
         /\ \A k \in Int : Has(add_front(S, i), k) <=> Has(S, k)
         /\ \A s \in add_front(S, i) :
              first(s) <= last(i) /\ first(i) <= last(s) => first(i) <= first(s)
<1> DEFINE E == equal_range(S, i)
           F == add_front(S, i)
           f == begin(E)
           resid == left_over_of(f, i)
           rest == right_over_of(f, resid)
<1>0. /\ i \in Interval /\ first(i) \in Int /\ last(i) \in Int /\ first(i) <= last(i)
  BY ProperEnds
<1>1. /\ E \in SUBSET S /\ Laid(E)
      /\ \A s \in S : s \in E <=> first(s) <= last(i) /\ first(i) <= last(s)
  BY RangeIs
<1>s. \A s \in S : /\ first(s) \in Int /\ last(s) \in Int /\ first(s) <= last(s)
                   /\ Proper(s)
  BY LaidEnds
<1>2. f \in E /\ \A s \in E : s = f \/ last(f) < first(s)
  BY <1>1, FirstAndLast
<1>3. F = IF is_empty(resid) THEN S ELSE (S \ {f}) \cup {rest, resid}
  BY DEF add_front
<1>4. /\ resid \in Interval
      /\ Proper(resid) <=> first(f) < first(i)
      /\ Proper(resid) => first(resid) = first(f) /\ last(resid) = first(i) - 1
  BY <1>0, <1>1, <1>2, <1>s, LeftOver
<1> HIDE DEF E, F, f, resid
<1>5. CASE ~ Proper(resid)
  <2>1. F = S
    BY <1>3, <1>4, <1>5, ProperIs
  <2>2. \A s \in S : first(s) <= last(i) /\ first(i) <= last(s) => first(i) <= first(s)
    BY <1>0, <1>1, <1>2, <1>4, <1>5, <1>s
  <2> QED BY <2>1, <2>2 DEF F
<1>6. CASE Proper(resid)
  <2>1. F = (S \ {f}) \cup {rest, resid}
    BY <1>3, <1>4, <1>6, ProperIs
  <2>2. /\ Proper(rest) /\ first(rest) = first(i) /\ last(rest) = last(f)
        /\ first(resid) = first(f) /\ last(resid) = first(i) - 1
        /\ first(f) < first(i) /\ first(i) <= last(f) /\ first(f) <= last(i)
        /\ f \in S
    <3>1. /\ f \in S /\ first(i) <= last(f) /\ first(f) <= last(i) /\ Proper(f)
      BY <1>1, <1>2, <1>s
    <3>2. first(f) \in Int /\ last(f) \in Int /\ last(resid) = first(i) - 1
      BY <1>4, <1>6, <1>s, <3>1
    <3>3. last(resid) < last(f) /\ last(resid) < first(i) /\ last(resid) \in Int
      BY <1>0, <3>1, <3>2
    <3>4. /\ Proper(rest) <=> last(resid) < last(f)
          /\ Proper(rest) =>
               /\ first(rest) = IF last(resid) < first(f) THEN first(f) ELSE last(resid) + 1
               /\ last(rest) = last(f)
      BY <1>6, <3>1, RightOver
    <3> QED BY <1>0, <1>4, <1>6, <3>1, <3>2, <3>3, <3>4
  <2> HIDE DEF rest
  <2>3. \A s \in S \ {f} : Clear(s, f)
    BY <2>2, LaidApart DEF Clear
  <2>4. \A s \in S \ {f} : Clear(s, rest) /\ Clear(s, resid)
    BY <1>0, <1>s, <2>2, <2>3 DEF Clear
  <2>5. Laid((S \ {f}) \cup {rest, resid})
    <3>1. IsFiniteSet({rest, resid})
      <4>1. IsFiniteSet({rest}) /\ IsFiniteSet({resid})
        BY FS_Singleton
      <4>2. IsFiniteSet({rest} \cup {resid})
        BY <4>1, FS_Union
      <4>3. {rest} \cup {resid} = {rest, resid}
        OBVIOUS
      <4> QED BY <4>2, <4>3
    <3>2. \A m, n \in {rest, resid} : m = n \/ Clear(m, n)
      BY <1>0, <2>2 DEF Clear
    <3>3. \A n \in {rest, resid} : Proper(n) /\ \A s \in S \ {f} : Clear(s, n)
      BY <1>6, <2>2, <2>4
    <3> QED BY <3>1, <3>2, <3>3, Replaced
  <2>6. \A k \in Int : In(k, f) <=> In(k, rest) \/ In(k, resid)
    BY <1>0, <1>s, <2>2 DEF In
  <2>7. \A k \in Int : Has(F, k) <=> Has(S, k)
    BY <2>1, <2>2, <2>6 DEF Has
  <2>8. \A s \in F : first(s) <= last(i) /\ first(i) <= last(s) => first(i) <= first(s)
    <3>1. \A s \in S \ {f} : first(s) <= last(i) /\ first(i) <= last(s) => first(i) <= first(s)
      BY <1>0, <1>1, <1>2, <1>s, <2>2
    <3> QED BY <1>0, <2>1, <2>2, <3>1
  <2>9. rest \in equal_range(F, i)
    <3>1. Laid(F) /\ rest \in F
      BY <2>1, <2>5
    <3>2. first(rest) <= last(i) /\ first(i) <= last(rest)
      BY <1>0, <2>2
    <3> QED BY <3>1, <3>2, RangeIs
  <2> QED BY <2>1, <2>5, <2>7, <2>8, <2>9 DEF F
<1> QED BY <1>5, <1>6

\* The states of the loop of split_over, and its steps.
LEMMA AddSegmentLoop ==
  ASSUME NEW x \in [S : SUBSET Interval, rest : Interval], NEW q \in Seq(Interval)
  PROVE  \E h \in [0 .. Len(q) -> [S : SUBSET Interval, rest : Interval]] :
           /\ h[0] = x /\ h[Len(q)] = FoldLeft(add_segment, x, q)
           /\ \A k \in 1 .. Len(q) : h[k] = add_segment(h[k - 1], q[k]) /\ q[k] \in Interval
<1> DEFINE D == [S : SUBSET Interval, rest : Interval]
           g == [p \in D \X Interval |-> add_segment(p[1], p[2])]
           iter == CHOOSE it : it = [s \in SUBSET DOMAIN q |->
                     IF s = {} THEN x ELSE add_segment(it[s \ {Max(s)}], q[Max(s)])]
<1>1. \A y \in D, t \in Interval : g[<<y, t>>] = add_segment(y, t) /\ add_segment(y, t) \in D
  <2> SUFFICES ASSUME NEW y \in D, NEW t \in Interval
               PROVE  g[<<y, t>>] = add_segment(y, t) /\ add_segment(y, t) \in D
    OBVIOUS
  <2>1. add_segment(y, t) \in D
    BY OperationsTyped DEF add_segment, NonEmpty
  <2>2. <<y, t>> \in D \X Interval /\ <<y, t>>[1] = y /\ <<y, t>>[2] = t
    OBVIOUS
  <2>3. g[<<y, t>>] = add_segment(<<y, t>>[1], <<y, t>>[2])
    BY <2>2, Zenon
  <2> HIDE DEF g
  <2> QED BY <2>1, <2>2, <2>3
<1>2. g \in [D \X Interval -> D]
  <2>1. \A p \in D \X Interval : add_segment(p[1], p[2]) \in D
    BY <1>1
  <2> QED BY <2>1, Zenon
<1> HIDE DEF g, D
<1>0. x \in D
  BY DEF D
<1>3. PICK it \in [SUBSET DOMAIN q -> D] : Solves(it, D, Interval, g, x, q)
  BY <1>0, <1>2, FoldSolved
<1>4. it = [s \in SUBSET DOMAIN q |->
              IF s = {} THEN x ELSE add_segment(it[s \ {Max(s)}], q[Max(s)])]
  <2>1. \A s \in SUBSET DOMAIN q :
          it[s] = IF s = {} THEN x ELSE add_segment(it[s \ {Max(s)}], q[Max(s)])
    BY <1>1, <1>3 DEF Solves
  <2>2. it = [s \in SUBSET DOMAIN q |-> it[s]]
    OBVIOUS
  <2> QED BY <2>1, <2>2, Zenon
<1>5. iter = [s \in SUBSET DOMAIN q |->
                IF s = {} THEN x ELSE add_segment(iter[s \ {Max(s)}], q[Max(s)])]
  BY <1>4, Zenon
<1>6. FoldLeft(add_segment, x, q) = iter[DOMAIN q]
  BY Zenon DEF FoldLeft, MapThenFoldSet
<1> HIDE DEF iter
<1>7. \A s \in SUBSET DOMAIN q :
        iter[s] = IF s = {} THEN x ELSE add_segment(iter[s \ {Max(s)}], q[Max(s)])
  BY <1>5
<1>8. SolvesWithin(iter, D, g, x, q)
  BY <1>1, <1>3, <1>7 DEF Solves, SolvesWithin
<1>9. PICK h \in [0 .. Len(q) -> D] : Passes(h, Interval, g, x, q, iter[DOMAIN q])
  BY <1>0, <1>2, <1>8, FoldStates
<1>10. ASSUME NEW k \in 1 .. Len(q)
       PROVE  h[k] = add_segment(h[k - 1], q[k])
  <2>1. h[k - 1] \in D
    BY LenProperties
  <2> QED BY <1>1, <1>9, <2>1 DEF Passes
<1> QED BY <1>6, <1>9, <1>10 DEF D, Passes

\* The loop of split_over over the intervals of F, of which U are still to come:
\* the elements of i before the rest are in the set, the others are as in F.
Filling(x, F, i, U) ==
  /\ Laid(x.S) /\ F \subseteq x.S
  /\ \A s \in x.S \ F : first(i) <= first(s) /\ last(s) < first(x.rest)
  /\ Proper(x.rest) /\ last(x.rest) = last(i) /\ first(i) <= first(x.rest)
  /\ \A u \in U : u \in F /\ first(x.rest) <= first(u) /\ first(u) <= last(i)
  /\ \A s \in F : first(s) <= last(i) /\ first(i) <= last(s) =>
       last(s) < first(x.rest) \/ s \in U
  /\ \A e \in Int : Has(x.S, e) <=> Has(F, e) \/ (In(e, i) /\ e < first(x.rest))

\* The gap before the next interval is filled.
LEMMA GapFilled ==
  ASSUME NEW F, NEW i, Proper(i), NEW U, NEW x, Filling(x, F, i, U),
         NEW cur \in U, \A u \in U : u = cur \/ last(cur) < first(u)
  PROVE  LET T == x.S \cup NonEmpty(left_over_of(x.rest, cur))
         IN /\ Laid(T) /\ F \subseteq T
            /\ \A s \in T \ F : first(i) <= first(s) /\ last(s) < first(cur)
            /\ \A e \in Int : Has(T, e) <=> Has(F, e) \/ (In(e, i) /\ e < first(cur))
<1> DEFINE gap == left_over_of(x.rest, cur)
           N == NonEmpty(gap)
           T == x.S \cup N
<1>0. /\ i \in Interval /\ first(i) \in Int /\ last(i) \in Int /\ first(i) <= last(i)
  BY ProperEnds
<1>1. /\ Laid(x.S) /\ F \subseteq x.S
      /\ \A s \in x.S \ F : first(i) <= first(s) /\ last(s) < first(x.rest)
      /\ Proper(x.rest) /\ last(x.rest) = last(i) /\ first(i) <= first(x.rest)
      /\ \A u \in U : u \in F /\ first(x.rest) <= first(u) /\ first(u) <= last(i)
      /\ \A s \in F : first(s) <= last(i) /\ first(i) <= last(s) =>
           last(s) < first(x.rest) \/ s \in U
      /\ \A e \in Int : Has(x.S, e) <=> Has(F, e) \/ (In(e, i) /\ e < first(x.rest))
  BY DEF Filling
<1>s. \A s \in x.S : /\ first(s) \in Int /\ last(s) \in Int /\ first(s) <= last(s)
                     /\ Proper(s)
  BY <1>1, LaidEnds
<1>2. cur \in x.S /\ cur \in F /\ first(x.rest) <= first(cur) /\ first(cur) <= last(i)
  BY <1>1
<1>3. first(x.rest) \in Int /\ last(x.rest) \in Int
  BY <1>1, ProperEnds
<1>4. /\ gap \in Interval
      /\ Proper(gap) <=> first(x.rest) < first(cur)
      /\ Proper(gap) => first(gap) = first(x.rest) /\ last(gap) = first(cur) - 1
  <2>1. /\ gap \in Interval
        /\ Proper(gap) <=> first(x.rest) < first(cur)
        /\ Proper(gap) =>
             /\ first(gap) = first(x.rest)
             /\ last(gap) = IF last(x.rest) < first(cur) THEN last(x.rest)
                                                         ELSE first(cur) - 1
    BY <1>1, <1>2, <1>s, LeftOver
  <2>2. ~ (last(x.rest) < first(cur))
    BY <1>1, <1>2, <1>3, <1>s
  <2> QED BY <2>1, <2>2
<1> HIDE DEF gap
<1>5. IsFiniteSet(N) /\ (\A n \in N : n = gap /\ Proper(n)) /\ (Proper(gap) => gap \in N)
  BY <1>4, AtMostOne
<1> HIDE DEF N
<1>6. ASSUME NEW s \in x.S, Proper(gap)
      PROVE  Clear(s, gap)
  <2>1. CASE s \notin F
    BY <1>1, <1>3, <1>4, <1>6, <1>s, <2>1 DEF Clear
  <2>2. CASE s \in F /\ ~ (first(s) <= last(i) /\ first(i) <= last(s))
    BY <1>0, <1>1, <1>2, <1>3, <1>4, <1>6, <1>s, <2>2 DEF Clear
  <2>3. CASE s \in F /\ last(s) < first(x.rest)
    BY <1>4, <1>6, <2>3 DEF Clear
  <2>4. CASE s \in U
    <3>1. first(cur) <= first(s)
      BY <1>1, <1>2, <1>s, <2>4
    <3> QED BY <1>2, <1>4, <1>6, <1>s, <3>1 DEF Clear
  <2> QED BY <1>1, <2>1, <2>2, <2>3, <2>4
<1>7. Laid(T)
  <2>1. \A s \in x.S \ {}, n \in N : Clear(s, n)
    BY <1>5, <1>6
  <2>2. \A m, n \in N : m = n \/ Clear(m, n)
    BY <1>5
  <2>3. Laid((x.S \ {}) \cup N)
    BY <1>1, <1>5, <2>1, <2>2, Replaced
  <2>4. (x.S \ {}) \cup N = T
    OBVIOUS
  <2> QED BY <2>3, <2>4
<1>8. \A s \in T \ F : first(i) <= first(s) /\ last(s) < first(cur)
  BY <1>1, <1>2, <1>3, <1>4, <1>5, <1>s
<1>9. ASSUME NEW e \in Int
      PROVE  Has(T, e) <=> Has(F, e) \/ (In(e, i) /\ e < first(cur))
  <2>1. Has(T, e) <=> Has(x.S, e) \/ (Proper(gap) /\ In(e, gap))
    BY <1>5 DEF Has
  <2>2. Proper(gap) /\ In(e, gap) <=> first(x.rest) <= e /\ e < first(cur)
    BY <1>2, <1>3, <1>4, <1>s DEF In
  <2>3. In(e, i) /\ e < first(cur) <=>
          \/ In(e, i) /\ e < first(x.rest)
          \/ first(x.rest) <= e /\ e < first(cur)
    BY <1>0, <1>1, <1>2, <1>3, <1>s DEF In
  <2> QED BY <1>1, <2>1, <2>2, <2>3
<1> QED BY <1>1, <1>7, <1>8, <1>9 DEF T, N, gap

\* A step of the loop.
LEMMA SegmentAdded ==
  ASSUME NEW F, NEW i, Proper(i), NEW U, NEW x, Filling(x, F, i, U),
         NEW cur \in U, \A u \in U : u = cur \/ last(cur) < first(u), U # {cur}
  PROVE  Filling(add_segment(x, cur), F, i, U \ {cur})
<1> DEFINE T == x.S \cup NonEmpty(left_over_of(x.rest, cur))
           r == right_over_of(x.rest, cur)
           y == add_segment(x, cur)
<1>0. /\ i \in Interval /\ first(i) \in Int /\ last(i) \in Int /\ first(i) <= last(i)
  BY ProperEnds
<1>1. y.S = T /\ y.rest = r
  BY DEF add_segment
<1>2. /\ Laid(T) /\ F \subseteq T
      /\ \A s \in T \ F : first(i) <= first(s) /\ last(s) < first(cur)
      /\ \A e \in Int : Has(T, e) <=> Has(F, e) \/ (In(e, i) /\ e < first(cur))
  BY GapFilled
<1>3. /\ Laid(x.S) /\ F \subseteq x.S
      /\ Proper(x.rest) /\ last(x.rest) = last(i) /\ first(i) <= first(x.rest)
      /\ \A u \in U : u \in F /\ first(x.rest) <= first(u) /\ first(u) <= last(i)
      /\ \A s \in F : first(s) <= last(i) /\ first(i) <= last(s) =>
           last(s) < first(x.rest) \/ s \in U
  BY DEF Filling
<1>s. \A s \in x.S : /\ first(s) \in Int /\ last(s) \in Int /\ first(s) <= last(s)
                     /\ Proper(s)
  BY <1>3, LaidEnds
<1>4. first(x.rest) \in Int /\ last(x.rest) \in Int
  BY <1>3, ProperEnds
<1>5. PICK u \in U : u # cur /\ last(cur) < first(u)
  OBVIOUS
<1>6. /\ cur \in x.S /\ cur \in F /\ u \in x.S
      /\ first(x.rest) <= first(cur) /\ last(cur) < last(i) /\ first(u) <= last(i)
  BY <1>0, <1>3, <1>5, <1>s
<1>7. Proper(r) /\ first(r) = last(cur) + 1 /\ last(r) = last(i)
  <2>1. /\ Proper(r) <=> last(cur) < last(x.rest)
        /\ Proper(r) =>
             /\ first(r) = IF last(cur) < first(x.rest) THEN first(x.rest)
                                                        ELSE last(cur) + 1
             /\ last(r) = last(x.rest)
    BY <1>3, <1>6, <1>s, RightOver
  <2>2. ~ (last(cur) < first(x.rest)) /\ last(cur) < last(x.rest)
    BY <1>3, <1>4, <1>6, <1>s
  <2> QED BY <1>3, <2>1, <2>2
<1> HIDE DEF T, r, y
<1>8. \A s \in y.S \ F : first(i) <= first(s) /\ last(s) < first(y.rest)
  <2>1. \A s \in T : last(s) \in Int
    BY <1>2, LaidEnds
  <2> QED BY <1>1, <1>2, <1>6, <1>7, <1>s, <2>1
<1>9. first(i) <= first(y.rest)
  BY <1>0, <1>1, <1>3, <1>4, <1>6, <1>7, <1>s
<1>10. \A v \in U \ {cur} : v \in F /\ first(y.rest) <= first(v) /\ first(v) <= last(i)
  BY <1>1, <1>3, <1>6, <1>7, <1>s
<1>11. \A s \in F : first(s) <= last(i) /\ first(i) <= last(s) =>
         last(s) < first(y.rest) \/ s \in U \ {cur}
  BY <1>1, <1>3, <1>4, <1>6, <1>7, <1>s
<1>12. ASSUME NEW e \in Int
       PROVE  Has(y.S, e) <=> Has(F, e) \/ (In(e, i) /\ e < first(y.rest))
  <2>1. In(e, cur) => Has(F, e)
    BY <1>6 DEF Has
  <2>2. e < first(cur) \/ In(e, cur) \/ ~ (e < first(y.rest))
    BY <1>1, <1>6, <1>7, <1>s DEF In
  <2>3. e < first(cur) => e < first(y.rest)
    BY <1>1, <1>6, <1>7, <1>s
  <2> QED BY <1>1, <1>2, <2>1, <2>2, <2>3
<1> QED BY <1>1, <1>2, <1>7, <1>8, <1>9, <1>10, <1>11, <1>12 DEF Filling, y

\* add_rear: the last interval, and what i or the interval has beyond the other.
LEMMA AddRearIs ==
  ASSUME NEW F, NEW i, Proper(i), NEW cur, NEW x, Filling(x, F, i, {cur})
  PROVE  /\ Laid(add_rear(x, cur))
         /\ \A e \in Int : Has(add_rear(x, cur), e) <=> Has(F, e) \/ In(e, i)
<1> DEFINE gap == NonEmpty(left_over_of(x.rest, cur))
           er == right_over_of(x.rest, cur)
           end_gap == NonEmpty(er)
           rr == right_over_of(cur, x.rest)
           lo == left_over_of(cur, rr)
           T == x.S \cup gap
           R == add_rear(x, cur)
<1>0. /\ i \in Interval /\ first(i) \in Int /\ last(i) \in Int /\ first(i) <= last(i)
  BY ProperEnds
<1>1. R = IF end_gap # {} \/ is_empty(rr) THEN x.S \cup gap \cup end_gap
          ELSE (x.S \ {cur}) \cup gap \cup {lo, rr}
  BY DEF add_rear
<1>2. /\ Laid(T) /\ F \subseteq T
      /\ \A s \in T \ F : first(i) <= first(s) /\ last(s) < first(cur)
      /\ \A e \in Int : Has(T, e) <=> Has(F, e) \/ (In(e, i) /\ e < first(cur))
  <2> DEFINE U == {cur}
  <2>1. /\ Filling(x, F, i, U) /\ cur \in U
        /\ \A u \in U : u = cur \/ last(cur) < first(u)
    OBVIOUS
  <2> HIDE DEF U
  <2> QED BY <2>1, GapFilled
<1>3. /\ Laid(x.S) /\ F \subseteq x.S
      /\ Proper(x.rest) /\ last(x.rest) = last(i) /\ first(i) <= first(x.rest)
      /\ cur \in F /\ first(x.rest) <= first(cur) /\ first(cur) <= last(i)
      /\ \A s \in F : first(s) <= last(i) /\ first(i) <= last(s) =>
           last(s) < first(x.rest) \/ s = cur
  BY DEF Filling
<1>s. \A s \in T : /\ first(s) \in Int /\ last(s) \in Int /\ first(s) <= last(s)
                   /\ Proper(s)
  BY <1>2, LaidEnds
<1>4. first(x.rest) \in Int /\ last(x.rest) \in Int
  BY <1>3, ProperEnds
<1>5. cur \in T /\ Proper(cur)
  BY <1>3, <1>s
<1>6. /\ er \in Interval
      /\ Proper(er) <=> last(cur) < last(i)
      /\ Proper(er) => first(er) = last(cur) + 1 /\ last(er) = last(i)
  <2>1. /\ er \in Interval
        /\ Proper(er) <=> last(cur) < last(x.rest)
        /\ Proper(er) =>
             /\ first(er) = IF last(cur) < first(x.rest) THEN first(x.rest)
                                                         ELSE last(cur) + 1
             /\ last(er) = last(x.rest)
    BY <1>3, <1>5, RightOver
  <2>2. ~ (last(cur) < first(x.rest))
    BY <1>3, <1>4, <1>5, <1>s
  <2> QED BY <1>3, <2>1, <2>2
<1>7. /\ rr \in Interval
      /\ Proper(rr) <=> last(i) < last(cur)
      /\ Proper(rr) => first(rr) = last(i) + 1 /\ last(rr) = last(cur)
  <2>1. /\ rr \in Interval
        /\ Proper(rr) <=> last(x.rest) < last(cur)
        /\ Proper(rr) =>
             /\ first(rr) = IF last(x.rest) < first(cur) THEN first(cur)
                                                         ELSE last(x.rest) + 1
             /\ last(rr) = last(cur)
    BY <1>3, <1>5, RightOver
  <2>2. ~ (last(x.rest) < first(cur))
    BY <1>3, <1>4, <1>5, <1>s
  <2> QED BY <1>3, <2>1, <2>2
<1>8. Proper(rr) => Proper(lo) /\ first(lo) = first(cur) /\ last(lo) = last(i)
  <2> SUFFICES ASSUME Proper(rr)
               PROVE  Proper(lo) /\ first(lo) = first(cur) /\ last(lo) = last(i)
    OBVIOUS
  <2>1. /\ Proper(lo) <=> first(cur) < first(rr)
        /\ Proper(lo) =>
             /\ first(lo) = first(cur)
             /\ last(lo) = IF last(cur) < first(rr) THEN last(cur) ELSE first(rr) - 1
    BY <1>5, LeftOver
  <2>2. first(cur) < first(rr) /\ ~ (last(cur) < first(rr)) /\ first(rr) - 1 = last(i)
    BY <1>0, <1>3, <1>5, <1>7, <1>s
  <2> QED BY <2>1, <2>2
<1>9. \A s \in T \ {cur} : Clear(s, cur)
  BY <1>2, <1>5, LaidApart DEF Clear
<1>10. cur \notin gap
  <2>1. \A n \in gap : n = left_over_of(x.rest, cur) /\ Proper(n)
    BY <1>3, <1>5, AtMostOne, OperationsTyped DEF Proper
  <2>2. /\ Proper(left_over_of(x.rest, cur)) =>
              /\ first(left_over_of(x.rest, cur)) = first(x.rest)
              /\ first(x.rest) < first(cur)
    BY <1>3, <1>5, LeftOver
  <2> QED BY <1>4, <1>5, <1>s, <2>1, <2>2
<1>11. \A s \in T : ~ (first(s) <= last(i) /\ last(cur) < first(s))
  BY <1>0, <1>2, <1>3, <1>4, <1>5, <1>s
<1> HIDE DEF gap, er, rr, lo, R
<1>12. CASE Proper(er)
  <2>1. end_gap = {er}
    BY <1>6, <1>12, ProperIs
  <2>2. R = (T \ {}) \cup {er}
    BY <1>1, <2>1
  <2>3. \A s \in T \ {} : Clear(s, er)
    BY <1>0, <1>6, <1>12, <1>11, <1>9, <1>5, <1>s DEF Clear
  <2>4. Laid(R)
    <3>1. IsFiniteSet({er})
      BY FS_Singleton
    <3>2. (\A n \in {er} : Proper(n)) /\ (\A s \in T \ {}, n \in {er} : Clear(s, n))
      BY <1>12, <2>3
    <3>3. \A m, n \in {er} : m = n \/ Clear(m, n)
      OBVIOUS
    <3> HIDE DEF T
    <3> QED BY <1>2, <2>2, <3>1, <3>2, <3>3, Replaced
  <2>5. ASSUME NEW e \in Int
        PROVE  Has(R, e) <=> Has(F, e) \/ In(e, i)
    <3>1. Has(R, e) <=> Has(T, e) \/ In(e, er)
      BY <2>2 DEF Has
    <3>2. In(e, cur) => Has(F, e)
      BY <1>3 DEF Has
    <3>3. In(e, i) <=> (In(e, i) /\ e < first(cur)) \/ (In(e, i) /\ In(e, cur)) \/ In(e, er)
      BY <1>0, <1>3, <1>4, <1>5, <1>6, <1>12, <1>s DEF In
    <3> QED BY <1>2, <3>1, <3>2, <3>3
  <2> QED BY <2>4, <2>5 DEF R
<1>13. CASE ~ Proper(er) /\ ~ Proper(rr)
  <2>1. end_gap = {} /\ is_empty(rr)
    BY <1>6, <1>7, <1>13, ProperIs
  <2>2. R = T
    BY <1>1, <2>1
  <2>3. last(cur) = last(i)
    BY <1>0, <1>5, <1>6, <1>7, <1>13, <1>s
  <2>4. ASSUME NEW e \in Int
        PROVE  Has(R, e) <=> Has(F, e) \/ In(e, i)
    <3>1. In(e, cur) => Has(F, e)
      BY <1>3 DEF Has
    <3>2. In(e, i) => e < first(cur) \/ In(e, cur)
      BY <1>0, <1>5, <1>s, <2>3 DEF In
    <3> QED BY <1>2, <2>2, <3>1, <3>2
  <2> QED BY <1>2, <2>2, <2>4 DEF R
<1>14. CASE ~ Proper(er) /\ Proper(rr)
  <2>1. end_gap = {} /\ ~ is_empty(rr)
    BY <1>6, <1>7, <1>14, ProperIs
  <2>2. R = (T \ {cur}) \cup {lo, rr}
    BY <1>1, <1>10, <2>1
  <2>3. \A s \in T \ {cur} : Clear(s, lo) /\ Clear(s, rr)
    BY <1>0, <1>5, <1>7, <1>8, <1>9, <1>14, <1>s, <1>3 DEF Clear
  <2>4. Laid(R)
    <3>1. IsFiniteSet({lo, rr})
      <4>1. IsFiniteSet({lo}) /\ IsFiniteSet({rr})
        BY FS_Singleton
      <4>2. IsFiniteSet({lo} \cup {rr})
        BY <4>1, FS_Union
      <4>3. {lo} \cup {rr} = {lo, rr}
        OBVIOUS
      <4> QED BY <4>2, <4>3
    <3>2. \A m, n \in {lo, rr} : m = n \/ Clear(m, n)
      BY <1>0, <1>7, <1>8, <1>14 DEF Clear
    <3>3. /\ \A n \in {lo, rr} : Proper(n)
          /\ \A s \in T \ {cur}, n \in {lo, rr} : Clear(s, n)
      BY <1>8, <1>14, <2>3
    <3> HIDE DEF T
    <3> QED BY <1>2, <2>2, <3>1, <3>2, <3>3, Replaced
  <2>5. ASSUME NEW e \in Int
        PROVE  Has(R, e) <=> Has(F, e) \/ In(e, i)
    <3>1. In(e, cur) <=> In(e, lo) \/ In(e, rr)
      BY <1>0, <1>3, <1>5, <1>7, <1>8, <1>14, <1>s DEF In
    <3>2. Has(R, e) <=> Has(T, e)
      BY <1>5, <2>2, <3>1 DEF Has
    <3>3. In(e, cur) => Has(F, e)
      BY <1>3 DEF Has
    <3>4. In(e, i) => e < first(cur) \/ In(e, cur)
      BY <1>0, <1>5, <1>7, <1>14, <1>s DEF In
    <3> QED BY <1>2, <3>2, <3>3, <3>4
  <2> QED BY <2>4, <2>5 DEF R
<1> QED BY <1>12, <1>13, <1>14

\* split_over: the set is cut where i begins and ends, and its gaps within i are
\* filled.
LEMMA SplitOverIs ==
  ASSUME NEW S, Laid(S), NEW i, Proper(i), equal_range(S, i) # {}
  PROVE  /\ Laid(split_over(S, i))
         /\ \A k \in Int : Has(split_over(S, i), k) <=> Has(S, k) \/ In(k, i)
<1> DEFINE F == add_front(S, i)
           E == equal_range(F, i)
           L == rbegin(E)
           q == InOrder(E \ {L})
           n == Len(q)
           x0 == [S |-> F, rest |-> i]
           U(k) == {q[j] : j \in k + 1 .. n} \cup {L}
<1>0. /\ i \in Interval /\ first(i) \in Int /\ last(i) \in Int /\ first(i) <= last(i)
  BY ProperEnds
<1>1. /\ Laid(F) /\ E # {}
      /\ \A k \in Int : Has(F, k) <=> Has(S, k)
      /\ \A s \in F : first(s) <= last(i) /\ first(i) <= last(s) => first(i) <= first(s)
  BY AddFrontIs
<1> HIDE DEF F
<1>2. /\ E \in SUBSET F /\ Laid(E)
      /\ \A s \in F : s \in E <=> first(s) <= last(i) /\ first(i) <= last(s)
  BY <1>1, RangeIs
<1>3. L \in E /\ \A s \in E : s = L \/ last(s) < first(L)
  BY <1>1, <1>2, FirstAndLast
<1>4. split_over(S, i) = add_rear(FoldLeft(add_segment, x0, q), L)
  BY DEF split_over, ForAll, F
<1> HIDE DEF E, L
<1>5. Laid(E \ {L})
  BY <1>2, LaidPart
<1>6. /\ q \in Seq(E \ {L}) /\ n \in Nat
      /\ \A j, k \in 1 .. n : j < k <=> last(q[j]) < first(q[k])
      /\ \A s \in E \ {L} : \E k \in 1 .. n : q[k] = s
  BY <1>5, Iterated
<1> HIDE DEF q
<1>7. \A k \in 1 .. n : q[k] \in E \ {L}
  BY <1>6
<1>8. F \in SUBSET Interval /\ x0 \in [S : SUBSET Interval, rest : Interval]
  BY <1>0, <1>1, LaidEnds
<1>9. q \in Seq(Interval)
  <2>1. E \ {L} \in SUBSET Interval
    BY <1>2, <1>8
  <2> QED BY <1>6, <2>1
<1>10. PICK h \in [0 .. n -> [S : SUBSET Interval, rest : Interval]] :
         /\ h[0] = x0 /\ h[n] = FoldLeft(add_segment, x0, q)
         /\ \A k \in 1 .. n : h[k] = add_segment(h[k - 1], q[k])
  <2> HIDE DEF x0, U
  <2>1. \E h \in [0 .. Len(q) -> [S : SUBSET Interval, rest : Interval]] :
          /\ h[0] = x0 /\ h[Len(q)] = FoldLeft(add_segment, x0, q)
          /\ \A k \in 1 .. Len(q) : h[k] = add_segment(h[k - 1], q[k]) /\ q[k] \in Interval
    BY <1>8, <1>9, AddSegmentLoop
  <2> QED BY <2>1
<1> DEFINE P == [k \in 0 .. n |-> Filling(h[k], F, i, U(k))]
<1>11. P \in [0 .. n -> BOOLEAN] /\ \A k \in 0 .. n : P[k] <=> Filling(h[k], F, i, U(k))
  BY DEF Filling
<1> HIDE DEF P, x0
<1>12. P[0]
  <2>1. x0.S = F /\ x0.rest = i
    BY DEF x0
  <2>2. \A s \in E : s \in U(0)
    BY <1>3, <1>6
  <2>3. \A u \in U(0) : u \in E
    BY <1>3, <1>7
  <2> HIDE DEF U
  <2>4. \A u \in U(0) : u \in F /\ first(i) <= first(u) /\ first(u) <= last(i)
    BY <1>1, <1>2, <2>3
  <2>5. \A e \in Int : In(e, i) => ~ (e < first(i))
    BY <1>0 DEF In
  <2>6. Filling(x0, F, i, U(0))
    BY <1>0, <1>1, <1>2, <2>1, <2>2, <2>4, <2>5 DEF Filling
  <2> QED BY <1>6, <1>10, <1>11, <2>6
<1>13. ASSUME NEW k \in 1 .. n, P[k - 1]
       PROVE  P[k]
  <2>1. k - 1 \in 0 .. n /\ k \in 0 .. n
    BY <1>6
  <2>2. Filling(h[k - 1], F, i, U(k - 1))
    BY <1>11, <1>13, <2>1
  <2>3. q[k] \in U(k - 1)
    BY <1>6
  <2>4. \A u \in U(k - 1) : u = q[k] \/ last(q[k]) < first(u)
    <3>1. last(q[k]) < first(L)
      BY <1>3, <1>7
    <3>2. \A j \in k + 1 .. n : last(q[k]) < first(q[j])
      BY <1>6
    <3>3. \A u \in U(k - 1) : u = q[k] \/ u = L \/ \E j \in k + 1 .. n : u = q[j]
      BY <1>6
    <3> QED BY <3>1, <3>2, <3>3
  <2>5. U(k - 1) # {q[k]}
    BY <1>7
  <2>6. U(k - 1) \ {q[k]} = U(k)
    <3>1. \A u \in U(k) : u # q[k] /\ u \in U(k - 1)
      <4>1. L # q[k]
        BY <1>7
      <4>2. \A j \in k + 1 .. n : q[j] # q[k] /\ q[j] \in U(k - 1)
        <5> SUFFICES ASSUME NEW j \in k + 1 .. n
                     PROVE  q[j] # q[k] /\ q[j] \in U(k - 1)
          OBVIOUS
        <5>1. j \in 1 .. n /\ j \in (k - 1) + 1 .. n /\ k < j
          BY <1>6
        <5>2. last(q[k]) < first(q[j])
          BY <1>6, <5>1
        <5>3. first(q[k]) <= last(q[k]) /\ first(q[k]) \in Int /\ last(q[k]) \in Int
          BY <1>5, <1>7, LaidEnds
        <5> QED BY <5>1, <5>2, <5>3
      <4> QED BY <4>1, <4>2
    <3>2. \A u \in U(k - 1) : u = q[k] \/ u \in U(k)
      BY <1>6
    <3> HIDE DEF U
    <3> QED BY <3>1, <3>2
  <2> HIDE DEF U
  <2>7. Filling(add_segment(h[k - 1], q[k]), F, i, U(k - 1) \ {q[k]})
    BY <2>2, <2>3, <2>4, <2>5, SegmentAdded
  <2>8. Filling(h[k], F, i, U(k))
    BY <1>10, <2>6, <2>7
  <2> QED BY <1>11, <2>1, <2>8
<1>14. \A k \in 0 .. n : P[k]
  BY <1>6, <1>11, <1>12, <1>13, Upwards
<1>15. U(n) = {L}
  BY <1>6
<1>16. Filling(h[n], F, i, {L})
  <2> HIDE DEF U
  <2>1. n \in 0 .. n
    BY <1>6
  <2>2. Filling(h[n], F, i, U(n))
    BY <1>11, <1>14, <2>1
  <2> QED BY <1>15, <2>2
<1>17. /\ Laid(add_rear(h[n], L))
       /\ \A e \in Int : Has(add_rear(h[n], L), e) <=> Has(F, e) \/ In(e, i)
  BY <1>16, AddRearIs
<1> QED BY <1>1, <1>4, <1>10, <1>17



-----------------------------------------------------------------------------
(***************************************************************************)
(* The three types together, and what their loops pass through.            *)
(***************************************************************************)

\* The sets that a type allows.
FitSets(style) == {S \in SUBSET Interval : Fit(style, S)}

\* A set of intervals that a type allows.
LEMMA FitIs ==
  ASSUME NEW style, NEW S
  PROVE  /\ S \in FitSets(style) <=> Fit(style, S)
         /\ Fit(style, S) => Laid(S)
         /\ style = "joining" => (Fit(style, S) => Joined(S))
BY LaidEnds DEF FitSets, Fit

\* The empty set is of each type.
LEMMA NoneIsFit ==
  ASSUME NEW style
  PROVE  /\ {} \in FitSets(style) /\ Fit(style, {}) /\ Laid({})
         /\ \A k : ~ Has({}, k)
BY FS_EmptySet DEF FitSets, Fit, Laid, Joined, Has

\* add: the set keeps its form and gains the elements of i and no other.
LEMMA AddIs ==
  ASSUME NEW style \in Styles, NEW S, Fit(style, S), NEW i \in Interval
  PROVE  /\ Fit(style, AddInterval(style, S, i))
         /\ \A k \in Int :
              Has(AddInterval(style, S, i), k) <=> Has(S, k) \/ In(k, i)
<1>0. style \in {"joining", "separating", "splitting"} /\ Laid(S)
  BY DEF Styles, Fit
<1>1. CASE style = "joining"
  <2>1. Joined(S)
    BY <1>1 DEF Fit
  <2> QED BY <1>0, <1>1, <2>1, JoiningAddIs DEF Fit
<1>2. CASE style = "separating"
  BY <1>0, <1>2, SeparatingAddIs DEF Fit
<1>3. CASE style = "splitting"
  <2> DEFINE A == AddInterval(style, S, i)
             E == equal_range(S, i)
  <2>1. CASE ~ Proper(i)
    <3>1. A = S
      BY <2>1, ProperIs DEF AddInterval
    <3>2. \A k \in Int : ~ In(k, i)
      BY <2>1, ProperIs DEF Proper, In
    <3> QED BY <3>1, <3>2
  <2>2. CASE Proper(i) /\ E = {}
    <3>1. A = S \cup {i}
      BY <1>3, <2>2, ProperIs DEF AddInterval
    <3> QED BY <1>0, <1>3, <2>2, <3>1, WithAnother DEF Fit
  <2>3. CASE Proper(i) /\ E # {}
    <3>1. A = split_over(S, i)
      BY <1>3, <2>3, ProperIs DEF AddInterval, splitting_add_over
    <3> QED BY <1>0, <1>3, <2>3, <3>1, SplitOverIs DEF Fit
  <2> QED BY <2>1, <2>2, <2>3
<1> QED BY <1>0, <1>1, <1>2, <1>3

\* subtract, for a type.
LEMMA SubtractFits ==
  ASSUME NEW style, NEW S, Fit(style, S), NEW i \in Interval
  PROVE  /\ Fit(style, SubtractInterval(S, i))
         /\ \A k \in Int : Has(SubtractInterval(S, i), k) <=> Has(S, k) /\ ~ In(k, i)
BY SubtractIs DEF Fit

\* common_range: every interval of S that shares an element with T is in it.
LEMMA CommonRangeIs ==
  ASSUME NEW S, Laid(S), NEW T, Laid(T)
  PROVE  /\ common_range(S, T) \in SUBSET S /\ Laid(common_range(S, T))
         /\ \A s \in S, k \in Int : In(k, s) /\ Has(T, k) => s \in common_range(S, T)
<1>1. common_range(S, T) \in SUBSET S
  BY DEF common_range
<1>2. Laid(common_range(S, T))
  BY <1>1, LaidPart
<1>3. ASSUME NEW s \in S, NEW k \in Int, In(k, s), Has(T, k)
      PROVE  s \in common_range(S, T)
  <2>1. PICK t \in T : In(k, t)
    BY <1>3 DEF Has
  <2> DEFINE b == begin(T)
             r == rbegin(T)
  <2>2. /\ b \in T /\ r \in T
        /\ t = b \/ last(b) < first(t)
        /\ t = r \/ last(t) < first(r)
    BY <2>1, FirstAndLast
  <2> HIDE DEF b, r
  <2>3. /\ first(s) \in Int /\ last(s) \in Int /\ Proper(s)
        /\ first(t) \in Int /\ last(t) \in Int
        /\ first(b) \in Int /\ last(b) \in Int /\ first(b) <= last(b) /\ Proper(b)
        /\ first(r) \in Int /\ last(r) \in Int /\ first(r) <= last(r) /\ Proper(r)
    BY <2>1, <2>2, LaidEnds
  <2>4. ~ (last(s) < first(b)) /\ ~ (last(r) < first(s))
    BY <1>3, <2>1, <2>2, <2>3 DEF In
  <2>5. ~ exclusive_less(s, b) /\ ~ exclusive_less(r, s)
    BY <2>3, <2>4, LessIs
  <2> QED BY <2>1, <2>5 DEF common_range, b, r
<1> QED BY <1>1, <1>2, <1>3

-----------------------------------------------------------------------------
(***************************************************************************)
(* Loops that add elements to a set, and loops that remove them: h are the *)
(* sets they pass through and c the elements of each step.                 *)
(***************************************************************************)

Grows(h, c, n) ==
  \A k \in 1 .. n : \A e \in Int : Has(h[k], e) <=> Has(h[k - 1], e) \/ e \in c[k]

Shrinks(h, c, n) ==
  \A k \in 1 .. n : \A e \in Int : Has(h[k], e) <=> Has(h[k - 1], e) /\ e \notin c[k]

\* The last set has what it had and the elements of every step.
LEMMA Gathers ==
  ASSUME NEW n \in Nat, NEW h, NEW c, Grows(h, c, n)
  PROVE  \A e \in Int : Has(h[n], e) <=> Has(h[0], e) \/ \E j \in 1 .. n : e \in c[j]
<1> DEFINE X(k, e) == \E j \in 1 .. k : e \in c[j]
           R(k) == \A e \in Int : Has(h[k], e) <=> Has(h[0], e) \/ X(k, e)
           P == [k \in 0 .. n |-> R(k)]
<1>1. P \in [0 .. n -> BOOLEAN] /\ \A k \in 0 .. n : P[k] <=> R(k)
  OBVIOUS
<1> HIDE DEF P
<1>2. P[0]
  <2>1. R(0)
    OBVIOUS
  <2> HIDE DEF R
  <2> QED BY <1>1, <2>1
<1>3. ASSUME NEW k \in 1 .. n, P[k - 1]
      PROVE  P[k]
  <2>1. k - 1 \in 0 .. n /\ k \in 0 .. n
    OBVIOUS
  <2>2. R(k - 1)
    BY <1>1, <1>3, <2>1
  <2>3. \A e \in Int : Has(h[k], e) <=> Has(h[k - 1], e) \/ e \in c[k]
    BY DEF Grows
  <2>4. \A e : X(k, e) <=> X(k - 1, e) \/ e \in c[k]
    <3>1. \A j \in 1 .. k : j = k \/ j \in 1 .. k - 1
      OBVIOUS
    <3>2. \A j \in 1 .. k - 1 : j \in 1 .. k
      OBVIOUS
    <3>3. k \in 1 .. k
      OBVIOUS
    <3> QED BY <3>1, <3>2, <3>3
  <2> HIDE DEF X
  <2>5. R(k)
    BY <2>2, <2>3, <2>4
  <2> HIDE DEF R
  <2> QED BY <1>1, <2>1, <2>5
<1>4. P[n]
  <2>1. n \in 0 .. n
    OBVIOUS
  <2> QED BY <1>1, <1>2, <1>3, <2>1, Upwards
<1>5. R(n)
  <2>1. n \in 0 .. n
    OBVIOUS
  <2> HIDE DEF R
  <2> QED BY <1>1, <1>4, <2>1
<1> QED BY <1>5

\* The last set has what it had but for the elements of the steps.
LEMMA Removes ==
  ASSUME NEW n \in Nat, NEW h, NEW c, Shrinks(h, c, n)
  PROVE  \A e \in Int : Has(h[n], e) <=> Has(h[0], e) /\ ~ \E j \in 1 .. n : e \in c[j]
<1> DEFINE X(k, e) == \E j \in 1 .. k : e \in c[j]
           R(k) == \A e \in Int : Has(h[k], e) <=> Has(h[0], e) /\ ~ X(k, e)
           P == [k \in 0 .. n |-> R(k)]
<1>1. P \in [0 .. n -> BOOLEAN] /\ \A k \in 0 .. n : P[k] <=> R(k)
  OBVIOUS
<1> HIDE DEF P
<1>2. P[0]
  <2>1. R(0)
    OBVIOUS
  <2> HIDE DEF R
  <2> QED BY <1>1, <2>1
<1>3. ASSUME NEW k \in 1 .. n, P[k - 1]
      PROVE  P[k]
  <2>1. k - 1 \in 0 .. n /\ k \in 0 .. n
    OBVIOUS
  <2>2. R(k - 1)
    BY <1>1, <1>3, <2>1
  <2>3. \A e \in Int : Has(h[k], e) <=> Has(h[k - 1], e) /\ e \notin c[k]
    BY DEF Shrinks
  <2>4. \A e : X(k, e) <=> X(k - 1, e) \/ e \in c[k]
    <3>1. \A j \in 1 .. k : j = k \/ j \in 1 .. k - 1
      OBVIOUS
    <3>2. \A j \in 1 .. k - 1 : j \in 1 .. k
      OBVIOUS
    <3>3. k \in 1 .. k
      OBVIOUS
    <3> QED BY <3>1, <3>2, <3>3
  <2> HIDE DEF X
  <2>5. R(k)
    BY <2>2, <2>3, <2>4
  <2> HIDE DEF R
  <2> QED BY <1>1, <2>1, <2>5
<1>4. P[n]
  <2>1. n \in 0 .. n
    OBVIOUS
  <2> QED BY <1>1, <1>2, <1>3, <2>1, Upwards
<1>5. R(n)
  <2>1. n \in 0 .. n
    OBVIOUS
  <2> HIDE DEF R
  <2> QED BY <1>1, <1>4, <2>1
<1> QED BY <1>5

\* The loop of operator +=.
LEMMA AddSetLoop ==
  ASSUME NEW style \in Styles, NEW S, NEW T,
         S \in FitSets(style), NEW q \in Seq(Interval), q = InOrder(T)
  PROVE  \E h \in [0 .. Len(q) -> FitSets(style)] :
           /\ h[0] = S
           /\ h[Len(q)] = AddSet(style, S, T)
           /\ \A k \in 1 .. Len(q) : h[k] = AddInterval(style, h[k - 1], q[k]) /\ q[k] \in Interval
<1> DEFINE D == FitSets(style)
           Q == Interval
           g == [p \in D \X Q |-> AddInterval(style, p[1], p[2])]
           iter == CHOOSE it : it = [s \in SUBSET DOMAIN q |->
                     IF s = {} THEN S ELSE AddInterval(style, it[s \ {Max(s)}], q[Max(s)])]
<1>0. S \in D /\ q \in Seq(Q)
  OBVIOUS
<1>1. ASSUME NEW y \in D, NEW t \in Q
      PROVE  AddInterval(style, y, t) \in D
  BY AddIs, FitIs
<1>2. g \in [D \X Q -> D]
  <2>1. \A p \in D \X Q : AddInterval(style, p[1], p[2]) \in D
    BY <1>1
  <2> QED BY <2>1, Zenon
<1>3. \A y \in D, t \in Q : g[<<y, t>>] = AddInterval(style, y, t)
  <2> HIDE DEF D, Q
  <2> QED OBVIOUS
<1> HIDE DEF g, D, Q
<1>4. PICK it \in [SUBSET DOMAIN q -> D] : Solves(it, D, Q, g, S, q)
  BY <1>0, <1>2, FoldSolved
<1>5. it = [s \in SUBSET DOMAIN q |->
              IF s = {} THEN S ELSE AddInterval(style, it[s \ {Max(s)}], q[Max(s)])]
  <2>1. \A s \in SUBSET DOMAIN q :
          it[s] = IF s = {} THEN S ELSE AddInterval(style, it[s \ {Max(s)}], q[Max(s)])
    BY <1>3, <1>4 DEF Solves
  <2>2. it = [s \in SUBSET DOMAIN q |-> it[s]]
    OBVIOUS
  <2> QED BY <2>1, <2>2, Zenon
<1>6. iter = [s \in SUBSET DOMAIN q |->
                IF s = {} THEN S ELSE AddInterval(style, iter[s \ {Max(s)}], q[Max(s)])]
  BY <1>5, Zenon
<1>7. AddSet(style, S, T) = iter[DOMAIN q]
  BY Zenon DEF AddSet, ForAll, FoldLeft, MapThenFoldSet
<1> HIDE DEF iter
<1>8. \A s \in SUBSET DOMAIN q :
        iter[s] = IF s = {} THEN S ELSE AddInterval(style, iter[s \ {Max(s)}], q[Max(s)])
  BY <1>6
<1>9. SolvesWithin(iter, D, g, S, q)
  <2>1. iter[{}] = S
    BY <1>8
  <2>2. ASSUME NEW s \in SUBSET DOMAIN q, s # {}, iter[s \ {Max(s)}] \in D
        PROVE  iter[s] = g[<<iter[s \ {Max(s)}], q[Max(s)]>>]
    <3>1. q[Max(s)] \in Q
      BY <1>4, <2>2 DEF Solves
    <3>2. g[<<iter[s \ {Max(s)}], q[Max(s)]>>] = AddInterval(style, iter[s \ {Max(s)}], q[Max(s)])
      BY <1>3, <2>2, <3>1
    <3>3. iter[s] = AddInterval(style, iter[s \ {Max(s)}], q[Max(s)])
      BY <1>8, <2>2
    <3> QED BY <3>2, <3>3
  <2> QED BY <2>1, <2>2 DEF SolvesWithin
<1>10. PICK h \in [0 .. Len(q) -> D] : Passes(h, Q, g, S, q, iter[DOMAIN q])
  BY <1>0, <1>2, <1>9, FoldStates
<1>11. ASSUME NEW k \in 1 .. Len(q)
       PROVE  h[k] = AddInterval(style, h[k - 1], q[k]) /\ q[k] \in Q
  <2>1. h[k - 1] \in D
    BY <1>0, LenProperties
  <2> QED BY <1>3, <1>10, <2>1 DEF Passes
<1> QED BY <1>7, <1>10, <1>11 DEF D, Q, Passes

\* operator +=
LEMMA AddSetIs ==
  ASSUME NEW style \in Styles, NEW S, Fit(style, S), NEW T, Laid(T)
  PROVE  /\ Fit(style, AddSet(style, S, T))
         /\ \A k \in Int : Has(AddSet(style, S, T), k) <=> Has(S, k) \/ Has(T, k)
<1> DEFINE E == T
           q == InOrder(E)
           n == Len(q)
           c == [k \in 1 .. n |-> {e \in Int : In(e, q[k])}]
<1>0. Laid(E)
  OBVIOUS
<1>1. /\ q \in Seq(E) /\ n \in Nat
      /\ \A s \in E : \E k \in 1 .. n : q[k] = s
  BY <1>0, Iterated
<1> HIDE DEF q, E
<1>2. S \in FitSets(style) /\ E \in SUBSET (Interval)
  BY <1>0, FitIs, LaidEnds
<1>3. q \in Seq(Interval) /\ \A k \in 1 .. n : q[k] \in E
  BY <1>1, <1>2
<1>4. PICK h \in [0 .. n -> FitSets(style)] :
        /\ h[0] = S
        /\ h[n] = AddSet(style, S, T)
        /\ \A k \in 1 .. n : h[k] = AddInterval(style, h[k - 1], q[k]) /\ q[k] \in Interval
  BY <1>2, <1>3, AddSetLoop DEF q, E
<1>5. ASSUME NEW k \in 1 .. n
      PROVE  k - 1 \in 0 .. n /\ q[k] \in E /\ Proper(q[k]) /\ q[k] \in Interval
  <2>1. k - 1 \in 0 .. n /\ q[k] \in E
    BY <1>1, <1>3
  <2> QED BY <1>0, <2>1, LaidEnds
<1>6. ASSUME NEW k \in 1 .. n
      PROVE  \A e \in Int : Has(h[k], e) <=> Has(h[k - 1], e) \/ In(e, q[k])
  BY <1>4, <1>5, AddIs, FitIs
<1>7. Grows(h, c, n)
  BY <1>6 DEF Grows
<1>8. \A e \in Int : (\E k \in 1 .. n : e \in c[k]) <=> \E t \in E : In(e, t)
  BY <1>1, <1>3
<1> HIDE DEF c, n
<1>9. \A e \in Int : Has(h[n], e) <=> Has(h[0], e) \/ \E k \in 1 .. n : e \in c[k]
  <2>1. n \in Nat
    BY <1>1
  <2> QED BY <1>7, <2>1, Gathers
<1>10. h[0] = S /\ h[n] = AddSet(style, S, T)
  BY <1>4
<1>11. Fit(style, AddSet(style, S, T))
  <2>1. n \in 0 .. n
    BY <1>1
  <2> QED BY <1>4, <2>1, FitIs
<1> QED BY <1>8, <1>9, <1>10, <1>11 DEF Has, E

\* The loop of operator -=.
LEMMA EraseSetLoop ==
  ASSUME NEW style, NEW S, NEW T,
         S \in FitSets(style), NEW q \in Seq(Interval), q = InOrder(common_range(T, S))
  PROVE  \E h \in [0 .. Len(q) -> FitSets(style)] :
           /\ h[0] = S
           /\ h[Len(q)] = EraseSet(S, T)
           /\ \A k \in 1 .. Len(q) : h[k] = SubtractInterval(h[k - 1], q[k]) /\ q[k] \in Interval
<1> DEFINE D == FitSets(style)
           Q == Interval
           g == [p \in D \X Q |-> SubtractInterval(p[1], p[2])]
           iter == CHOOSE it : it = [s \in SUBSET DOMAIN q |->
                     IF s = {} THEN S ELSE SubtractInterval(it[s \ {Max(s)}], q[Max(s)])]
<1>0. S \in D /\ q \in Seq(Q)
  OBVIOUS
<1>1. ASSUME NEW y \in D, NEW t \in Q
      PROVE  SubtractInterval(y, t) \in D
  BY SubtractFits, FitIs
<1>2. g \in [D \X Q -> D]
  <2>1. \A p \in D \X Q : SubtractInterval(p[1], p[2]) \in D
    BY <1>1
  <2> QED BY <2>1, Zenon
<1>3. \A y \in D, t \in Q : g[<<y, t>>] = SubtractInterval(y, t)
  <2> HIDE DEF D, Q
  <2> QED OBVIOUS
<1> HIDE DEF g, D, Q
<1>4. PICK it \in [SUBSET DOMAIN q -> D] : Solves(it, D, Q, g, S, q)
  BY <1>0, <1>2, FoldSolved
<1>5. it = [s \in SUBSET DOMAIN q |->
              IF s = {} THEN S ELSE SubtractInterval(it[s \ {Max(s)}], q[Max(s)])]
  <2>1. \A s \in SUBSET DOMAIN q :
          it[s] = IF s = {} THEN S ELSE SubtractInterval(it[s \ {Max(s)}], q[Max(s)])
    BY <1>3, <1>4 DEF Solves
  <2>2. it = [s \in SUBSET DOMAIN q |-> it[s]]
    OBVIOUS
  <2> QED BY <2>1, <2>2, Zenon
<1>6. iter = [s \in SUBSET DOMAIN q |->
                IF s = {} THEN S ELSE SubtractInterval(iter[s \ {Max(s)}], q[Max(s)])]
  BY <1>5, Zenon
<1>7. EraseSet(S, T) = iter[DOMAIN q]
  BY Zenon DEF EraseSet, ForAll, FoldLeft, MapThenFoldSet
<1> HIDE DEF iter
<1>8. \A s \in SUBSET DOMAIN q :
        iter[s] = IF s = {} THEN S ELSE SubtractInterval(iter[s \ {Max(s)}], q[Max(s)])
  BY <1>6
<1>9. SolvesWithin(iter, D, g, S, q)
  <2>1. iter[{}] = S
    BY <1>8
  <2>2. ASSUME NEW s \in SUBSET DOMAIN q, s # {}, iter[s \ {Max(s)}] \in D
        PROVE  iter[s] = g[<<iter[s \ {Max(s)}], q[Max(s)]>>]
    <3>1. q[Max(s)] \in Q
      BY <1>4, <2>2 DEF Solves
    <3>2. g[<<iter[s \ {Max(s)}], q[Max(s)]>>] = SubtractInterval(iter[s \ {Max(s)}], q[Max(s)])
      BY <1>3, <2>2, <3>1
    <3>3. iter[s] = SubtractInterval(iter[s \ {Max(s)}], q[Max(s)])
      BY <1>8, <2>2
    <3> QED BY <3>2, <3>3
  <2> QED BY <2>1, <2>2 DEF SolvesWithin
<1>10. PICK h \in [0 .. Len(q) -> D] : Passes(h, Q, g, S, q, iter[DOMAIN q])
  BY <1>0, <1>2, <1>9, FoldStates
<1>11. ASSUME NEW k \in 1 .. Len(q)
       PROVE  h[k] = SubtractInterval(h[k - 1], q[k]) /\ q[k] \in Q
  <2>1. h[k - 1] \in D
    BY <1>0, LenProperties
  <2> QED BY <1>3, <1>10, <2>1 DEF Passes
<1> QED BY <1>7, <1>10, <1>11 DEF D, Q, Passes

\* operator -= and erase
LEMMA EraseSetIs ==
  ASSUME NEW style, NEW S, Fit(style, S), NEW T, Laid(T)
  PROVE  /\ Fit(style, EraseSet(S, T))
         /\ \A k \in Int : Has(EraseSet(S, T), k) <=> Has(S, k) /\ ~ Has(T, k)
<1> DEFINE E == common_range(T, S)
           q == InOrder(E)
           n == Len(q)
           c == [k \in 1 .. n |-> {e \in Int : In(e, q[k])}]
<1>0. Laid(E)
  BY CommonRangeIs DEF Fit
<1>1. /\ q \in Seq(E) /\ n \in Nat
      /\ \A s \in E : \E k \in 1 .. n : q[k] = s
  BY <1>0, Iterated
<1> HIDE DEF q, E
<1>2. S \in FitSets(style) /\ E \in SUBSET (Interval)
  BY <1>0, FitIs, LaidEnds
<1>3. q \in Seq(Interval) /\ \A k \in 1 .. n : q[k] \in E
  BY <1>1, <1>2
<1>4. PICK h \in [0 .. n -> FitSets(style)] :
        /\ h[0] = S
        /\ h[n] = EraseSet(S, T)
        /\ \A k \in 1 .. n : h[k] = SubtractInterval(h[k - 1], q[k]) /\ q[k] \in Interval
  BY <1>2, <1>3, EraseSetLoop DEF q, E
<1>5. ASSUME NEW k \in 1 .. n
      PROVE  k - 1 \in 0 .. n /\ q[k] \in E /\ Proper(q[k]) /\ q[k] \in Interval
  <2>1. k - 1 \in 0 .. n /\ q[k] \in E
    BY <1>1, <1>3
  <2> QED BY <1>0, <2>1, LaidEnds
<1>6. ASSUME NEW k \in 1 .. n
      PROVE  \A e \in Int : Has(h[k], e) <=> Has(h[k - 1], e) /\ ~ In(e, q[k])
  BY <1>4, <1>5, SubtractFits, FitIs
<1>7. Shrinks(h, c, n)
  BY <1>6 DEF Shrinks
<1>8. \A e \in Int : (\E k \in 1 .. n : e \in c[k]) <=> \E t \in E : In(e, t)
  BY <1>1, <1>3
<1> HIDE DEF c, n
<1>9. \A e \in Int : Has(h[n], e) <=> Has(h[0], e) /\ ~ \E k \in 1 .. n : e \in c[k]
  <2>1. n \in Nat
    BY <1>1
  <2> QED BY <1>7, <2>1, Removes
<1>10. h[0] = S /\ h[n] = EraseSet(S, T)
  BY <1>4
<1>11. Fit(style, EraseSet(S, T))
  <2>1. n \in 0 .. n
    BY <1>1
  <2> QED BY <1>4, <2>1, FitIs
<1>12. \A e \in Int : Has(S, e) => (Has(T, e) <=> \E t \in E : In(e, t))
  BY FitIs, CommonRangeIs DEF Has, E
<1> QED BY <1>8, <1>9, <1>10, <1>11, <1>12

\* The loop of add_intersection with an interval.
LEMMA SectionLoop ==
  ASSUME NEW style \in Styles, NEW X, NEW S, NEW i, Proper(i),
         X \in FitSets(style), NEW q \in Seq(Interval), q = InOrder(equal_range(S, i))
  PROVE  \E h \in [0 .. Len(q) -> FitSets(style)] :
           /\ h[0] = X
           /\ h[Len(q)] = SectionWithInterval(style, X, S, i)
           /\ \A k \in 1 .. Len(q) : h[k] = AddInterval(style, h[k - 1], common(q[k], i)) /\ q[k] \in Interval
<1> DEFINE D == FitSets(style)
           Q == Interval
           g == [p \in D \X Q |-> AddInterval(style, p[1], common(p[2], i))]
           iter == CHOOSE it : it = [s \in SUBSET DOMAIN q |->
                     IF s = {} THEN X ELSE AddInterval(style, it[s \ {Max(s)}], common(q[Max(s)], i))]
<1>0. X \in D /\ q \in Seq(Q)
  OBVIOUS
<1>1. ASSUME NEW y \in D, NEW t \in Q
      PROVE  AddInterval(style, y, common(t, i)) \in D
  BY ProperEnds, OperationsTyped, AddIs, FitIs
<1>2. g \in [D \X Q -> D]
  <2>1. \A p \in D \X Q : AddInterval(style, p[1], common(p[2], i)) \in D
    BY <1>1
  <2> QED BY <2>1, Zenon
<1>3. \A y \in D, t \in Q : g[<<y, t>>] = AddInterval(style, y, common(t, i))
  <2> HIDE DEF D, Q
  <2> QED OBVIOUS
<1> HIDE DEF g, D, Q
<1>4. PICK it \in [SUBSET DOMAIN q -> D] : Solves(it, D, Q, g, X, q)
  BY <1>0, <1>2, FoldSolved
<1>5. it = [s \in SUBSET DOMAIN q |->
              IF s = {} THEN X ELSE AddInterval(style, it[s \ {Max(s)}], common(q[Max(s)], i))]
  <2>1. \A s \in SUBSET DOMAIN q :
          it[s] = IF s = {} THEN X ELSE AddInterval(style, it[s \ {Max(s)}], common(q[Max(s)], i))
    BY <1>3, <1>4 DEF Solves
  <2>2. it = [s \in SUBSET DOMAIN q |-> it[s]]
    OBVIOUS
  <2> QED BY <2>1, <2>2, Zenon
<1>6. iter = [s \in SUBSET DOMAIN q |->
                IF s = {} THEN X ELSE AddInterval(style, iter[s \ {Max(s)}], common(q[Max(s)], i))]
  BY <1>5, Zenon
<1>7. SectionWithInterval(style, X, S, i) = iter[DOMAIN q]
  <2>1. ~ is_empty(i)
    BY ProperEnds, ProperIs
  <2> QED BY <2>1, Zenon DEF SectionWithInterval, ForAll, FoldLeft, MapThenFoldSet
<1> HIDE DEF iter
<1>8. \A s \in SUBSET DOMAIN q :
        iter[s] = IF s = {} THEN X ELSE AddInterval(style, iter[s \ {Max(s)}], common(q[Max(s)], i))
  BY <1>6
<1>9. SolvesWithin(iter, D, g, X, q)
  <2>1. iter[{}] = X
    BY <1>8
  <2>2. ASSUME NEW s \in SUBSET DOMAIN q, s # {}, iter[s \ {Max(s)}] \in D
        PROVE  iter[s] = g[<<iter[s \ {Max(s)}], q[Max(s)]>>]
    <3>1. q[Max(s)] \in Q
      BY <1>4, <2>2 DEF Solves
    <3>2. g[<<iter[s \ {Max(s)}], q[Max(s)]>>] = AddInterval(style, iter[s \ {Max(s)}], common(q[Max(s)], i))
      BY <1>3, <2>2, <3>1
    <3>3. iter[s] = AddInterval(style, iter[s \ {Max(s)}], common(q[Max(s)], i))
      BY <1>8, <2>2
    <3> QED BY <3>2, <3>3
  <2> QED BY <2>1, <2>2 DEF SolvesWithin
<1>10. PICK h \in [0 .. Len(q) -> D] : Passes(h, Q, g, X, q, iter[DOMAIN q])
  BY <1>0, <1>2, <1>9, FoldStates
<1>11. ASSUME NEW k \in 1 .. Len(q)
       PROVE  h[k] = AddInterval(style, h[k - 1], common(q[k], i)) /\ q[k] \in Q
  <2>1. h[k - 1] \in D
    BY <1>0, LenProperties
  <2> QED BY <1>3, <1>10, <2>1 DEF Passes
<1> QED BY <1>7, <1>10, <1>11 DEF D, Q, Passes

\* add_intersection: the section gains the elements of S that are in i.
LEMMA SectionIs ==
  ASSUME NEW style \in Styles, NEW S, Laid(S), NEW X, Fit(style, X), NEW i, Proper(i)
  PROVE  /\ Fit(style, SectionWithInterval(style, X, S, i))
         /\ \A k \in Int : Has(SectionWithInterval(style, X, S, i), k) <=>
                             Has(X, k) \/ (Has(S, k) /\ In(k, i))
<1> DEFINE E == equal_range(S, i)
           q == InOrder(E)
           n == Len(q)
           c == [k \in 1 .. n |-> {e \in Int : In(e, q[k]) /\ In(e, i)}]
<1>0. Laid(E)
  BY RangeIs
<1>1. /\ q \in Seq(E) /\ n \in Nat
      /\ \A s \in E : \E k \in 1 .. n : q[k] = s
  BY <1>0, Iterated
<1> HIDE DEF q, E
<1>2. X \in FitSets(style) /\ E \in SUBSET (Interval)
  BY <1>0, FitIs, LaidEnds
<1>3. q \in Seq(Interval) /\ \A k \in 1 .. n : q[k] \in E
  BY <1>1, <1>2
<1>4. PICK h \in [0 .. n -> FitSets(style)] :
        /\ h[0] = X
        /\ h[n] = SectionWithInterval(style, X, S, i)
        /\ \A k \in 1 .. n : h[k] = AddInterval(style, h[k - 1], common(q[k], i)) /\ q[k] \in Interval
  BY ProperEnds, <1>2, <1>3, SectionLoop DEF q, E
<1>5. ASSUME NEW k \in 1 .. n
      PROVE  k - 1 \in 0 .. n /\ q[k] \in E /\ Proper(q[k]) /\ q[k] \in Interval
  <2>1. k - 1 \in 0 .. n /\ q[k] \in E
    BY <1>1, <1>3
  <2> QED BY <1>0, <2>1, LaidEnds
<1>6. ASSUME NEW k \in 1 .. n
      PROVE  \A e \in Int : Has(h[k], e) <=> Has(h[k - 1], e) \/ (In(e, q[k]) /\ In(e, i))
  <2>2. common(q[k], i) \in Interval
    BY <1>5, CommonIs
  <2>3. \A e \in Int : In(e, common(q[k], i)) <=> In(e, q[k]) /\ In(e, i)
    BY <1>5, CommonIs, ProperEnds DEF In
  <2> QED BY <1>4, <1>5, <2>2, <2>3, AddIs, FitIs
<1>7. Grows(h, c, n)
  BY <1>6 DEF Grows
<1>8. \A e \in Int : (\E k \in 1 .. n : e \in c[k]) <=> \E t \in E : In(e, t) /\ In(e, i)
  BY <1>1, <1>3
<1> HIDE DEF c, n
<1>9. \A e \in Int : Has(h[n], e) <=> Has(h[0], e) \/ \E k \in 1 .. n : e \in c[k]
  <2>1. n \in Nat
    BY <1>1
  <2> QED BY <1>7, <2>1, Gathers
<1>10. h[0] = X /\ h[n] = SectionWithInterval(style, X, S, i)
  BY <1>4
<1>11. Fit(style, SectionWithInterval(style, X, S, i))
  <2>1. n \in 0 .. n
    BY <1>1
  <2> QED BY <1>4, <2>1, FitIs
<1>12. \A e \in Int : (Has(S, e) /\ In(e, i)) <=> \E t \in E : In(e, t) /\ In(e, i)
  <2>1. ASSUME NEW e \in Int, NEW s \in S, In(e, s), In(e, i)
        PROVE  s \in E
    BY <2>1, RangeIs, LaidEnds, ProperEnds DEF In, E
  <2>2. E \in SUBSET S
    BY RangeIs DEF E
  <2> QED BY <2>1, <2>2 DEF Has
<1> QED BY <1>8, <1>9, <1>10, <1>11, <1>12

\* The intervals that are not empty.
ProperIntervals == {i \in Interval : Proper(i)}

\* What is not empty is one of them.
LEMMA ProperIntervalsAre == \A i : i \in ProperIntervals <=> Proper(i)
BY DEF ProperIntervals, Proper

\* The loop of operator &=.
LEMMA SectionSetLoop ==
  ASSUME NEW style \in Styles, NEW S, Laid(S), NEW T,
         {} \in FitSets(style), NEW q \in Seq(ProperIntervals), q = InOrder(common_range(T, S))
  PROVE  \E h \in [0 .. Len(q) -> FitSets(style)] :
           /\ h[0] = {}
           /\ h[Len(q)] = SectionWithSet(style, S, T)
           /\ \A k \in 1 .. Len(q) : h[k] = SectionWithInterval(style, h[k - 1], S, q[k]) /\ q[k] \in ProperIntervals
<1> DEFINE D == FitSets(style)
           Q == ProperIntervals
           g == [p \in D \X Q |-> SectionWithInterval(style, p[1], S, p[2])]
           iter == CHOOSE it : it = [s \in SUBSET DOMAIN q |->
                     IF s = {} THEN {} ELSE SectionWithInterval(style, it[s \ {Max(s)}], S, q[Max(s)])]
<1>0. {} \in D /\ q \in Seq(Q)
  OBVIOUS
<1>1. ASSUME NEW y \in D, NEW t \in Q
      PROVE  SectionWithInterval(style, y, S, t) \in D
  BY ProperIntervalsAre, SectionIs, FitIs
<1>2. g \in [D \X Q -> D]
  <2>1. \A p \in D \X Q : SectionWithInterval(style, p[1], S, p[2]) \in D
    BY <1>1
  <2> QED BY <2>1, Zenon
<1>3. \A y \in D, t \in Q : g[<<y, t>>] = SectionWithInterval(style, y, S, t)
  <2> HIDE DEF D, Q
  <2> QED OBVIOUS
<1> HIDE DEF g, D, Q
<1>4. PICK it \in [SUBSET DOMAIN q -> D] : Solves(it, D, Q, g, {}, q)
  BY <1>0, <1>2, FoldSolved
<1>5. it = [s \in SUBSET DOMAIN q |->
              IF s = {} THEN {} ELSE SectionWithInterval(style, it[s \ {Max(s)}], S, q[Max(s)])]
  <2>1. \A s \in SUBSET DOMAIN q :
          it[s] = IF s = {} THEN {} ELSE SectionWithInterval(style, it[s \ {Max(s)}], S, q[Max(s)])
    BY <1>3, <1>4 DEF Solves
  <2>2. it = [s \in SUBSET DOMAIN q |-> it[s]]
    OBVIOUS
  <2> QED BY <2>1, <2>2, Zenon
<1>6. iter = [s \in SUBSET DOMAIN q |->
                IF s = {} THEN {} ELSE SectionWithInterval(style, iter[s \ {Max(s)}], S, q[Max(s)])]
  BY <1>5, Zenon
<1>7. SectionWithSet(style, S, T) = iter[DOMAIN q]
  BY Zenon DEF SectionWithSet, ForAll, FoldLeft, MapThenFoldSet
<1> HIDE DEF iter
<1>8. \A s \in SUBSET DOMAIN q :
        iter[s] = IF s = {} THEN {} ELSE SectionWithInterval(style, iter[s \ {Max(s)}], S, q[Max(s)])
  BY <1>6
<1>9. SolvesWithin(iter, D, g, {}, q)
  <2>1. iter[{}] = {}
    BY <1>8
  <2>2. ASSUME NEW s \in SUBSET DOMAIN q, s # {}, iter[s \ {Max(s)}] \in D
        PROVE  iter[s] = g[<<iter[s \ {Max(s)}], q[Max(s)]>>]
    <3>1. q[Max(s)] \in Q
      BY <1>4, <2>2 DEF Solves
    <3>2. g[<<iter[s \ {Max(s)}], q[Max(s)]>>] = SectionWithInterval(style, iter[s \ {Max(s)}], S, q[Max(s)])
      BY <1>3, <2>2, <3>1
    <3>3. iter[s] = SectionWithInterval(style, iter[s \ {Max(s)}], S, q[Max(s)])
      BY <1>8, <2>2
    <3> QED BY <3>2, <3>3
  <2> QED BY <2>1, <2>2 DEF SolvesWithin
<1>10. PICK h \in [0 .. Len(q) -> D] : Passes(h, Q, g, {}, q, iter[DOMAIN q])
  BY <1>0, <1>2, <1>9, FoldStates
<1>11. ASSUME NEW k \in 1 .. Len(q)
       PROVE  h[k] = SectionWithInterval(style, h[k - 1], S, q[k]) /\ q[k] \in Q
  <2>1. h[k - 1] \in D
    BY <1>0, LenProperties
  <2> QED BY <1>3, <1>10, <2>1 DEF Passes
<1> QED BY <1>7, <1>10, <1>11 DEF D, Q, Passes

\* operator &=
LEMMA SectionSetIs ==
  ASSUME NEW style \in Styles, NEW S, Laid(S), NEW T, Laid(T)
  PROVE  /\ Fit(style, SectionWithSet(style, S, T))
         /\ \A k \in Int : Has(SectionWithSet(style, S, T), k) <=> Has(S, k) /\ Has(T, k)
<1> DEFINE E == common_range(T, S)
           q == InOrder(E)
           n == Len(q)
           c == [k \in 1 .. n |-> {e \in Int : Has(S, e) /\ In(e, q[k])}]
<1>0. Laid(E)
  BY CommonRangeIs
<1>1. /\ q \in Seq(E) /\ n \in Nat
      /\ \A s \in E : \E k \in 1 .. n : q[k] = s
  BY <1>0, Iterated
<1> HIDE DEF q, E
<1>2. {} \in FitSets(style) /\ E \in SUBSET (ProperIntervals)
  <2>1. \A s \in E : s \in Interval /\ Proper(s)
    BY <1>0, LaidEnds
  <2> QED BY <2>1, FitIs, NoneIsFit DEF ProperIntervals
<1>3. q \in Seq(ProperIntervals) /\ \A k \in 1 .. n : q[k] \in E
  BY <1>1, <1>2
<1>4. PICK h \in [0 .. n -> FitSets(style)] :
        /\ h[0] = {}
        /\ h[n] = SectionWithSet(style, S, T)
        /\ \A k \in 1 .. n : h[k] = SectionWithInterval(style, h[k - 1], S, q[k]) /\ q[k] \in ProperIntervals
  BY <1>2, <1>3, SectionSetLoop DEF q, E
<1>5. ASSUME NEW k \in 1 .. n
      PROVE  k - 1 \in 0 .. n /\ q[k] \in E /\ Proper(q[k]) /\ q[k] \in Interval
  <2>1. k - 1 \in 0 .. n /\ q[k] \in E
    BY <1>1, <1>3
  <2> QED BY <1>0, <2>1, LaidEnds
<1>6. ASSUME NEW k \in 1 .. n
      PROVE  \A e \in Int : Has(h[k], e) <=> Has(h[k - 1], e) \/ (Has(S, e) /\ In(e, q[k]))
  <2>1. Fit(style, h[k - 1])
    BY <1>4, <1>5, FitIs
  <2> QED BY <1>4, <1>5, <2>1, SectionIs
<1>7. Grows(h, c, n)
  BY <1>6 DEF Grows
<1>8. \A e \in Int : (\E k \in 1 .. n : e \in c[k]) <=> \E t \in E : Has(S, e) /\ In(e, t)
  BY <1>1, <1>3
<1> HIDE DEF c, n
<1>9. \A e \in Int : Has(h[n], e) <=> Has(h[0], e) \/ \E k \in 1 .. n : e \in c[k]
  <2>1. n \in Nat
    BY <1>1
  <2> QED BY <1>7, <2>1, Gathers
<1>10. h[0] = {} /\ h[n] = SectionWithSet(style, S, T)
  BY <1>4
<1>11. Fit(style, SectionWithSet(style, S, T))
  <2>1. n \in 0 .. n
    BY <1>1
  <2> QED BY <1>4, <2>1, FitIs
<1>12. \A e \in Int : (Has(S, e) /\ Has(T, e)) <=> \E t \in E : Has(S, e) /\ In(e, t)
  BY CommonRangeIs DEF Has, E
<1> QED BY <1>8, <1>9, <1>10, <1>11, <1>12, NoneIsFit

\* intersects: some interval of the other set has an element of this one.
LEMMA IntersectsSetIs ==
  ASSUME NEW style \in Styles, NEW S, Laid(S), NEW T, Laid(T)
  PROVE  IntersectsSet(style, S, T) <=> \E k \in Int : Has(S, k) /\ Has(T, k)
<1> DEFINE A(t) == SectionWithInterval(style, {}, S, t)
<1>1. ASSUME NEW t \in T
      PROVE  /\ Laid(A(t))
             /\ \A k \in Int : Has(A(t), k) <=> Has(S, k) /\ In(k, t)
  BY SectionIs, LaidEnds, NoneIsFit, FitIs
<1> HIDE DEF A
<1>2. ASSUME NEW t \in T
      PROVE  A(t) # {} <=> \E k \in Int : Has(A(t), k)
  <2>1. ASSUME NEW a \in A(t)
        PROVE  first(a) \in Int /\ In(first(a), a)
    BY <1>1, LaidEnds DEF In
  <2> QED BY <2>1 DEF Has
<1>3. IntersectsSet(style, S, T) <=> \E t \in common_range(T, S) : A(t) # {}
  BY DEF IntersectsSet, A
<1>4. common_range(T, S) \in SUBSET T
  BY CommonRangeIs
<1>5. \A k \in Int : (Has(S, k) /\ Has(T, k)) <=> \E t \in common_range(T, S) : Has(S, k) /\ In(k, t)
  BY CommonRangeIs DEF Has
<1> QED BY <1>1, <1>2, <1>3, <1>4, <1>5

-----------------------------------------------------------------------------
(***************************************************************************)
(* flip.                                                                   *)
(***************************************************************************)

\* What a loop over q has still to pass after k steps.
Rest(q, k) == {q[j] : j \in k + 1 .. Len(q)}

\* A loop passes the intervals one by one, each before those still to come.
LEMMA RestIs ==
  ASSUME NEW E, Laid(E), NEW q, q = InOrder(E)
  PROVE  /\ Rest(q, 0) = E /\ Rest(q, Len(q)) = {}
         /\ \A k \in 1 .. Len(q) :
              /\ q[k] \in Rest(q, k - 1) /\ Rest(q, k) = Rest(q, k - 1) \ {q[k]}
              /\ \A u \in Rest(q, k - 1) : u = q[k] \/ last(q[k]) < first(u)
<1> DEFINE n == Len(q)
<1>1. /\ q \in Seq(E) /\ n \in Nat
      /\ \A j, k \in 1 .. n : j < k <=> last(q[j]) < first(q[k])
      /\ \A s \in E : \E k \in 1 .. n : q[k] = s
  BY Iterated
<1>2. \A k \in 1 .. n : q[k] \in E /\ first(q[k]) <= last(q[k]) /\ first(q[k]) \in Int /\ last(q[k]) \in Int
  BY <1>1, LaidEnds
<1> HIDE DEF n
<1>3. Rest(q, 0) = E
  <2>1. 0 + 1 .. n = 1 .. n
    OBVIOUS
  <2>2. Rest(q, 0) = {q[j] : j \in 1 .. n}
    BY <2>1 DEF Rest, n
  <2>3. {q[j] : j \in 1 .. n} = E
    BY <1>1, <1>2
  <2> QED BY <2>2, <2>3
<1>4. Rest(q, n) = {}
  BY <1>1 DEF Rest, n
<1>5. ASSUME NEW k \in 1 .. n
      PROVE  /\ q[k] \in Rest(q, k - 1) /\ Rest(q, k) = Rest(q, k - 1) \ {q[k]}
             /\ \A u \in Rest(q, k - 1) : u = q[k] \/ last(q[k]) < first(u)
  <2>1. \A j \in k + 1 .. n : j \in 1 .. n /\ j \in (k - 1) + 1 .. n /\ k < j
    BY <1>1
  <2>2. \A j \in k + 1 .. n : last(q[k]) < first(q[j])
    BY <1>1, <2>1
  <2>3. \A j \in k + 1 .. n : q[j] # q[k]
    BY <1>2, <2>1, <2>2
  <2>4. k \in (k - 1) + 1 .. n /\ \A j \in (k - 1) + 1 .. n : j = k \/ j \in k + 1 .. n
    BY <1>1
  <2>5. q[k] \in Rest(q, k - 1)
    BY <2>4 DEF Rest, n
  <2>6. \A u \in Rest(q, k - 1) : u = q[k] \/ last(q[k]) < first(u)
    BY <2>2, <2>4 DEF Rest, n
  <2>7. \A u \in Rest(q, k) : u \in Rest(q, k - 1) /\ u # q[k]
    BY <2>1, <2>3 DEF Rest, n
  <2>8. \A u \in Rest(q, k - 1) : u = q[k] \/ u \in Rest(q, k)
    BY <2>4 DEF Rest, n
  <2> QED BY <2>5, <2>6, <2>7, <2>8
<1> QED BY <1>3, <1>4, <1>5 DEF n

\* A step of the loop of flip, which passes an interval that is covered.
SetFlipStep(style, x, covered) ==
  [S |-> AddInterval(style, SubtractInterval(x.S, common(x.span, covered)),
                     left_over_of(x.span, covered)),
   span |-> right_over_of(x.span, covered)]

\* What the loop passes through.
SetFlipStates(style) == [S : FitSets(style), span : Interval]

\* A step of the loop keeps the form of the set.
LEMMA SetFlipStepTyped ==
  ASSUME NEW style \in Styles, NEW x \in SetFlipStates(style), NEW t \in Interval
  PROVE  SetFlipStep(style, x, t) \in SetFlipStates(style)
<1>1. Fit(style, x.S) /\ x.span \in Interval
  BY FitIs DEF SetFlipStates
<1>2. /\ common(x.span, t) \in Interval /\ left_over_of(x.span, t) \in Interval
      /\ right_over_of(x.span, t) \in Interval
  BY <1>1, OperationsTyped
<1>3. Fit(style, SubtractInterval(x.S, common(x.span, t)))
  BY <1>1, <1>2, SubtractFits
<1>4. AddInterval(style, SubtractInterval(x.S, common(x.span, t)), left_over_of(x.span, t))
        \in FitSets(style)
  BY <1>2, <1>3, AddIs, FitIs
<1> QED BY <1>2, <1>4 DEF SetFlipStep, SetFlipStates

\* The loop of flip.
LEMMA SetFlipLoop ==
  ASSUME NEW style \in Styles, NEW S, NEW i,
         [S |-> S, span |-> i] \in SetFlipStates(style), NEW q \in Seq(Interval), q = InOrder(equal_range(S, i))
  PROVE  \E h \in [0 .. Len(q) -> SetFlipStates(style)] :
           /\ h[0] = [S |-> S, span |-> i]
           /\ FlipInterval(style, S, i) = AddInterval(style, h[Len(q)].S, h[Len(q)].span)
           /\ \A k \in 1 .. Len(q) : h[k] = SetFlipStep(style, h[k - 1], q[k]) /\ q[k] \in Interval
<1> DEFINE D == SetFlipStates(style)
           Q == Interval
           g == [p \in D \X Q |-> SetFlipStep(style, p[1], p[2])]
           iter == CHOOSE it : it = [s \in SUBSET DOMAIN q |->
                     IF s = {} THEN [S |-> S, span |-> i] ELSE SetFlipStep(style, it[s \ {Max(s)}], q[Max(s)])]
<1>0. [S |-> S, span |-> i] \in D /\ q \in Seq(Q)
  OBVIOUS
<1>1. ASSUME NEW y \in D, NEW t \in Q
      PROVE  SetFlipStep(style, y, t) \in D
  BY SetFlipStepTyped
<1>2. g \in [D \X Q -> D]
  <2>1. \A p \in D \X Q : SetFlipStep(style, p[1], p[2]) \in D
    BY <1>1
  <2> QED BY <2>1, Zenon
<1>3. \A y \in D, t \in Q : g[<<y, t>>] = SetFlipStep(style, y, t)
  <2> HIDE DEF D, Q
  <2> QED OBVIOUS
<1> HIDE DEF g, D, Q
<1>4. PICK it \in [SUBSET DOMAIN q -> D] : Solves(it, D, Q, g, [S |-> S, span |-> i], q)
  BY <1>0, <1>2, FoldSolved
<1>5. it = [s \in SUBSET DOMAIN q |->
              IF s = {} THEN [S |-> S, span |-> i] ELSE SetFlipStep(style, it[s \ {Max(s)}], q[Max(s)])]
  <2>1. \A s \in SUBSET DOMAIN q :
          it[s] = IF s = {} THEN [S |-> S, span |-> i] ELSE SetFlipStep(style, it[s \ {Max(s)}], q[Max(s)])
    BY <1>3, <1>4 DEF Solves
  <2>2. it = [s \in SUBSET DOMAIN q |-> it[s]]
    OBVIOUS
  <2> QED BY <2>1, <2>2, Zenon
<1>6. iter = [s \in SUBSET DOMAIN q |->
                IF s = {} THEN [S |-> S, span |-> i] ELSE SetFlipStep(style, iter[s \ {Max(s)}], q[Max(s)])]
  BY <1>5, Zenon
<1>7. FlipInterval(style, S, i) = AddInterval(style, iter[DOMAIN q].S, iter[DOMAIN q].span)
  BY Zenon DEF FlipInterval, SetFlipStep, ForAll, FoldLeft, MapThenFoldSet
<1> HIDE DEF iter
<1>8. \A s \in SUBSET DOMAIN q :
        iter[s] = IF s = {} THEN [S |-> S, span |-> i] ELSE SetFlipStep(style, iter[s \ {Max(s)}], q[Max(s)])
  BY <1>6
<1>9. SolvesWithin(iter, D, g, [S |-> S, span |-> i], q)
  <2>1. iter[{}] = [S |-> S, span |-> i]
    BY <1>8
  <2>2. ASSUME NEW s \in SUBSET DOMAIN q, s # {}, iter[s \ {Max(s)}] \in D
        PROVE  iter[s] = g[<<iter[s \ {Max(s)}], q[Max(s)]>>]
    <3>1. q[Max(s)] \in Q
      BY <1>4, <2>2 DEF Solves
    <3>2. g[<<iter[s \ {Max(s)}], q[Max(s)]>>] = SetFlipStep(style, iter[s \ {Max(s)}], q[Max(s)])
      BY <1>3, <2>2, <3>1
    <3>3. iter[s] = SetFlipStep(style, iter[s \ {Max(s)}], q[Max(s)])
      BY <1>8, <2>2
    <3> QED BY <3>2, <3>3
  <2> QED BY <2>1, <2>2 DEF SolvesWithin
<1>10. PICK h \in [0 .. Len(q) -> D] : Passes(h, Q, g, [S |-> S, span |-> i], q, iter[DOMAIN q])
  BY <1>0, <1>2, <1>9, FoldStates
<1>11. ASSUME NEW k \in 1 .. Len(q)
       PROVE  h[k] = SetFlipStep(style, h[k - 1], q[k]) /\ q[k] \in Q
  <2>1. h[k - 1] \in D
    BY <1>0, LenProperties
  <2> QED BY <1>3, <1>10, <2>1 DEF Passes
<1> QED BY <1>7, <1>10, <1>11 DEF D, Q, Passes

\* The loop of flip over the intervals of S that i overlaps, of which U are still
\* to come: what lies in i before f is flipped, and the span is what lies behind.
Flipping(x, f, S, i, U) ==
  /\ f \in Int /\ first(i) <= f
  /\ x.span \in Interval
  /\ Proper(x.span) => first(x.span) = f /\ last(x.span) = last(i)
  /\ ~ Proper(x.span) => last(i) < f
  /\ \A u \in U : u \in S /\ Proper(x.span) /\ first(u) <= last(i) /\ f <= last(u)
  /\ \A s \in S : f <= last(i) /\ first(s) <= last(i) /\ first(i) <= last(s) =>
       last(s) < f \/ s \in U
  /\ \A e \in Int : Has(x.S, e) <=> IF In(e, i) /\ e < f THEN ~ Has(S, e) ELSE Has(S, e)

\* A step of the loop flips what lies in i up to the end of the interval.
LEMMA FlipPasses ==
  ASSUME NEW style \in Styles, NEW S, Laid(S), NEW i, Proper(i),
         NEW x \in SetFlipStates(style), NEW f, NEW U, Flipping(x, f, S, i, U),
         NEW cur \in U, \A u \in U : u = cur \/ last(cur) < first(u)
  PROVE  \E g : Flipping(SetFlipStep(style, x, cur), g, S, i, U \ {cur})
<1> DEFINE y == SetFlipStep(style, x, cur)
           mid == common(x.span, cur)
           gap == left_over_of(x.span, cur)
           r == right_over_of(x.span, cur)
           T == SubtractInterval(x.S, mid)
           g == IF last(cur) < last(i) THEN last(cur) + 1 ELSE last(i) + 1
<1>0. /\ i \in Interval /\ first(i) \in Int /\ last(i) \in Int /\ first(i) <= last(i)
  BY ProperEnds
<1>1. /\ f \in Int /\ first(i) <= f /\ Proper(x.span) /\ first(x.span) = f /\ last(x.span) = last(i)
      /\ \A u \in U : u \in S /\ first(u) <= last(i) /\ f <= last(u)
      /\ \A s \in S : f <= last(i) /\ first(s) <= last(i) /\ first(i) <= last(s) =>
           last(s) < f \/ s \in U
      /\ \A e \in Int : Has(x.S, e) <=> IF In(e, i) /\ e < f THEN ~ Has(S, e) ELSE Has(S, e)
  BY DEF Flipping
<1>2. Fit(style, x.S)
  BY FitIs DEF SetFlipStates
<1>s. \A s \in S : /\ first(s) \in Int /\ last(s) \in Int /\ first(s) <= last(s) /\ Proper(s)
  BY LaidEnds
<1>3. /\ cur \in S /\ Proper(cur) /\ first(cur) \in Int /\ last(cur) \in Int /\ first(cur) <= last(cur)
      /\ first(cur) <= last(i) /\ f <= last(cur) /\ f <= last(i)
  BY <1>0, <1>1, <1>s, ProperEnds
<1>4. /\ mid \in Interval
      /\ \A e \in Int : In(e, mid) <=> f <= e /\ e <= last(i) /\ In(e, cur)
  <2>1. /\ first(mid) = IF first(x.span) < first(cur) THEN first(cur) ELSE first(x.span)
        /\ last(mid) = IF last(x.span) < last(cur) THEN last(x.span) ELSE last(cur)
        /\ mid \in Interval
    BY <1>1, <1>3, CommonIs
  <2> QED BY <1>0, <1>1, <1>3, <2>1 DEF In
<1>5. /\ gap \in Interval
      /\ \A e \in Int : In(e, gap) <=> f <= e /\ e < first(cur)
  <2>1. /\ gap \in Interval
        /\ Proper(gap) <=> first(x.span) < first(cur)
        /\ Proper(gap) =>
             /\ first(gap) = first(x.span)
             /\ last(gap) = IF last(x.span) < first(cur) THEN last(x.span) ELSE first(cur) - 1
    BY <1>1, <1>3, LeftOver
  <2>2. CASE Proper(gap)
    BY <1>0, <1>1, <1>3, <2>1, <2>2 DEF In
  <2>3. CASE ~ Proper(gap)
    <3>1. \A e \in Int : ~ In(e, gap)
      BY <2>1, <2>3, Ends DEF Proper, In
    <3> QED BY <1>0, <1>1, <1>3, <2>1, <2>3, <3>1
  <2> QED BY <2>1, <2>2, <2>3
<1>6. /\ r \in Interval
      /\ Proper(r) <=> last(cur) < last(i)
      /\ Proper(r) => first(r) = last(cur) + 1 /\ last(r) = last(i)
  <2>1. /\ r \in Interval
        /\ Proper(r) <=> last(cur) < last(x.span)
        /\ Proper(r) =>
             /\ first(r) = IF last(cur) < first(x.span) THEN first(x.span) ELSE last(cur) + 1
             /\ last(r) = last(x.span)
    BY <1>1, <1>3, RightOver
  <2> QED BY <1>0, <1>1, <1>3, <2>1
<1> HIDE DEF mid, gap, r
<1>7. /\ Fit(style, T)
      /\ \A e \in Int : Has(T, e) <=> Has(x.S, e) /\ ~ In(e, mid)
  BY <1>2, <1>4, SubtractFits
<1> HIDE DEF T
<1>8. \A e \in Int : Has(AddInterval(style, T, gap), e) <=> Has(T, e) \/ In(e, gap)
  BY <1>5, <1>7, AddIs
<1>9. y.S = AddInterval(style, T, gap) /\ y.span = r
  BY DEF SetFlipStep, T, gap, r, mid
<1> HIDE DEF y
<1>10. g \in Int /\ first(i) <= g /\ f <= g
  BY <1>0, <1>1, <1>3
<1>11. /\ Proper(y.span) => first(y.span) = g /\ last(y.span) = last(i)
       /\ ~ Proper(y.span) => last(i) < g
  BY <1>0, <1>3, <1>6, <1>9
<1>12. \A u \in U \ {cur} : u \in S /\ Proper(y.span) /\ first(u) <= last(i) /\ g <= last(u)
  <2> SUFFICES ASSUME NEW u \in U \ {cur}
               PROVE  u \in S /\ Proper(y.span) /\ first(u) <= last(i) /\ g <= last(u)
    OBVIOUS
  <2>1. last(cur) < first(u) /\ u \in S /\ first(u) <= last(i)
    BY <1>1
  <2>2. first(u) \in Int /\ last(u) \in Int /\ first(u) <= last(u)
    BY <1>s, <2>1
  <2>3. last(cur) < last(i) /\ g = last(cur) + 1
    BY <1>0, <1>3, <2>1, <2>2
  <2> QED BY <1>3, <1>6, <1>9, <2>1, <2>2, <2>3
<1>13. \A s \in S : g <= last(i) /\ first(s) <= last(i) /\ first(i) <= last(s) =>
          last(s) < g \/ s \in U \ {cur}
  <2> SUFFICES ASSUME NEW s \in S, g <= last(i), first(s) <= last(i), first(i) <= last(s)
               PROVE  last(s) < g \/ s \in U \ {cur}
    OBVIOUS
  <2>1. first(s) \in Int /\ last(s) \in Int /\ first(s) <= last(s)
    BY <1>s
  <2>2. CASE last(s) < f
    BY <1>1, <1>10, <2>1, <2>2
  <2>3. CASE s = cur /\ last(cur) < last(i)
    BY <1>3, <2>3
  <2>4. CASE s = cur /\ ~ (last(cur) < last(i))
    BY <1>0, <2>4
  <2> QED BY <1>1, <1>3, <2>2, <2>3, <2>4

<1>14. ASSUME NEW e \in Int
       PROVE  Has(y.S, e) <=> IF In(e, i) /\ e < g THEN ~ Has(S, e) ELSE Has(S, e)
  <2>1. Has(y.S, e) <=> (Has(x.S, e) /\ ~ In(e, mid)) \/ In(e, gap)
    BY <1>7, <1>8, <1>9
  <2>2. Has(x.S, e) <=> IF In(e, i) /\ e < f THEN ~ Has(S, e) ELSE Has(S, e)
    BY <1>1
  <2>3. /\ In(e, mid) <=> f <= e /\ e <= last(i) /\ In(e, cur)
        /\ In(e, gap) <=> f <= e /\ e < first(cur)
        /\ In(e, i) <=> first(i) <= e /\ e <= last(i)
        /\ In(e, cur) <=> first(cur) <= e /\ e <= last(cur)
    BY <1>4, <1>5 DEF In
  <2>4. CASE e < f \/ last(i) < e
    <3>1. ~ In(e, mid) /\ ~ In(e, gap)
      BY <1>0, <1>1, <1>3, <2>3, <2>4
    <3>2. In(e, i) /\ e < g <=> In(e, i) /\ e < f
      BY <1>0, <1>1, <1>10, <2>3, <2>4
    <3> QED BY <2>1, <2>2, <3>1, <3>2
  <2>5. CASE f <= e /\ e <= last(i) /\ In(e, cur)
    <3>1. Has(S, e)
      BY <1>3, <2>5 DEF Has
    <3>2. In(e, i) /\ e < g
      BY <1>0, <1>1, <1>3, <2>3, <2>5
    <3>3. In(e, mid) /\ ~ In(e, gap)
      BY <1>3, <2>3, <2>5
    <3> QED BY <2>1, <3>1, <3>2, <3>3
  <2>6. CASE f <= e /\ e <= last(i) /\ e < first(cur)
    <3>1. ~ Has(S, e)
      <4> SUFFICES ASSUME NEW s \in S, In(e, s)
                   PROVE  FALSE
        BY DEF Has
      <4>1. /\ first(s) \in Int /\ last(s) \in Int /\ first(s) <= e /\ e <= last(s)
        BY <1>s DEF In
      <4>2. s \in U
        BY <1>0, <1>1, <2>6, <4>1
      <4> QED BY <1>3, <2>6, <4>1, <4>2
    <3>2. In(e, i) /\ e < g
      BY <1>0, <1>1, <1>3, <2>3, <2>6
    <3>3. In(e, gap)
      BY <2>3, <2>6
    <3> QED BY <2>1, <3>1, <3>2, <3>3
  <2>7. CASE f <= e /\ e <= last(i) /\ last(cur) < e
    <3>1. ~ In(e, mid) /\ ~ In(e, gap) /\ ~ (e < f) /\ ~ (e < g)
      BY <1>0, <1>1, <1>3, <2>3, <2>7
    <3> QED BY <2>1, <2>2, <3>1
  <2> QED BY <1>0, <1>1, <1>3, <2>3, <2>4, <2>5, <2>6, <2>7
<1>15. y.span \in Interval
  BY <1>6, <1>9
<1> HIDE DEF g
<1>16. Flipping(y, g, S, i, U \ {cur})
  BY <1>10, <1>11, <1>12, <1>13, <1>14, <1>15 DEF Flipping
<1> QED BY <1>16 DEF y

\* flip: the elements of i are in the set if they were not.
LEMMA FlipIs ==
  ASSUME NEW style \in Styles, NEW S, Fit(style, S), NEW i, Proper(i)
  PROVE  /\ Fit(style, FlipInterval(style, S, i))
         /\ \A k \in Int : Has(FlipInterval(style, S, i), k) <=>
                             IF In(k, i) THEN ~ Has(S, k) ELSE Has(S, k)
<1> DEFINE E == equal_range(S, i)
           q == InOrder(E)
           n == Len(q)
<1>0. /\ i \in Interval /\ first(i) \in Int /\ last(i) \in Int /\ first(i) <= last(i)
      /\ Laid(S)
  BY ProperEnds DEF Fit
<1>1. /\ E \in SUBSET S /\ Laid(E)
      /\ \A s \in S : s \in E <=> first(s) <= last(i) /\ first(i) <= last(s)
  BY <1>0, RangeIs
<1>2. q \in Seq(E) /\ n \in Nat
  BY <1>1, Iterated
<1>3. /\ Rest(q, 0) = E /\ Rest(q, n) = {}
      /\ \A k \in 1 .. n :
           /\ q[k] \in Rest(q, k - 1) /\ Rest(q, k) = Rest(q, k - 1) \ {q[k]}
           /\ \A u \in Rest(q, k - 1) : u = q[k] \/ last(q[k]) < first(u)
  BY <1>1, RestIs
<1> DEFINE x0 == [S |-> S, span |-> i]
<1>4. x0 \in SetFlipStates(style) /\ x0.S = S /\ x0.span = i
  BY <1>0, FitIs DEF SetFlipStates
<1>5. \A s \in E : s \in Interval
  BY <1>1, LaidEnds
<1> HIDE DEF E, q
<1>6. q \in Seq(Interval)
  BY <1>2, <1>5
<1>7. PICK h \in [0 .. n -> SetFlipStates(style)] :
        /\ h[0] = x0
        /\ FlipInterval(style, S, i) = AddInterval(style, h[n].S, h[n].span)
        /\ \A k \in 1 .. n : h[k] = SetFlipStep(style, h[k - 1], q[k]) /\ q[k] \in Interval
  BY <1>4, <1>6, SetFlipLoop DEF q, E
<1> HIDE DEF n, x0
<1> DEFINE R(k) == \E f : Flipping(h[k], f, S, i, Rest(q, k))
           P == [k \in 0 .. n |-> R(k)]
<1>8. P \in [0 .. n -> BOOLEAN] /\ \A k \in 0 .. n : P[k] <=> R(k)
  OBVIOUS
<1> HIDE DEF P
<1>9. P[0]
  <2>1. \A u \in E : u \in S /\ first(u) <= last(i) /\ first(i) <= last(u)
    BY <1>1
  <2>2. \A e \in Int : ~ (In(e, i) /\ e < first(i))
    BY <1>0 DEF In
  <2>3. Flipping(x0, first(i), S, i, E)
    BY <1>0, <1>1, <1>4, <2>1, <2>2 DEF Flipping
  <2>4. R(0)
    BY <1>3, <1>7, <2>3
  <2> HIDE DEF R
  <2> QED BY <1>2, <1>8, <2>4
<1>10. ASSUME NEW k \in 1 .. n, P[k - 1]
       PROVE  P[k]
  <2>1. k - 1 \in 0 .. n /\ k \in 0 .. n
    BY <1>2
  <2>2. R(k - 1)
    BY <1>8, <1>10, <2>1
  <2>3. PICK f : Flipping(h[k - 1], f, S, i, Rest(q, k - 1))
    BY <2>2
  <2>4. h[k - 1] \in SetFlipStates(style)
    BY <1>7, <2>1
  <2>5. PICK g : Flipping(SetFlipStep(style, h[k - 1], q[k]), g, S, i, Rest(q, k - 1) \ {q[k]})
    BY <1>0, <1>3, <2>3, <2>4, FlipPasses
  <2>6. /\ h[k] = SetFlipStep(style, h[k - 1], q[k])
        /\ Rest(q, k) = Rest(q, k - 1) \ {q[k]}
    BY <1>3, <1>7
  <2>7. Flipping(h[k], g, S, i, Rest(q, k))
    BY <2>5, <2>6, Zenon
  <2>8. R(k)
    BY <2>7, Zenon
  <2> HIDE DEF R
  <2> QED BY <1>8, <2>1, <2>8
<1>11. n \in 0 .. n
  BY <1>2
<1>12. PICK f : Flipping(h[n], f, S, i, {})
  <2>1. P[n]
    BY <1>2, <1>8, <1>9, <1>10, <1>11, Upwards
  <2>2. R(n)
    BY <1>8, <1>11, <2>1
  <2> QED BY <1>3, <2>2
<1> DEFINE x == h[n]
<1>13. Fit(style, x.S) /\ x.span \in Interval
  BY <1>7, <1>11, FitIs DEF SetFlipStates
<1>14. /\ f \in Int /\ first(i) <= f
       /\ Proper(x.span) => first(x.span) = f /\ last(x.span) = last(i)
       /\ ~ Proper(x.span) => last(i) < f
       /\ \A s \in S : f <= last(i) /\ first(s) <= last(i) /\ first(i) <= last(s) => last(s) < f
       /\ \A e \in Int : Has(x.S, e) <=> IF In(e, i) /\ e < f THEN ~ Has(S, e) ELSE Has(S, e)
  BY <1>12 DEF Flipping
<1> HIDE DEF x
<1>15. /\ Fit(style, AddInterval(style, x.S, x.span))
       /\ \A e \in Int : Has(AddInterval(style, x.S, x.span), e) <=> Has(x.S, e) \/ In(e, x.span)
  BY <1>13, AddIs
<1>16. ASSUME NEW e \in Int
       PROVE  Has(x.S, e) \/ In(e, x.span) <=> IF In(e, i) THEN ~ Has(S, e) ELSE Has(S, e)
  <2>1. In(e, x.span) <=> f <= e /\ In(e, i)
    <3>1. CASE Proper(x.span)
      BY <1>0, <1>14, <3>1 DEF In
    <3>2. CASE ~ Proper(x.span)
      <4>1. ~ In(e, x.span)
        BY <1>13, <3>2, Ends DEF Proper, In
      <4> QED BY <1>0, <1>14, <3>2, <4>1 DEF In
    <3> QED BY <3>1, <3>2
  <2>2. CASE f <= e /\ In(e, i)
    <3>1. ~ Has(S, e)
      <4> SUFFICES ASSUME NEW s \in S, In(e, s)
                   PROVE  FALSE
        BY DEF Has
      <4>1. /\ first(s) \in Int /\ last(s) \in Int /\ first(s) <= e /\ e <= last(s)
        BY <1>0, LaidEnds DEF In
      <4>2. first(i) <= e /\ e <= last(i) /\ f <= e
        BY <2>2 DEF In
      <4> QED BY <1>0, <1>14, <4>1, <4>2
    <3> QED BY <2>1, <2>2, <3>1
  <2>3. CASE ~ (f <= e /\ In(e, i))
    <3>1. In(e, i) => e < f
      BY <1>14, <2>3
    <3> QED BY <1>14, <2>1, <2>3, <3>1
  <2> QED BY <2>2, <2>3
<1> QED BY <1>7, <1>15, <1>16 DEF x

\* The loop of operator ^=.
LEMMA FlipSetLoop ==
  ASSUME NEW style \in Styles, NEW S, NEW T,
         S \in FitSets(style), NEW q \in Seq(ProperIntervals), q = InOrder(T)
  PROVE  \E h \in [0 .. Len(q) -> FitSets(style)] :
           /\ h[0] = S
           /\ h[Len(q)] = FlipSet(style, S, T)
           /\ \A k \in 1 .. Len(q) : h[k] = (IF q[k] \in common_range(T, S) THEN FlipInterval(style, h[k - 1], q[k]) ELSE AddInterval(style, h[k - 1], q[k])) /\ q[k] \in ProperIntervals
<1> DEFINE D == FitSets(style)
           Q == ProperIntervals
           g == [p \in D \X Q |-> (IF p[2] \in common_range(T, S) THEN FlipInterval(style, p[1], p[2]) ELSE AddInterval(style, p[1], p[2]))]
           iter == CHOOSE it : it = [s \in SUBSET DOMAIN q |->
                     IF s = {} THEN S ELSE (IF q[Max(s)] \in common_range(T, S) THEN FlipInterval(style, it[s \ {Max(s)}], q[Max(s)]) ELSE AddInterval(style, it[s \ {Max(s)}], q[Max(s)]))]
<1>0. S \in D /\ q \in Seq(Q)
  OBVIOUS
<1>1. ASSUME NEW y \in D, NEW t \in Q
      PROVE  (IF t \in common_range(T, S) THEN FlipInterval(style, y, t) ELSE AddInterval(style, y, t)) \in D
  BY FlipIs, AddIs, FitIs, ProperIntervalsAre DEF Proper
<1>2. g \in [D \X Q -> D]
  <2>1. \A p \in D \X Q : (IF p[2] \in common_range(T, S) THEN FlipInterval(style, p[1], p[2]) ELSE AddInterval(style, p[1], p[2])) \in D
    BY <1>1
  <2> QED BY <2>1, Zenon
<1>3. \A y \in D, t \in Q : g[<<y, t>>] = (IF t \in common_range(T, S) THEN FlipInterval(style, y, t) ELSE AddInterval(style, y, t))
  <2> HIDE DEF D, Q
  <2> QED OBVIOUS
<1> HIDE DEF g, D, Q
<1>4. PICK it \in [SUBSET DOMAIN q -> D] : Solves(it, D, Q, g, S, q)
  BY <1>0, <1>2, FoldSolved
<1>5. it = [s \in SUBSET DOMAIN q |->
              IF s = {} THEN S ELSE (IF q[Max(s)] \in common_range(T, S) THEN FlipInterval(style, it[s \ {Max(s)}], q[Max(s)]) ELSE AddInterval(style, it[s \ {Max(s)}], q[Max(s)]))]
  <2>1. \A s \in SUBSET DOMAIN q :
          it[s] = IF s = {} THEN S ELSE (IF q[Max(s)] \in common_range(T, S) THEN FlipInterval(style, it[s \ {Max(s)}], q[Max(s)]) ELSE AddInterval(style, it[s \ {Max(s)}], q[Max(s)]))
    <3>1. it[{}] = S
      BY <1>4 DEF Solves
    <3>2. ASSUME NEW s \in SUBSET DOMAIN q, s # {}
          PROVE  it[s] = (IF q[Max(s)] \in common_range(T, S) THEN FlipInterval(style, it[s \ {Max(s)}], q[Max(s)]) ELSE AddInterval(style, it[s \ {Max(s)}], q[Max(s)]))
      <4>1. /\ it[s \ {Max(s)}] \in D
            /\ q[Max(s)] \in Q
            /\ it[s] = g[<<it[s \ {Max(s)}], q[Max(s)]>>]
        BY <1>4, <3>2 DEF Solves
      <4> QED BY <1>3, <4>1
    <3> QED BY <3>1, <3>2
  <2>2. it = [s \in SUBSET DOMAIN q |-> it[s]]
    OBVIOUS
  <2> QED BY <2>1, <2>2, Zenon
<1>6. iter = [s \in SUBSET DOMAIN q |->
                IF s = {} THEN S ELSE (IF q[Max(s)] \in common_range(T, S) THEN FlipInterval(style, iter[s \ {Max(s)}], q[Max(s)]) ELSE AddInterval(style, iter[s \ {Max(s)}], q[Max(s)]))]
  BY <1>5, Zenon
<1>7. iter[DOMAIN q] = FlipSet(style, S, T)
  BY Zenon DEF FlipSet, ForAll, FoldLeft, MapThenFoldSet
<1> HIDE DEF iter
<1>8. \A s \in SUBSET DOMAIN q :
        iter[s] = IF s = {} THEN S ELSE (IF q[Max(s)] \in common_range(T, S) THEN FlipInterval(style, iter[s \ {Max(s)}], q[Max(s)]) ELSE AddInterval(style, iter[s \ {Max(s)}], q[Max(s)]))
  BY <1>6
<1>9. SolvesWithin(iter, D, g, S, q)
  <2>1. iter[{}] = S
    BY <1>8
  <2>2. ASSUME NEW s \in SUBSET DOMAIN q, s # {}, iter[s \ {Max(s)}] \in D
        PROVE  iter[s] = g[<<iter[s \ {Max(s)}], q[Max(s)]>>]
    <3>1. q[Max(s)] \in Q
      BY <1>4, <2>2 DEF Solves
    <3>2. g[<<iter[s \ {Max(s)}], q[Max(s)]>>] = (IF q[Max(s)] \in common_range(T, S) THEN FlipInterval(style, iter[s \ {Max(s)}], q[Max(s)]) ELSE AddInterval(style, iter[s \ {Max(s)}], q[Max(s)]))
      BY <1>3, <2>2, <3>1
    <3>3. iter[s] = (IF q[Max(s)] \in common_range(T, S) THEN FlipInterval(style, iter[s \ {Max(s)}], q[Max(s)]) ELSE AddInterval(style, iter[s \ {Max(s)}], q[Max(s)]))
      BY <1>8, <2>2
    <3> QED BY <3>2, <3>3
  <2> QED BY <2>1, <2>2 DEF SolvesWithin
<1>10. PICK h \in [0 .. Len(q) -> D] : Passes(h, Q, g, S, q, iter[DOMAIN q])
  BY <1>0, <1>2, <1>9, FoldStates
<1>11. ASSUME NEW k \in 1 .. Len(q)
       PROVE  h[k] = (IF q[k] \in common_range(T, S) THEN FlipInterval(style, h[k - 1], q[k]) ELSE AddInterval(style, h[k - 1], q[k])) /\ q[k] \in Q
  <2>1. h[k - 1] \in D
    BY <1>0, LenProperties
  <2> QED BY <1>3, <1>10, <2>1 DEF Passes
<1> QED BY <1>7, <1>10, <1>11 DEF D, Q, Passes

\* operator ^=: what is not within reach of the set has no element of it, so that
\* adding it is flipping it.
LEMMA FlipSetIs ==
  ASSUME NEW style \in Styles, NEW S, Fit(style, S), NEW T, Laid(T)
  PROVE  /\ Fit(style, FlipSet(style, S, T))
         /\ \A k \in Int : Has(FlipSet(style, S, T), k) <=>
                             IF Has(T, k) THEN ~ Has(S, k) ELSE Has(S, k)
<1> DEFINE C == common_range(T, S)
           q == InOrder(T)
           n == Len(q)
<1>1. /\ q \in Seq(T) /\ n \in Nat
      /\ \A j, k \in 1 .. n : j < k <=> last(q[j]) < first(q[k])
      /\ \A s \in T : \E k \in 1 .. n : q[k] = s
  BY Iterated
<1> HIDE DEF q
<1>2. S \in FitSets(style) /\ T \in SUBSET ProperIntervals
  <2>1. \A s \in T : Proper(s)
    BY LaidEnds
  <2> QED BY <2>1, FitIs, ProperIntervalsAre
<1>3. q \in Seq(ProperIntervals) /\ \A k \in 1 .. n : q[k] \in T
  BY <1>1, <1>2
<1>4. PICK h \in [0 .. n -> FitSets(style)] :
        /\ h[0] = S
        /\ h[n] = FlipSet(style, S, T)
        /\ \A k \in 1 .. n :
             /\ h[k] = IF q[k] \in C THEN FlipInterval(style, h[k - 1], q[k])
                                     ELSE AddInterval(style, h[k - 1], q[k])
             /\ q[k] \in ProperIntervals
  BY <1>2, <1>3, FlipSetLoop DEF q
<1>5. \A t \in T, e \in Int : In(e, t) /\ Has(S, e) => t \in C
  BY CommonRangeIs DEF Fit
<1> HIDE DEF C, n
<1> DEFINE X(k, e) == \E j \in 1 .. k : In(e, q[j])
           R(k) == \A e \in Int : Has(h[k], e) <=> IF X(k, e) THEN ~ Has(S, e) ELSE Has(S, e)
           P == [k \in 0 .. n |-> R(k)]
<1>6. P \in [0 .. n -> BOOLEAN] /\ \A k \in 0 .. n : P[k] <=> R(k)
  OBVIOUS
<1> HIDE DEF P
<1>7. P[0]
  <2>1. R(0)
    BY <1>4
  <2> HIDE DEF R
  <2> QED BY <1>1, <1>6, <2>1
<1>8. ASSUME NEW k \in 1 .. n, P[k - 1]
      PROVE  P[k]
  <2>1. k - 1 \in 0 .. n /\ k \in 0 .. n
    BY <1>1
  <2>2. R(k - 1)
    BY <1>6, <1>8, <2>1
  <2>3. Fit(style, h[k - 1]) /\ Proper(q[k]) /\ q[k] \in Interval /\ q[k] \in T
    BY <1>3, <1>4, <2>1, FitIs, ProperIntervalsAre DEF Proper
  <2>4. \A e : X(k, e) <=> X(k - 1, e) \/ In(e, q[k])
    <3>1. \A j \in 1 .. k : j = k \/ j \in 1 .. k - 1
      OBVIOUS
    <3>2. \A j \in 1 .. k - 1 : j \in 1 .. k
      OBVIOUS
    <3>3. k \in 1 .. k
      OBVIOUS
    <3> QED BY <3>1, <3>2, <3>3
  <2>5. \A e \in Int : In(e, q[k]) => ~ X(k - 1, e)
    <3> SUFFICES ASSUME NEW e \in Int, In(e, q[k]), NEW j \in 1 .. k - 1, In(e, q[j])
                 PROVE  FALSE
      OBVIOUS
    <3>1. j \in 1 .. n /\ j < k
      BY <1>1
    <3>2. last(q[j]) < first(q[k])
      BY <1>1, <3>1
    <3>3. /\ first(q[k]) \in Int /\ last(q[j]) \in Int
          /\ first(q[k]) <= e /\ e <= last(q[j])
      BY <1>3, <2>3, <3>1, LaidEnds DEF In
    <3> QED BY <3>2, <3>3
  <2>6. ASSUME NEW e \in Int
        PROVE  Has(h[k], e) <=> IF In(e, q[k]) THEN ~ Has(S, e) ELSE Has(h[k - 1], e)
    <3>1. Has(h[k - 1], e) <=> IF X(k - 1, e) THEN ~ Has(S, e) ELSE Has(S, e)
      BY <2>2
    <3>2. CASE q[k] \in C
      <4>1. h[k] = FlipInterval(style, h[k - 1], q[k])
        BY <1>4, <3>2
      <4>2. Has(h[k], e) <=> IF In(e, q[k]) THEN ~ Has(h[k - 1], e) ELSE Has(h[k - 1], e)
        BY <2>3, <4>1, FlipIs
      <4> HIDE DEF X
      <4> QED BY <2>5, <3>1, <4>2
    <3>3. CASE q[k] \notin C
      <4>1. h[k] = AddInterval(style, h[k - 1], q[k])
        BY <1>4, <3>3
      <4>2. Has(h[k], e) <=> Has(h[k - 1], e) \/ In(e, q[k])
        BY <2>3, <4>1, AddIs
      <4>3. In(e, q[k]) => ~ Has(S, e)
        BY <1>5, <2>3, <3>3
      <4> QED BY <4>2, <4>3
    <3> QED BY <3>2, <3>3
  <2> HIDE DEF X
  <2>7. R(k)
    BY <2>2, <2>4, <2>5, <2>6
  <2> HIDE DEF R
  <2> QED BY <1>6, <2>1, <2>7
<1>9. n \in 0 .. n
  BY <1>1
<1>10. R(n)
  <2>1. P[n]
    BY <1>1, <1>6, <1>7, <1>8, <1>9, Upwards
  <2> HIDE DEF R
  <2> QED BY <1>6, <1>9, <2>1
<1>11. \A e \in Int : Has(T, e) <=> X(n, e)
  BY <1>1, <1>3 DEF Has
<1>12. Fit(style, h[n])
  BY <1>4, <1>9, FitIs
<1> HIDE DEF X
<1> QED BY <1>4, <1>10, <1>11, <1>12

-----------------------------------------------------------------------------
(***************************************************************************)
(* between.                                                                *)
(***************************************************************************)

\* The positions of the intervals that another one follows, and the list of them.
Gaps(S) == 1 .. (Len(InOrder(S)) - 1)
Numbers(S) == [k \in 1 .. (Len(InOrder(S)) - 1) |-> k]

\* The list of positions.
LEMMA NumbersAre ==
  ASSUME NEW S, Laid(S)
  PROVE  /\ Numbers(S) \in Seq(Gaps(S))
         /\ Len(Numbers(S)) = IF S = {} THEN 0 ELSE Len(InOrder(S)) - 1
         /\ \A k \in 1 .. Len(Numbers(S)) : Numbers(S)[k] = k
<1>1. /\ Len(InOrder(S)) \in Nat
      /\ \A s \in S : \E k \in 1 .. Len(InOrder(S)) : InOrder(S)[k] = s
      /\ InOrder(S) \in Seq(S)
  BY Iterated
<1>2. Len(InOrder(S)) = 0 <=> S = {}
  BY <1>1
<1> DEFINE n == Len(InOrder(S))
           m == IF S = {} THEN 0 ELSE n - 1
           p == [k \in 1 .. m |-> k]
<1>3. m \in Nat /\ 1 .. m = 1 .. (n - 1)
  BY <1>1, <1>2
<1>4. Numbers(S) = p /\ Gaps(S) = 1 .. m
  BY <1>3 DEF Numbers, Gaps
<1> HIDE DEF m
<1>5. p \in Seq(1 .. m) /\ Len(p) = m /\ \A k \in 1 .. m : p[k] = k
  BY <1>3
<1> QED BY <1>4, <1>5 DEF m

\* inner_complement of two intervals of which one lies before the other.
LEMMA GapIs ==
  ASSUME NEW s, NEW t, Proper(s), Proper(t), last(s) < first(t)
  PROVE  LET g == inner_complement(Dynamic, s, t)
         IN /\ g \in Interval
            /\ \A e \in Int : In(e, g) <=> last(s) < e /\ e < first(t)
<1> DEFINE g == inner_complement(Dynamic, s, t)
<1>1. /\ s \in Interval /\ t \in Interval /\ ~ is_empty(s) /\ ~ is_empty(t)
      /\ first(t) \in Int /\ last(s) \in Int
  BY ProperEnds, ProperIs
<1>2. exclusive_less(s, t)
  BY LessIs
<1>3. g = BetweenOrdered(Dynamic, s, t)
  BY <1>1, <1>2 DEF inner_complement
<1> HIDE DEF g
<1>4. /\ g \in Interval
      /\ \/ first(g) = last(s) + 1 /\ last(g) = first(t) - 1
         \/ Elements(g) = {} /\ first(t) <= last(s) + 1
  BY <1>1, <1>3, DynamicIsAll, BetweenEnds
<1>5. CASE first(g) = last(s) + 1 /\ last(g) = first(t) - 1
  BY <1>1, <1>4, <1>5 DEF In, g
<1>6. CASE Elements(g) = {} /\ first(t) <= last(s) + 1
  <2>1. \A e \in Int : ~ In(e, g)
    BY <1>4, <1>6, Member DEF In
  <2> QED BY <1>1, <1>4, <1>6, <2>1 DEF g
<1> QED BY <1>4, <1>5, <1>6

\* The gap behind an interval that another one follows.
GapBehind(S, k) == inner_complement(Dynamic, InOrder(S)[k], InOrder(S)[k + 1])

\* It holds what lies between the two.
LEMMA GapTyped ==
  ASSUME NEW S, Laid(S), NEW k \in Gaps(S)
  PROVE  /\ GapBehind(S, k) \in Interval
         /\ \A e \in Int : In(e, GapBehind(S, k)) <=>
              last(InOrder(S)[k]) < e /\ e < first(InOrder(S)[k + 1])
<1> DEFINE q == InOrder(S)
<1>1. /\ q \in Seq(S) /\ Len(q) \in Nat
      /\ \A j, l \in 1 .. Len(q) : j < l <=> last(q[j]) < first(q[l])
  BY Iterated
<1>2. k \in 1 .. Len(q) /\ k + 1 \in 1 .. Len(q) /\ k < k + 1
  BY <1>1 DEF Gaps
<1> HIDE DEF q
<1>3. Proper(q[k]) /\ Proper(q[k + 1]) /\ last(q[k]) < first(q[k + 1])
  BY <1>1, <1>2, LaidEnds
<1> QED BY <1>3, GapIs DEF q, GapBehind


\* The loop of between.
LEMMA BetweenLoop ==
  ASSUME NEW style \in Styles, NEW S, Laid(S),
         {} \in FitSets(style), NEW q \in Seq(Gaps(S)), q = Numbers(S)
  PROVE  \E h \in [0 .. Len(q) -> FitSets(style)] :
           /\ h[0] = {}
           /\ h[Len(q)] = BetweenSet(style, S)
           /\ \A k \in 1 .. Len(q) : h[k] = AddInterval(style, h[k - 1], GapBehind(S, q[k])) /\ q[k] \in Gaps(S)
<1> DEFINE D == FitSets(style)
           Q == Gaps(S)
           g == [p \in D \X Q |-> AddInterval(style, p[1], GapBehind(S, p[2]))]
           iter == CHOOSE it : it = [s \in SUBSET DOMAIN q |->
                     IF s = {} THEN {} ELSE AddInterval(style, it[s \ {Max(s)}], GapBehind(S, q[Max(s)]))]
<1>0. {} \in D /\ q \in Seq(Q)
  OBVIOUS
<1>1. ASSUME NEW y \in D, NEW t \in Q
      PROVE  AddInterval(style, y, GapBehind(S, t)) \in D
  BY GapTyped, AddIs, FitIs
<1>2. g \in [D \X Q -> D]
  <2>1. \A p \in D \X Q : AddInterval(style, p[1], GapBehind(S, p[2])) \in D
    BY <1>1
  <2> QED BY <2>1, Zenon
<1>3. \A y \in D, t \in Q : g[<<y, t>>] = AddInterval(style, y, GapBehind(S, t))
  <2> HIDE DEF D, Q
  <2> QED OBVIOUS
<1> HIDE DEF g, D, Q
<1>4. PICK it \in [SUBSET DOMAIN q -> D] : Solves(it, D, Q, g, {}, q)
  BY <1>0, <1>2, FoldSolved
<1>5. it = [s \in SUBSET DOMAIN q |->
              IF s = {} THEN {} ELSE AddInterval(style, it[s \ {Max(s)}], GapBehind(S, q[Max(s)]))]
  <2>1. \A s \in SUBSET DOMAIN q :
          it[s] = IF s = {} THEN {} ELSE AddInterval(style, it[s \ {Max(s)}], GapBehind(S, q[Max(s)]))
    BY <1>3, <1>4 DEF Solves
  <2>2. it = [s \in SUBSET DOMAIN q |-> it[s]]
    OBVIOUS
  <2> QED BY <2>1, <2>2, Zenon
<1>6. iter = [s \in SUBSET DOMAIN q |->
                IF s = {} THEN {} ELSE AddInterval(style, iter[s \ {Max(s)}], GapBehind(S, q[Max(s)]))]
  BY <1>5, Zenon
<1>7. iter[DOMAIN q] = BetweenSet(style, S)
  <2>1. BetweenSet(style, S) =
          FoldLeft(LAMBDA y, t : AddInterval(style, y, GapBehind(S, t)), {},
                   [k \in 1 .. (Len(InOrder(S)) - 1) |-> k])
    BY Zenon DEF BetweenSet, GapBehind
  <2>2. q = [k \in 1 .. (Len(InOrder(S)) - 1) |-> k]
    BY Zenon DEF Numbers
  <2>3. FoldLeft(LAMBDA y, t : AddInterval(style, y, GapBehind(S, t)), {}, q) = iter[DOMAIN q]
    BY Zenon DEF FoldLeft, MapThenFoldSet
  <2> HIDE DEF iter
  <2> QED BY <2>1, <2>2, <2>3, Zenon
<1> HIDE DEF iter
<1>8. \A s \in SUBSET DOMAIN q :
        iter[s] = IF s = {} THEN {} ELSE AddInterval(style, iter[s \ {Max(s)}], GapBehind(S, q[Max(s)]))
  BY <1>6
<1>9. SolvesWithin(iter, D, g, {}, q)
  <2>1. iter[{}] = {}
    BY <1>8
  <2>2. ASSUME NEW s \in SUBSET DOMAIN q, s # {}, iter[s \ {Max(s)}] \in D
        PROVE  iter[s] = g[<<iter[s \ {Max(s)}], q[Max(s)]>>]
    <3>1. q[Max(s)] \in Q
      BY <1>4, <2>2 DEF Solves
    <3>2. g[<<iter[s \ {Max(s)}], q[Max(s)]>>] = AddInterval(style, iter[s \ {Max(s)}], GapBehind(S, q[Max(s)]))
      BY <1>3, <2>2, <3>1
    <3>3. iter[s] = AddInterval(style, iter[s \ {Max(s)}], GapBehind(S, q[Max(s)]))
      BY <1>8, <2>2
    <3> QED BY <3>2, <3>3
  <2> QED BY <2>1, <2>2 DEF SolvesWithin
<1>10. PICK h \in [0 .. Len(q) -> D] : Passes(h, Q, g, {}, q, iter[DOMAIN q])
  BY <1>0, <1>2, <1>9, FoldStates
<1>11. ASSUME NEW k \in 1 .. Len(q)
       PROVE  h[k] = AddInterval(style, h[k - 1], GapBehind(S, q[k])) /\ q[k] \in Q
  <2>1. h[k - 1] \in D
    BY <1>0, LenProperties
  <2> QED BY <1>3, <1>10, <2>1 DEF Passes
<1> QED BY <1>7, <1>10, <1>11 DEF D, Q, Passes

\* The gaps of a set: what lies from its first to its last element and is not in
\* it.
LEMMA GapsAre ==
  ASSUME NEW S, Laid(S), S # {}, NEW e \in Int
  PROVE  (\E k \in Gaps(S) : last(InOrder(S)[k]) < e /\ e < first(InOrder(S)[k + 1])) <=>
           first(begin(S)) <= e /\ e <= last(rbegin(S)) /\ ~ Has(S, e)
<1> DEFINE q == InOrder(S)
           n == Len(q)
           m == n - 1
           b == begin(S)
           r == rbegin(S)
<1>1. /\ q \in Seq(S) /\ n \in Nat
      /\ \A j, k \in 1 .. n : j < k <=> last(q[j]) < first(q[k])
      /\ \A s \in S : \E k \in 1 .. n : q[k] = s
  BY Iterated
<1>2. n \in Nat \ {0} /\ m \in Nat /\ Gaps(S) = 1 .. m
  BY <1>1 DEF Gaps
<1>3. \A k \in 1 .. m : k \in 1 .. n /\ k + 1 \in 1 .. n
  BY <1>2
<1>4. \A k \in 1 .. n : /\ q[k] \in S /\ first(q[k]) \in Int /\ last(q[k]) \in Int
                        /\ first(q[k]) <= last(q[k])
  <2>1. \A k \in 1 .. n : q[k] \in S
    BY <1>1
  <2> HIDE DEF q, n
  <2> QED BY <2>1, LaidEnds
<1> HIDE DEF q, n
<1>5. /\ b \in S /\ r \in S
      /\ \A s \in S : s = b \/ last(b) < first(s)
      /\ \A s \in S : s = r \/ last(s) < first(r)
  BY FirstAndLast
<1>6. /\ first(b) \in Int /\ last(b) \in Int /\ first(r) \in Int /\ last(r) \in Int
      /\ first(b) <= last(b) /\ first(r) <= last(r)
  BY <1>5, LaidEnds
<1> HIDE DEF b, r
<1>7. ASSUME NEW k \in 1 .. m, last(q[k]) < e, e < first(q[k + 1])
      PROVE  first(b) <= e /\ e <= last(r) /\ ~ Has(S, e)
  <2>1. /\ k \in 1 .. n /\ k + 1 \in 1 .. n
    BY <1>3
  <2>2. first(b) <= first(q[k])
    BY <1>4, <1>5, <1>6, <2>1
  <2>3. last(q[k + 1]) <= last(r)
    BY <1>4, <1>5, <1>6, <2>1
  <2>4. ~ Has(S, e)
    <3> SUFFICES ASSUME NEW s \in S, In(e, s)
                 PROVE  FALSE
      BY DEF Has
    <3>1. PICK j \in 1 .. n : q[j] = s
      BY <1>1
    <3>2. j <= k \/ k + 1 <= j
      BY <1>1, <2>1
    <3>3. last(q[j]) <= last(q[k]) \/ first(q[k + 1]) <= first(q[j])
      <4>1. CASE j = k \/ j = k + 1
        BY <1>4, <2>1, <4>1
      <4>2. CASE j < k
        BY <1>1, <1>4, <2>1, <4>2
      <4>3. CASE k + 1 < j
        BY <1>1, <1>4, <2>1, <4>3
      <4> QED BY <1>1, <2>1, <3>2, <4>1, <4>2, <4>3
    <3> QED BY <1>4, <1>7, <2>1, <3>1, <3>3 DEF In
  <2> QED BY <1>4, <1>7, <1>6, <2>1, <2>2, <2>3, <2>4
<1>8. ASSUME first(b) <= e, e <= last(r), ~ Has(S, e)
      PROVE  \E k \in 1 .. m : last(q[k]) < e /\ e < first(q[k + 1])
  <2> DEFINE K == {k \in 1 .. n : e < first(q[k])}
  <2>1. PICK l \in 1 .. n : q[l] = r
    BY <1>1, <1>5
  <2>2. PICK f \in 1 .. n : q[f] = b
    BY <1>1, <1>5
  <2>3. \A k \in 1 .. n : e < first(q[k]) \/ last(q[k]) < e
    BY <1>4, <1>8 DEF Has, In
  <2>4. l \in K
    BY <1>4, <1>8, <1>6, <2>1, <2>3
  <2>5. f \notin K
    BY <1>8, <1>6, <2>2
  <2>6. PICK k \in K : \A j \in K : k <= j
    <3>1. K \in SUBSET Nat /\ K # {}
      BY <2>4
    <3> HIDE DEF K
    <3> QED BY <3>1, LeastOf
  <2>7. k # 1
    <3>1. ASSUME k = 1
          PROVE  FALSE
      <4>1. f = 1 \/ 1 < f
        OBVIOUS
      <4>2. f # 1
        BY <2>5, <2>6, <3>1
      <4>3. 1 \in 1 .. n /\ last(q[1]) < first(q[f])
        BY <1>1, <1>2, <4>1, <4>2
      <4>4. e < first(q[1])
        BY <2>6, <3>1
      <4> QED BY <1>4, <1>8, <1>6, <2>2, <4>3, <4>4
    <3> QED BY <3>1
  <2>8. k - 1 \in 1 .. m /\ k - 1 \in 1 .. n /\ ~ (k <= k - 1) /\ (k - 1) + 1 = k
    BY <1>2, <2>7
  <2>9. k - 1 \notin K
    BY <2>6, <2>8
  <2>10. last(q[k - 1]) < e /\ e < first(q[(k - 1) + 1])
    BY <2>3, <2>8, <2>9
  <2> QED BY <2>8, <2>10
<1> QED BY <1>2, <1>7, <1>8 DEF q, n, b, r

\* between: the elements from the first to the last of the set that are not in it.
LEMMA BetweenIs ==
  ASSUME NEW style \in Styles, NEW S, Laid(S)
  PROVE  /\ Fit(style, BetweenSet(style, S))
         /\ S = {} => \A e \in Int : ~ Has(BetweenSet(style, S), e)
         /\ S # {} => \A e \in Int : Has(BetweenSet(style, S), e) <=>
                        first(begin(S)) <= e /\ e <= last(rbegin(S)) /\ ~ Has(S, e)
<1> DEFINE q == InOrder(S)
           p == Numbers(S)
           n == Len(q)
           m == Len(p)
           c == [k \in 1 .. m |-> {e \in Int : last(q[k]) < e /\ e < first(q[k + 1])}]
<1>1. /\ q \in Seq(S) /\ n \in Nat
      /\ \A j, k \in 1 .. n : j < k <=> last(q[j]) < first(q[k])
      /\ \A s \in S : \E k \in 1 .. n : q[k] = s
  BY Iterated
<1>2. /\ p \in Seq(Gaps(S)) /\ m = IF S = {} THEN 0 ELSE n - 1
      /\ \A k \in 1 .. m : p[k] = k
  BY NumbersAre
<1>3. n = 0 <=> S = {}
  BY <1>1
<1>4. m \in Nat /\ (\A k \in 1 .. m : k \in Gaps(S) /\ k \in 1 .. n /\ k + 1 \in 1 .. n)
  BY <1>1, <1>2, <1>3 DEF Gaps
<1>5. \A k \in 1 .. n : /\ q[k] \in S /\ first(q[k]) \in Int /\ last(q[k]) \in Int
                        /\ first(q[k]) <= last(q[k])
  <2>1. \A k \in 1 .. n : q[k] \in S
    BY <1>1
  <2> HIDE DEF q, n
  <2> QED BY <2>1, LaidEnds
<1>6. {} \in FitSets(style)
  BY NoneIsFit
<1>7. PICK h \in [0 .. m -> FitSets(style)] :
        /\ h[0] = {}
        /\ h[m] = BetweenSet(style, S)
        /\ \A k \in 1 .. m :
             /\ h[k] = AddInterval(style, h[k - 1], GapBehind(S, p[k]))
             /\ p[k] \in Gaps(S)
  BY <1>2, <1>6, BetweenLoop
<1> HIDE DEF p, m
<1>8. ASSUME NEW k \in 1 .. m
      PROVE  \A e \in Int : Has(h[k], e) <=> Has(h[k - 1], e) \/ e \in c[k]
  <2> DEFINE g == GapBehind(S, k)
  <2>1. h[k] = AddInterval(style, h[k - 1], g)
    BY <1>2, <1>7
  <2>2. /\ g \in Interval
        /\ \A e \in Int : In(e, g) <=> last(q[k]) < e /\ e < first(q[k + 1])
    BY <1>4, GapTyped
  <2> HIDE DEF g, q
  <2>3. Fit(style, h[k - 1])
    <3>1. k - 1 \in 0 .. m
      BY <1>4
    <3> QED BY <1>7, <3>1, FitIs
  <2>4. \A e \in Int : e \in c[k] <=> last(q[k]) < e /\ e < first(q[k + 1])
    OBVIOUS
  <2> HIDE DEF c
  <2>5. \A e \in Int : Has(h[k], e) <=> Has(h[k - 1], e) \/ In(e, g)
    BY <2>1, <2>2, <2>3, AddIs
  <2> QED BY <2>2, <2>4, <2>5
<1>9. \A e \in Int : (\E k \in 1 .. m : e \in c[k]) <=>
                       \E k \in 1 .. m : last(q[k]) < e /\ e < first(q[k + 1])
  OBVIOUS
<1> HIDE DEF c, q, n
<1>10. \A e \in Int : Has(h[m], e) <=> Has(h[0], e) \/ \E k \in 1 .. m : e \in c[k]
  BY <1>4, <1>8, Gathers DEF Grows
<1>11. Fit(style, BetweenSet(style, S))
  <2>1. m \in 0 .. m
    BY <1>4
  <2> QED BY <1>7, <2>1, FitIs
<1>12. \A e \in Int : Has(BetweenSet(style, S), e) <=>
                        \E k \in 1 .. m : last(q[k]) < e /\ e < first(q[k + 1])
  BY <1>7, <1>9, <1>10, NoneIsFit
<1>13. ASSUME S = {}
       PROVE  \A e \in Int : ~ Has(BetweenSet(style, S), e)
  BY <1>2, <1>12, <1>13
<1>14. ASSUME S # {}, NEW e \in Int
       PROVE  Has(BetweenSet(style, S), e) <=>
                first(begin(S)) <= e /\ e <= last(rbegin(S)) /\ ~ Has(S, e)
  <2>1. 1 .. m = Gaps(S)
    BY <1>2, <1>14 DEF Gaps, n, q
  <2> QED BY <1>12, <1>14, <2>1, GapsAre DEF q
<1> QED BY <1>11, <1>13, <1>14

-----------------------------------------------------------------------------
(***************************************************************************)
(* join.                                                                   *)
(***************************************************************************)

\* The intervals of a set in order, with their ends.
LEMMA ListedIs ==
  ASSUME NEW S, Laid(S)
  PROVE  /\ InOrder(S) \in Seq(S) /\ Len(InOrder(S)) \in Nat
         /\ DOMAIN InOrder(S) = 1 .. Len(InOrder(S))
         /\ \A j, k \in 1 .. Len(InOrder(S)) :
              j < k => last(InOrder(S)[j]) < first(InOrder(S)[k])
         /\ \A s \in S : \E k \in 1 .. Len(InOrder(S)) : InOrder(S)[k] = s
         /\ \A k \in 1 .. Len(InOrder(S)) :
              /\ InOrder(S)[k] \in S /\ Proper(InOrder(S)[k]) /\ InOrder(S)[k] \in Interval
              /\ first(InOrder(S)[k]) \in Int /\ last(InOrder(S)[k]) \in Int
              /\ first(InOrder(S)[k]) <= last(InOrder(S)[k])
         /\ S # {} => Len(InOrder(S)) # 0 /\ InOrder(S) # <<>>
<1> DEFINE q == InOrder(S)
<1>1. /\ q \in Seq(S) /\ Len(q) \in Nat
      /\ \A j, k \in 1 .. Len(q) : j < k <=> last(q[j]) < first(q[k])
      /\ \A s \in S : \E k \in 1 .. Len(q) : q[k] = s
  BY Iterated
<1> HIDE DEF q
<1>2. \A k \in 1 .. Len(q) : q[k] \in S
  BY <1>1
<1>3. \A k \in 1 .. Len(q) : /\ q[k] \in S /\ Proper(q[k]) /\ q[k] \in Interval
                             /\ first(q[k]) \in Int /\ last(q[k]) \in Int
                             /\ first(q[k]) <= last(q[k])
  BY <1>2, LaidEnds
<1>4. DOMAIN q = 1 .. Len(q)
  BY <1>1
<1>5. S # {} => Len(q) # 0 /\ q # <<>>
  BY <1>1
<1> QED BY <1>1, <1>3, <1>4, <1>5 DEF q

\* A step of the loop of join, which stands at the k-th interval.
SetJoinStep(q, x, k) ==
  IF k < Len(q) /\ touches(q[k], q[k + 1]) THEN x
  ELSE [kept |-> x.kept \cup {IF x.fst_mem = q[k] THEN q[k] ELSE hull_of(q[k], x.fst_mem)},
        fst_mem |-> IF k < Len(q) THEN q[k + 1] ELSE x.fst_mem]

\* What the loop passes through.
SetJoinStates == [kept : SUBSET Interval, fst_mem : Interval]

\* The step returns one of them.
LEMMA SetJoinStepTyped ==
  ASSUME NEW S, Laid(S), NEW x \in SetJoinStates, NEW k \in DOMAIN InOrder(S)
  PROVE  SetJoinStep(InOrder(S), x, k) \in SetJoinStates
<1> DEFINE q == InOrder(S)
<1>1. /\ DOMAIN q = 1 .. Len(q) /\ Len(q) \in Nat
      /\ \A j \in 1 .. Len(q) : q[j] \in Interval
  BY ListedIs
<1> HIDE DEF q
<1>2. /\ q[k] \in Interval
      /\ k < Len(q) => q[k + 1] \in Interval
  BY <1>1 DEF q
<1>3. hull_of(q[k], x.fst_mem) \in Interval
  BY <1>2, OperationsTyped DEF SetJoinStates
<1> QED BY <1>2, <1>3 DEF SetJoinStep, SetJoinStates, q


\* The loop of join.
LEMMA SetJoinLoop ==
  ASSUME NEW S, Laid(S), S # {},
         [kept |-> {}, fst_mem |-> InOrder(S)[1]] \in SetJoinStates, NEW q \in Seq(DOMAIN InOrder(S)), q = [k \in DOMAIN InOrder(S) |-> k]
  PROVE  \E h \in [0 .. Len(q) -> SetJoinStates] :
           /\ h[0] = [kept |-> {}, fst_mem |-> InOrder(S)[1]]
           /\ JoinSet(S) = h[Len(q)].kept
           /\ \A k \in 1 .. Len(q) : h[k] = SetJoinStep(InOrder(S), h[k - 1], q[k]) /\ q[k] \in DOMAIN InOrder(S)
<1> DEFINE D == SetJoinStates
           Q == DOMAIN InOrder(S)
           g == [p \in D \X Q |-> SetJoinStep(InOrder(S), p[1], p[2])]
           iter == CHOOSE it : it = [s \in SUBSET DOMAIN q |->
                     IF s = {} THEN [kept |-> {}, fst_mem |-> InOrder(S)[1]] ELSE SetJoinStep(InOrder(S), it[s \ {Max(s)}], q[Max(s)])]
<1>0. [kept |-> {}, fst_mem |-> InOrder(S)[1]] \in D /\ q \in Seq(Q)
  OBVIOUS
<1>1. ASSUME NEW y \in D, NEW t \in Q
      PROVE  SetJoinStep(InOrder(S), y, t) \in D
  BY SetJoinStepTyped
<1>2. g \in [D \X Q -> D]
  <2>1. \A p \in D \X Q : SetJoinStep(InOrder(S), p[1], p[2]) \in D
    BY <1>1
  <2> QED BY <2>1, Zenon
<1>3. \A y \in D, t \in Q : g[<<y, t>>] = SetJoinStep(InOrder(S), y, t)
  <2> HIDE DEF D, Q
  <2> QED OBVIOUS
<1> HIDE DEF g, D, Q
<1>4. PICK it \in [SUBSET DOMAIN q -> D] : Solves(it, D, Q, g, [kept |-> {}, fst_mem |-> InOrder(S)[1]], q)
  BY <1>0, <1>2, FoldSolved
<1>5. it = [s \in SUBSET DOMAIN q |->
              IF s = {} THEN [kept |-> {}, fst_mem |-> InOrder(S)[1]] ELSE SetJoinStep(InOrder(S), it[s \ {Max(s)}], q[Max(s)])]
  <2>1. \A s \in SUBSET DOMAIN q :
          it[s] = IF s = {} THEN [kept |-> {}, fst_mem |-> InOrder(S)[1]] ELSE SetJoinStep(InOrder(S), it[s \ {Max(s)}], q[Max(s)])
    <3>1. it[{}] = [kept |-> {}, fst_mem |-> InOrder(S)[1]]
      BY <1>4 DEF Solves
    <3>2. ASSUME NEW s \in SUBSET DOMAIN q, s # {}
          PROVE  it[s] = SetJoinStep(InOrder(S), it[s \ {Max(s)}], q[Max(s)])
      <4>1. /\ it[s \ {Max(s)}] \in D /\ q[Max(s)] \in Q
            /\ it[s] = g[<<it[s \ {Max(s)}], q[Max(s)]>>]
        BY <1>4, <3>2 DEF Solves
      <4> QED BY <1>3, <4>1
    <3> QED BY <3>1, <3>2
  <2>2. it = [s \in SUBSET DOMAIN q |-> it[s]]
    OBVIOUS
  <2> QED BY <2>1, <2>2, Zenon
<1>6. iter = [s \in SUBSET DOMAIN q |->
                IF s = {} THEN [kept |-> {}, fst_mem |-> InOrder(S)[1]] ELSE SetJoinStep(InOrder(S), iter[s \ {Max(s)}], q[Max(s)])]
  BY <1>5, Zenon
<1>7. JoinSet(S) = iter[DOMAIN q].kept
  <2>1. JoinSet(S) = FoldLeft(LAMBDA y, t : SetJoinStep(InOrder(S), y, t),
            [kept |-> {}, fst_mem |-> InOrder(S)[1]], [k \in DOMAIN InOrder(S) |-> k]).kept
    <3>1. InOrder(S) # <<>>
      BY ListedIs
    <3> QED BY <3>1, Zenon DEF JoinSet, JoinRuns, SetJoinStep
  <2>2. FoldLeft(LAMBDA y, t : SetJoinStep(InOrder(S), y, t),
            [kept |-> {}, fst_mem |-> InOrder(S)[1]], q) = iter[DOMAIN q]
    BY Zenon DEF FoldLeft, MapThenFoldSet
  <2> HIDE DEF iter
  <2> QED BY <2>1, <2>2, Zenon
<1> HIDE DEF iter
<1>8. \A s \in SUBSET DOMAIN q :
        iter[s] = IF s = {} THEN [kept |-> {}, fst_mem |-> InOrder(S)[1]] ELSE SetJoinStep(InOrder(S), iter[s \ {Max(s)}], q[Max(s)])
  BY <1>6
<1>9. SolvesWithin(iter, D, g, [kept |-> {}, fst_mem |-> InOrder(S)[1]], q)
  <2>1. iter[{}] = [kept |-> {}, fst_mem |-> InOrder(S)[1]]
    BY <1>8
  <2>2. ASSUME NEW s \in SUBSET DOMAIN q, s # {}, iter[s \ {Max(s)}] \in D
        PROVE  iter[s] = g[<<iter[s \ {Max(s)}], q[Max(s)]>>]
    <3>1. q[Max(s)] \in Q
      BY <1>4, <2>2 DEF Solves
    <3>2. g[<<iter[s \ {Max(s)}], q[Max(s)]>>] = SetJoinStep(InOrder(S), iter[s \ {Max(s)}], q[Max(s)])
      BY <1>3, <2>2, <3>1
    <3>3. iter[s] = SetJoinStep(InOrder(S), iter[s \ {Max(s)}], q[Max(s)])
      BY <1>8, <2>2
    <3> QED BY <3>2, <3>3
  <2> QED BY <2>1, <2>2 DEF SolvesWithin
<1>10. PICK h \in [0 .. Len(q) -> D] : Passes(h, Q, g, [kept |-> {}, fst_mem |-> InOrder(S)[1]], q, iter[DOMAIN q])
  BY <1>0, <1>2, <1>9, FoldStates
<1>11. ASSUME NEW k \in 1 .. Len(q)
       PROVE  h[k] = SetJoinStep(InOrder(S), h[k - 1], q[k]) /\ q[k] \in Q
  <2>1. h[k - 1] \in D
    <3>1. k - 1 \in 0 .. Len(q)
      BY <1>0, LenProperties
    <3>2. \A j \in 0 .. Len(q) : h[j] \in D
      BY <1>10
    <3> QED BY <3>1, <3>2
  <2> QED BY <1>3, <1>10, <2>1 DEF Passes
<1> QED BY <1>7, <1>10, <1>11 DEF D, Q, Passes

\* A run of intervals each of which touches the next has the elements from its
\* first to its last.
LEMMA RunCovers ==
  ASSUME NEW n \in Nat, NEW q, NEW m \in 1 .. n, NEW k \in m .. n,
         \A j \in m .. k : first(q[j]) \in Int /\ last(q[j]) \in Int /\ first(q[j]) <= last(q[j]),
         \A j \in m .. k : j < k => last(q[j]) + 1 = first(q[j + 1]),
         \A i, j \in m .. k : i < j => last(q[i]) < first(q[j])
  PROVE  \A e \in Int : (first(q[m]) <= e /\ e <= last(q[k])) <=> \E j \in m .. k : In(e, q[j])
<1> SUFFICES ASSUME NEW e \in Int
             PROVE  (first(q[m]) <= e /\ e <= last(q[k])) <=> \E j \in m .. k : In(e, q[j])
  OBVIOUS
<1>1. m \in m .. k /\ k \in m .. k
  OBVIOUS
<1>2. ASSUME NEW j \in m .. k, In(e, q[j])
      PROVE  first(q[m]) <= e /\ e <= last(q[k])
  <2>1. first(q[m]) <= first(q[j])
    <3>1. CASE j = m
      BY <1>1, <3>1
    <3>2. CASE m < j
      BY <1>1, <3>2
    <3> QED BY <3>1, <3>2
  <2>2. last(q[j]) <= last(q[k])
    <3>1. CASE j = k
      BY <1>1, <3>1
    <3>2. CASE j < k
      BY <1>1, <3>2
    <3> QED BY <3>1, <3>2
  <2> QED BY <1>1, <1>2, <2>1, <2>2 DEF In
<1>3. ASSUME first(q[m]) <= e, e <= last(q[k])
      PROVE  \E j \in m .. k : In(e, q[j])
  <2> DEFINE K == {j \in m .. k : e <= last(q[j])}
  <2>1. K \in SUBSET Nat /\ K # {}
    BY <1>1, <1>3
  <2> HIDE DEF K
  <2>2. PICK j \in K : \A i \in K : j <= i
    BY <2>1, LeastOf
  <2>3. j \in m .. k /\ e <= last(q[j])
    BY DEF K
  <2>4. first(q[j]) <= e
    <3>1. CASE j = m
      BY <1>3, <3>1
    <3>2. CASE m < j
      <4>1. j - 1 \in m .. k /\ j - 1 < k /\ ~ (j <= j - 1) /\ (j - 1) + 1 = j
        BY <2>3, <3>2
      <4>2. j - 1 \notin K
        BY <2>2, <4>1
      <4>3. ~ (e <= last(q[j - 1]))
        BY <4>1, <4>2 DEF K
      <4>4. last(q[j - 1]) + 1 = first(q[j])
        BY <4>1
      <4> QED BY <2>3, <4>1, <4>3, <4>4
    <3> QED BY <2>3, <3>1, <3>2
  <2> QED BY <2>3, <2>4 DEF In
<1> QED BY <1>2, <1>3

\* The loop after k steps: the intervals kept are joined, the run that is not
\* kept yet begins with the m-th interval, and the elements are those passed.
Joining(q, x, m, k) ==
  /\ Laid(x.kept) /\ Joined(x.kept)
  /\ k < Len(q) =>
       /\ m \in 1 .. k + 1 /\ x.fst_mem = q[m]
       /\ \A j \in m .. k : last(q[j]) + 1 = first(q[j + 1])
       /\ \A t \in x.kept : last(t) + 1 < first(q[m])
       /\ \A e \in Int : Has(x.kept, e) <=> \E j \in 1 .. m - 1 : In(e, q[j])
  /\ k = Len(q) => \A e \in Int : Has(x.kept, e) <=> \E j \in 1 .. Len(q) : In(e, q[j])

\* A step of the loop.
LEMMA JoinPasses ==
  ASSUME NEW S, Laid(S), NEW x, NEW m, NEW k \in 1 .. Len(InOrder(S)),
         Joining(InOrder(S), x, m, k - 1)
  PROVE  \E l : Joining(InOrder(S), SetJoinStep(InOrder(S), x, k), l, k)
<1> DEFINE q == InOrder(S)
           n == Len(q)
           y == SetJoinStep(q, x, k)
           new == IF x.fst_mem = q[k] THEN q[k] ELSE hull_of(q[k], x.fst_mem)
<1>1. /\ n \in Nat
      /\ \A i, j \in 1 .. n : i < j => last(q[i]) < first(q[j])
      /\ \A j \in 1 .. n : /\ Proper(q[j]) /\ q[j] \in Interval
                           /\ first(q[j]) \in Int /\ last(q[j]) \in Int
                           /\ first(q[j]) <= last(q[j])
  BY ListedIs
<1>2. k \in 1 .. n /\ k - 1 < n
  BY <1>1
<1>3. /\ Laid(x.kept) /\ Joined(x.kept)
      /\ m \in 1 .. k /\ x.fst_mem = q[m]
      /\ \A j \in m .. k - 1 : last(q[j]) + 1 = first(q[j + 1])
      /\ \A t \in x.kept : last(t) + 1 < first(q[m])
      /\ \A e \in Int : Has(x.kept, e) <=> \E j \in 1 .. m - 1 : In(e, q[j])
  BY <1>2 DEF Joining
<1> HIDE DEF q, n
<1>4. m \in 1 .. n /\ k \in m .. n
  BY <1>1, <1>2, <1>3
<1>5. CASE k < n /\ last(q[k]) + 1 = first(q[k + 1])
  <2>1. y = x
    BY <1>5 DEF SetJoinStep, touches, q, n
  <2>2. m \in 1 .. k + 1 /\ \A j \in m .. k : j = k \/ j \in m .. k - 1
    BY <1>1, <1>2, <1>3
  <2>3. \A j \in m .. k : last(q[j]) + 1 = first(q[j + 1])
    BY <1>3, <1>5, <2>2
  <2>4. Joining(q, y, m, k)
    BY <1>3, <1>5, <2>1, <2>2, <2>3 DEF Joining, n
  <2> QED BY <2>4 DEF q, y
<1>6. CASE ~ (k < n /\ last(q[k]) + 1 = first(q[k + 1]))
  <2>1. y.kept = x.kept \cup {new} /\ y.fst_mem = IF k < n THEN q[k + 1] ELSE x.fst_mem
    BY <1>6 DEF SetJoinStep, touches, q, n
  <2>2. Proper(new) /\ first(new) = first(q[m]) /\ last(new) = last(q[k])
    <3>1. CASE q[m] = q[k]
      BY <1>1, <1>2, <1>3, <3>1
    <3>2. CASE q[m] # q[k]
      <4>1. m < k /\ last(q[m]) < first(q[k])
        BY <1>1, <1>3, <1>4, <3>2
      <4>2. new = hull_of(q[k], q[m])
        BY <1>3, <3>2
      <4>3. /\ Proper(new)
            /\ first(new) = IF first(q[k]) < first(q[m]) THEN first(q[k]) ELSE first(q[m])
            /\ last(new) = IF last(q[k]) < last(q[m]) THEN last(q[m]) ELSE last(q[k])
        BY <1>1, <1>2, <1>4, <4>2, HullIs
      <4> QED BY <1>1, <1>2, <1>4, <4>1, <4>3
    <3> QED BY <3>1, <3>2
  <2>3. \A e \in Int : In(e, new) <=> \E j \in m .. k : In(e, q[j])
    <3>1. \A j \in m .. k : j \in 1 .. n /\ (j < k => j \in m .. k - 1)
      BY <1>1, <1>4
    <3>2. \A e \in Int : (first(q[m]) <= e /\ e <= last(q[k])) <=> \E j \in m .. k : In(e, q[j])
      <4>1. /\ \A j \in m .. k : first(q[j]) \in Int /\ last(q[j]) \in Int /\ first(q[j]) <= last(q[j])
            /\ \A j \in m .. k : j < k => last(q[j]) + 1 = first(q[j + 1])
            /\ \A i, j \in m .. k : i < j => last(q[i]) < first(q[j])
        BY <1>1, <1>3, <3>1
      <4> QED BY <1>1, <1>4, <4>1, RunCovers
    <3> QED BY <2>2, <3>2 DEF In
  <2> HIDE DEF new, y
  <2>4. \A t \in x.kept : /\ first(t) \in Int /\ last(t) \in Int /\ first(t) <= last(t)
                          /\ last(t) + 1 < first(new)
    BY <1>3, <2>2, LaidEnds
  <2>5. first(new) \in Int /\ last(new) \in Int /\ first(new) <= last(new)
    BY <2>2, ProperEnds
  <2>6. Laid(x.kept \cup {new})
    <3>1. IsFiniteSet({new})
      BY FS_Singleton
    <3>2. (\A u \in {new} : Proper(u)) /\ (\A t \in x.kept \ {}, u \in {new} : Clear(t, u))
      BY <2>2, <2>4, <2>5 DEF Clear
    <3>3. \A u, v \in {new} : u = v \/ Clear(u, v)
      OBVIOUS
    <3>4. Laid((x.kept \ {}) \cup {new})
      BY <1>3, <3>1, <3>2, <3>3, Replaced
    <3>5. (x.kept \ {}) \cup {new} = x.kept \cup {new}
      OBVIOUS
    <3> QED BY <3>4, <3>5
  <2>7. Joined(x.kept \cup {new})
    BY <1>3, <2>4, <2>5 DEF Joined
  <2>8. \A e \in Int : Has(y.kept, e) <=> \E j \in 1 .. k : In(e, q[j])
    <3> SUFFICES ASSUME NEW e \in Int
                 PROVE  Has(y.kept, e) <=> \E j \in 1 .. k : In(e, q[j])
      OBVIOUS
    <3>1. Has(y.kept, e) <=> Has(x.kept, e) \/ In(e, new)
      BY <2>1 DEF Has
    <3>2. \A j \in 1 .. k : j \in 1 .. m - 1 \/ j \in m .. k
      BY <1>3
    <3>3. (\A j \in 1 .. m - 1 : j \in 1 .. k) /\ (\A j \in m .. k : j \in 1 .. k)
      BY <1>3
    <3> QED BY <1>3, <2>3, <3>1, <3>2, <3>3
  <2>9. CASE k < n
    <3>1. k + 1 \in 1 .. n /\ k + 1 \in 1 .. k + 1 /\ k < k + 1 /\ (k + 1) - 1 = k
          /\ k + 1 .. k = {} /\ k # n
      BY <1>1, <1>2, <2>9
    <3>2. y.fst_mem = q[k + 1]
      BY <2>1, <2>9
    <3>3. last(q[k]) + 1 < first(q[k + 1])
      <4>1. last(q[k]) < first(q[k + 1]) /\ last(q[k]) + 1 # first(q[k + 1])
        BY <1>1, <1>2, <1>6, <2>9, <3>1
      <4> QED BY <1>1, <1>2, <3>1, <4>1
    <3>4. \A t \in y.kept : last(t) + 1 < first(q[k + 1])
      <4>1. first(q[k + 1]) \in Int
        BY <1>1, <3>1
      <4> QED BY <2>1, <2>2, <2>4, <2>5, <3>3, <4>1
    <3>5. \A e \in Int : Has(y.kept, e) <=> \E j \in 1 .. (k + 1) - 1 : In(e, q[j])
      BY <2>8, <3>1
    <3>6. Joining(q, y, k + 1, k)
      BY <2>1, <2>6, <2>7, <3>1, <3>2, <3>4, <3>5 DEF Joining, n
    <3> QED BY <3>6 DEF q, y
  <2>10. CASE ~ (k < n)
    <3>1. k = n
      BY <1>1, <1>2, <2>10
    <3>2. Joining(q, y, 1, k)
      BY <2>1, <2>6, <2>7, <2>8, <2>10, <3>1 DEF Joining, n
    <3> QED BY <3>2 DEF q, y
  <2> QED BY <2>9, <2>10
<1> QED BY <1>5, <1>6

\* join: no interval touches another, and no element changes.
LEMMA JoinSetIs ==
  ASSUME NEW S, Laid(S)
  PROVE  /\ Laid(JoinSet(S)) /\ Joined(JoinSet(S))
         /\ \A k \in Int : Has(JoinSet(S), k) <=> Has(S, k)
<1>1. CASE S = {}
  <2>1. InOrder(S) = <<>>
    <3>1. Len(InOrder(S)) = 0 /\ InOrder(S) \in Seq(S)
      BY <1>1, Iterated, FS_EmptySet
    <3> QED BY <3>1
  <2>2. JoinSet(S) = {}
    BY <2>1 DEF JoinSet, JoinRuns
  <2> QED BY <1>1, <2>2, NoneIsFit DEF Joined
<1>2. CASE S # {}
  <2> DEFINE q == InOrder(S)
             n == Len(q)
             p == [k \in DOMAIN InOrder(S) |-> k]
             x0 == [kept |-> {}, fst_mem |-> q[1]]
  <2>1. /\ n \in Nat \ {0} /\ DOMAIN q = 1 .. n
        /\ \A s \in S : \E k \in 1 .. n : q[k] = s
        /\ \A k \in 1 .. n : q[k] \in S /\ q[k] \in Interval
    BY <1>2, ListedIs
  <2>2. p \in Seq(DOMAIN q) /\ Len(p) = n /\ \A k \in 1 .. n : p[k] = k
    BY <2>1
  <2>3. x0 \in SetJoinStates /\ x0.kept = {} /\ x0.fst_mem = q[1]
    BY <2>1 DEF SetJoinStates
  <2>4. PICK h \in [0 .. Len(p) -> SetJoinStates] :
          /\ h[0] = x0
          /\ JoinSet(S) = h[Len(p)].kept
          /\ \A k \in 1 .. Len(p) : h[k] = SetJoinStep(q, h[k - 1], p[k]) /\ p[k] \in DOMAIN q
    BY <1>2, <2>2, <2>3, SetJoinLoop
  <2> HIDE DEF p, x0, n
  <2> DEFINE R(k) == \E m : Joining(q, h[k], m, k)
             P == [k \in 0 .. n |-> R(k)]
  <2>5. P \in [0 .. n -> BOOLEAN] /\ \A k \in 0 .. n : P[k] <=> R(k)
    OBVIOUS
  <2> HIDE DEF P
  <2>6. P[0]
    <3>1. Joining(q, x0, 1, 0)
      <4>1. \A e \in Int : ~ Has({}, e)
        BY NoneIsFit
      <4>2. Laid({}) /\ Joined({})
        BY NoneIsFit DEF Joined
      <4>3. 1 .. 1 - 1 = {} /\ 1 .. 0 = {} /\ 1 \in 1 .. 0 + 1 /\ 0 # Len(q)
        BY <2>1 DEF n
      <4> QED BY <2>3, <4>1, <4>2, <4>3 DEF Joining
    <3>2. R(0)
      BY <2>4, <3>1
    <3> HIDE DEF R
    <3> QED BY <2>1, <2>5, <3>2
  <2>7. ASSUME NEW k \in 1 .. n, P[k - 1]
        PROVE  P[k]
    <3>1. k - 1 \in 0 .. n /\ k \in 0 .. n
      BY <2>1
    <3>2. R(k - 1)
      BY <2>5, <2>7, <3>1
    <3>3. PICK m : Joining(q, h[k - 1], m, k - 1)
      BY <3>2
    <3>4. k \in 1 .. Len(InOrder(S))
      BY DEF n
    <3>5. PICK l : Joining(q, SetJoinStep(q, h[k - 1], k), l, k)
      BY <3>3, <3>4, JoinPasses
    <3>6. R(k)
      BY <2>2, <2>4, <3>5
    <3> HIDE DEF R
    <3> QED BY <2>5, <3>1, <3>6
  <2>8. n \in 0 .. n
    BY <2>1
  <2>9. PICK m : Joining(q, h[n], m, n)
    <3>1. P[n]
      BY <2>1, <2>5, <2>6, <2>7, <2>8, Upwards
    <3>2. R(n)
      BY <2>5, <2>8, <3>1
    <3> QED BY <3>2
  <2>10. /\ Laid(JoinSet(S)) /\ Joined(JoinSet(S))
         /\ \A e \in Int : Has(JoinSet(S), e) <=> \E j \in 1 .. n : In(e, q[j])
    BY <2>2, <2>4, <2>9 DEF Joining, n
  <2>11. \A e \in Int : Has(S, e) <=> \E j \in 1 .. n : In(e, q[j])
    BY <2>1 DEF Has
  <2> QED BY <2>10, <2>11
<1> QED BY <1>1, <1>2
=============================================================================
