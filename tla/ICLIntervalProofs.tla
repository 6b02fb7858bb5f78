-------------------------- MODULE ICLIntervalProofs --------------------------
(***************************************************************************)
(* Proofs about ICLIntervalOps, for limits of any size: what the algebra   *)
(* of intervals computes with limits and bound bits is what it promises of *)
(* sets of elements.  ICLSetProofs has the facts by first and last         *)
(* elements that the proofs rest on.                                       *)
(***************************************************************************)
EXTENDS ICLIntervalOps, ICLSetProofs

-----------------------------------------------------------------------------
(***************************************************************************)
(* From first and last to sets of elements.                                *)
(***************************************************************************)

\* An interval with these ends has the elements that are asked of it.
LEMMA LeftSubtractExact ==
  ASSUME NEW t \in Types, NEW v \in IntervalOf(t), NEW w \in IntervalOf(t)
  PROVE  /\ left_subtract(t, v, w) \in IntervalOf(t)
         /\ Elements(left_subtract(t, v, w)) =
              {e \in Elements(v) : Before(Elements(w), {e})}
<1>0. /\ v \in Interval /\ first(v) \in Int /\ last(v) \in Int
      /\ w \in Interval /\ first(w) \in Int /\ last(w) \in Int
  BY OfType, Ends
<1>1. CASE exclusive_less(w, v)
  <2>1. left_subtract(t, v, w) = v
    BY <1>1 DEF left_subtract
  <2>2. \A e \in Elements(v), f \in Elements(w) : f < e
    BY <1>0, <1>1, Member, ExclusiveIs
  <2> QED BY <2>1, <2>2 DEF Before
<1>2. CASE ~ exclusive_less(w, v)
  <2> DEFINE r == left_subtract(t, v, w)
  <2>1. /\ r \in IntervalOf(t) /\ r \in Interval
        /\ \/ first(r) = last(w) + 1 /\ last(r) = last(v)
           \/ Elements(r) = {} /\ last(v) <= last(w)
    BY <1>2, LeftSubtractEnds, OfType
  <2>2. first(w) <= last(w) /\ first(v) <= last(w)
    BY <1>0, <1>2, ExclusiveIs
  <2> HIDE DEF r
  <2>3. ASSUME NEW e \in Elements(v) PROVE Before(Elements(w), {e}) <=> last(w) < e
    BY <1>0, <2>2, Member DEF Before
  <2>4. ASSUME NEW e PROVE e \in Elements(r) <=> e \in Elements(v) /\ last(w) < e
    BY <1>0, <2>1, <2>2, Member
  <2>5. Elements(r) = {e \in Elements(v) : Before(Elements(w), {e})}
    BY <2>3, <2>4
  <2> QED BY <2>1, <2>5 DEF r
<1> QED BY <1>1, <1>2

\* right_subtract keeps the elements before the subtrahend.
LEMMA RightSubtractExact ==
  ASSUME NEW t \in Types, NEW v \in IntervalOf(t), NEW w \in IntervalOf(t)
  PROVE  /\ right_subtract(t, v, w) \in IntervalOf(t)
         /\ Elements(right_subtract(t, v, w)) =
              {e \in Elements(v) : Before({e}, Elements(w))}
<1>0. /\ v \in Interval /\ first(v) \in Int /\ last(v) \in Int
      /\ w \in Interval /\ first(w) \in Int /\ last(w) \in Int
  BY OfType, Ends
<1>1. CASE exclusive_less(v, w)
  <2>1. right_subtract(t, v, w) = v
    BY <1>1 DEF right_subtract
  <2>2. \A e \in Elements(v), f \in Elements(w) : e < f
    BY <1>0, <1>1, Member, ExclusiveIs
  <2> QED BY <2>1, <2>2 DEF Before
<1>2. CASE ~ exclusive_less(v, w)
  <2> DEFINE r == right_subtract(t, v, w)
  <2>1. /\ r \in IntervalOf(t) /\ r \in Interval
        /\ \/ first(r) = first(v) /\ last(r) = first(w) - 1
           \/ Elements(r) = {} /\ first(w) <= first(v)
    BY <1>2, RightSubtractEnds, OfType
  <2>2. first(w) <= last(w) /\ first(w) <= last(v)
    BY <1>0, <1>2, ExclusiveIs
  <2> HIDE DEF r
  <2>3. ASSUME NEW e \in Elements(v) PROVE Before({e}, Elements(w)) <=> e < first(w)
    BY <1>0, <2>2, Member DEF Before
  <2>4. ASSUME NEW e PROVE e \in Elements(r) <=> e \in Elements(v) /\ e < first(w)
    BY <1>0, <2>1, <2>2, Member
  <2>5. Elements(r) = {e \in Elements(v) : Before({e}, Elements(w))}
    BY <2>3, <2>4
  <2> QED BY <2>1, <2>5 DEF r
<1> QED BY <1>1, <1>2

\* The intersection operator & has the common elements.
LEMMA IntersectionExact ==
  ASSUME NEW t \in Types, NEW v \in IntervalOf(t), NEW w \in IntervalOf(t)
  PROVE  /\ Intersection(t, v, w) \in IntervalOf(t)
         /\ Elements(Intersection(t, v, w)) = Elements(v) \cap Elements(w)
<1>0. /\ v \in Interval /\ first(v) \in Int /\ last(v) \in Int
      /\ w \in Interval /\ first(w) \in Int /\ last(w) \in Int
  BY OfType, Ends
<1>1. CASE is_empty(v) \/ is_empty(w)
  <2>1. Intersection(t, v, w) = identity_element(t)
    BY <1>1 DEF Intersection
  <2>2. Elements(v) \cap Elements(w) = {}
    BY <1>0, <1>1, EmptyIs, NoElements
  <2> QED BY <2>1, <2>2, IdentityOfType
<1>2. CASE ~ is_empty(v) /\ ~ is_empty(w)
  <2> DEFINE r == Intersection(t, v, w)
  <2>1. /\ r \in IntervalOf(t) /\ r \in Interval
        /\ first(r) = MaxOf(first(v), first(w)) /\ last(r) = MinOf(last(v), last(w))
    BY <1>2, IntersectionEnds, OfType
  <2> HIDE DEF r
  <2>2. ASSUME NEW e PROVE e \in Elements(r) <=> e \in Elements(v) /\ e \in Elements(w)
    BY <1>0, <2>1, Member DEF MaxOf, MinOf
  <2> QED BY <2>1, <2>2 DEF r
<1> QED BY <1>1, <1>2

\* Smallest and largest elements of a range, and of two ranges together.
LEMMA RangeLimits ==
  ASSUME NEW a \in Int, NEW b \in Int, a <= b
  PROVE  Min(a .. b) = a /\ Max(a .. b) = b
<1>1. /\ a \in a .. b /\ \A e \in a .. b : a <= e
      /\ b \in a .. b /\ \A e \in a .. b : b >= e
  OBVIOUS
<1>2. \A m \in a .. b : (\A e \in a .. b : m <= e) => m = a
  BY <1>1
<1>3. \A m \in a .. b : (\A e \in a .. b : m >= e) => m = b
  BY <1>1
<1>4. Min(a .. b) = a
  BY <1>1, <1>2 DEF Min
<1>5. Max(a .. b) = b
  BY <1>1, <1>3 DEF Max
<1> QED BY <1>4, <1>5

\* The least and the greatest element of two ranges.
LEMMA UnionLimits ==
  ASSUME NEW a \in Int, NEW b \in Int, a <= b, NEW c \in Int, NEW d \in Int, c <= d,
         NEW S, S = (a .. b) \cup (c .. d)
  PROVE  Min(S) = MinOf(a, c) /\ Max(S) = MaxOf(b, d)
<1>1. /\ MinOf(a, c) \in S /\ \A e \in S : MinOf(a, c) <= e
      /\ MaxOf(b, d) \in S /\ \A e \in S : MaxOf(b, d) >= e
      /\ MinOf(a, c) \in Int /\ MaxOf(b, d) \in Int /\ S \subseteq Int
  BY DEF MinOf, MaxOf
<1>2. \A m \in S : (\A e \in S : m <= e) => m = MinOf(a, c)
  BY <1>1
<1>3. \A m \in S : (\A e \in S : m >= e) => m = MaxOf(b, d)
  BY <1>1
<1>4. Min(S) = MinOf(a, c)
  BY <1>1, <1>2 DEF Min
<1>5. Max(S) = MaxOf(b, d)
  BY <1>1, <1>3 DEF Max
<1> QED BY <1>4, <1>5

\* hull has the elements between the outermost ones.
LEMMA HullExact ==
  ASSUME NEW t \in Types, NEW v \in IntervalOf(t), NEW w \in IntervalOf(t)
  PROVE  LET X == Elements(v)
             Y == Elements(w)
         IN /\ hull(t, v, w) \in IntervalOf(t)
            /\ Elements(hull(t, v, w)) =
                 IF X \cup Y = {} THEN {} ELSE Min(X \cup Y) .. Max(X \cup Y)
<1>0. /\ v \in Interval /\ first(v) \in Int /\ last(v) \in Int
      /\ w \in Interval /\ first(w) \in Int /\ last(w) \in Int
      /\ Elements(v) = first(v) .. last(v) /\ Elements(w) = first(w) .. last(w)
      /\ is_empty(v) <=> last(v) < first(v)
      /\ is_empty(w) <=> last(w) < first(w)
      /\ is_empty(v) <=> Elements(v) = {}
      /\ is_empty(w) <=> Elements(w) = {}
  BY OfType, Ends, ElementsAre, EmptyIs, NoElements
<1>1. CASE is_empty(w)
  <2>1. hull(t, v, w) = v /\ Elements(v) \cup Elements(w) = Elements(v)
    BY <1>0, <1>1 DEF hull
  <2>2. ~ is_empty(v) => Min(Elements(v)) .. Max(Elements(v)) = Elements(v)
    BY <1>0, RangeLimits
  <2>3. (Elements(v) = {}) => is_empty(v)
    BY <1>0
  <2> QED BY <2>1, <2>2, <1>0
<1>2. CASE ~ is_empty(w) /\ is_empty(v)
  <2>1. hull(t, v, w) = w /\ Elements(v) \cup Elements(w) = Elements(w)
    BY <1>0, <1>2 DEF hull
  <2>2. Min(Elements(w)) .. Max(Elements(w)) = Elements(w)
    BY <1>0, <1>2, RangeLimits
  <2> QED BY <2>1, <2>2, <1>0, <1>2
<1>3. CASE ~ is_empty(v) /\ ~ is_empty(w)
  <2>1. /\ hull(t, v, w) \in IntervalOf(t)
        /\ first(hull(t, v, w)) = MinOf(first(v), first(w))
        /\ last(hull(t, v, w)) = MaxOf(last(v), last(w))
    BY <1>3, HullEnds
  <2>2. Elements(hull(t, v, w)) = MinOf(first(v), first(w)) .. MaxOf(last(v), last(w))
    BY <2>1, OfType, ElementsAre
  <2>3. /\ Min(Elements(v) \cup Elements(w)) = MinOf(first(v), first(w))
        /\ Max(Elements(v) \cup Elements(w)) = MaxOf(last(v), last(w))
    <3>1. first(v) <= last(v) /\ first(w) <= last(w)
      BY <1>0, <1>3
    <3>2. /\ first(v) \in Int /\ last(v) \in Int /\ first(w) \in Int /\ last(w) \in Int
          /\ Elements(v) \cup Elements(w) = (first(v) .. last(v)) \cup (first(w) .. last(w))
      BY <1>0
    <3> QED BY <3>1, <3>2, UnionLimits
  <2> QED BY <1>0, <1>3, <2>1, <2>2, <2>3
<1> QED BY <1>1, <1>2, <1>3

\* The gap between two sets of elements, for two intervals of which the first
\* is the left one.
LEMMA GapOfTwoIs ==
  ASSUME NEW v \in Interval, NEW w \in Interval, ~ is_empty(v), ~ is_empty(w)
  PROVE  /\ Before(Elements(v), Elements(w)) <=> last(v) < first(w)
         /\ Max(Elements(v)) = last(v) /\ Min(Elements(v)) = first(v)
         /\ Elements(v) # {}
<1>1. /\ first(v) \in Int /\ last(v) \in Int /\ first(v) <= last(v)
      /\ first(w) \in Int /\ last(w) \in Int /\ first(w) <= last(w)
  BY Ends, EmptyIs
<1>2. Before(Elements(v), Elements(w)) <=> last(v) < first(w)
  BY <1>1, Member DEF Before
<1> QED BY <1>1, <1>2, ElementsAre, RangeLimits, NoElements

\* inner_complement of two intervals in order: what lies between them.
LEMMA BetweenRange ==
  ASSUME NEW t \in Types, NEW v \in IntervalOf(t), NEW w \in IntervalOf(t),
         ~ is_empty(v), ~ is_empty(w), last(v) < first(w)
  PROVE  /\ BetweenOrdered(t, v, w) \in IntervalOf(t)
         /\ Elements(BetweenOrdered(t, v, w)) = (last(v) + 1) .. (first(w) - 1)
<1> DEFINE r == BetweenOrdered(t, v, w)
<1>1. last(v) \in Int /\ first(w) \in Int
  BY OfType, Ends
<1>2. /\ r \in IntervalOf(t)
      /\ \/ first(r) = last(v) + 1 /\ last(r) = first(w) - 1
         \/ Elements(r) = {} /\ first(w) <= last(v) + 1
  BY BetweenEnds
<1>3. Elements(r) = first(r) .. last(r)
  BY <1>2, OfType, ElementsAre
<1>4. first(w) <= last(v) + 1 => (last(v) + 1) .. (first(w) - 1) = {}
  BY <1>1
<1> HIDE DEF r
<1>5. Elements(r) = (last(v) + 1) .. (first(w) - 1)
  BY <1>2, <1>3, <1>4
<1> QED BY <1>2, <1>5 DEF r

\* inner_complement of any two intervals is the gap between their elements.
LEMMA BetweenExact ==
  ASSUME NEW t \in Types, NEW v \in IntervalOf(t), NEW w \in IntervalOf(t)
  PROVE  /\ inner_complement(t, v, w) \in IntervalOf(t)
         /\ Elements(inner_complement(t, v, w)) = Gap(Elements(v), Elements(w))
<1>0. /\ v \in Interval /\ first(v) \in Int /\ last(v) \in Int
      /\ w \in Interval /\ first(w) \in Int /\ last(w) \in Int
  BY OfType, Ends
<1>1. CASE is_empty(v) \/ is_empty(w)
  <2>1. Elements(v) = {} \/ Elements(w) = {}
    BY <1>0, <1>1, EmptyIs, NoElements
  <2> QED BY <1>1, <2>1, IdentityOfType DEF inner_complement, Gap
<1>2. CASE ~ is_empty(v) /\ ~ is_empty(w)
  <2>1. /\ Elements(v) # {} /\ Elements(w) # {}
        /\ first(v) <= last(v) /\ first(w) <= last(w)
        /\ exclusive_less(v, w) <=> last(v) < first(w)
        /\ exclusive_less(w, v) <=> last(w) < first(v)
        /\ Before(Elements(v), Elements(w)) <=> last(v) < first(w)
        /\ Before(Elements(w), Elements(v)) <=> last(w) < first(v)
        /\ Max(Elements(v)) = last(v) /\ Min(Elements(v)) = first(v)
        /\ Max(Elements(w)) = last(w) /\ Min(Elements(w)) = first(w)
    BY <1>0, <1>2, GapOfTwoIs, EmptyIs, ExclusiveIs
  <2>2. CASE last(v) < first(w)
    <3>1. inner_complement(t, v, w) = BetweenOrdered(t, v, w)
      BY <1>2, <2>1, <2>2 DEF inner_complement
    <3>2. Gap(Elements(v), Elements(w)) = (last(v) + 1) .. (first(w) - 1)
      BY <2>1, <2>2 DEF Gap
    <3>3. /\ BetweenOrdered(t, v, w) \in IntervalOf(t)
          /\ Elements(BetweenOrdered(t, v, w)) = (last(v) + 1) .. (first(w) - 1)
      BY <1>2, <2>2, BetweenRange
    <3> QED BY <3>1, <3>2, <3>3
  <2>3. CASE last(w) < first(v)
    <3>1. inner_complement(t, v, w) = BetweenOrdered(t, w, v)
      BY <1>0, <1>2, <2>1, <2>3 DEF inner_complement
    <3>2. Gap(Elements(v), Elements(w)) = (last(w) + 1) .. (first(v) - 1)
      BY <1>0, <2>1, <2>3 DEF Gap
    <3>3. /\ BetweenOrdered(t, w, v) \in IntervalOf(t)
          /\ Elements(BetweenOrdered(t, w, v)) = (last(w) + 1) .. (first(v) - 1)
      BY <1>2, <2>3, BetweenRange
    <3> QED BY <3>1, <3>2, <3>3
  <2>4. CASE ~ last(v) < first(w) /\ ~ last(w) < first(v)
    BY <1>2, <2>1, <2>4, IdentityOfType DEF inner_complement, Gap
  <2> QED BY <2>2, <2>3, <2>4
<1> QED BY <1>1, <1>2

-----------------------------------------------------------------------------
(***************************************************************************)
(* The constructors.                                                       *)
(***************************************************************************)

\* A limit that is shifted admits the same first or last element.
LEMMA ShiftedLower ==
  ASSUME NEW t \in Bounds, NEW b \in Bounds, NEW v \in Int
  PROVE  /\ shift_lower(b, t, v) \in Int
         /\ (IF t \in {RightOpen, Closed} THEN shift_lower(b, t, v)
                                          ELSE shift_lower(b, t, v) + 1)
            = IF b \in {RightOpen, Closed} THEN v ELSE v + 1
BY DEF shift_lower, is_left_closed

\* shift_upper keeps the last element when the kind of bound changes.
LEMMA ShiftedUpper ==
  ASSUME NEW t \in Bounds, NEW b \in Bounds, NEW v \in Int
  PROVE  /\ shift_upper(b, t, v) \in Int
         /\ (IF t \in {LeftOpen, Closed} THEN shift_upper(b, t, v)
                                         ELSE shift_upper(b, t, v) - 1)
            = IF b \in {LeftOpen, Closed} THEN v ELSE v - 1
BY DEF shift_upper, is_right_closed

\* A declaration with foreign bounds keeps the elements.
LEMMA DeclaredExact ==
  ASSUME NEW t \in Types, NEW b \in Bounds, NEW v \in Int, NEW w \in Int
  PROVE  /\ DeclaredAs(t, v, w, b) \in IntervalOf(t)
         /\ Elements(DeclaredAs(t, v, w, b)) = Elements([lo |-> v, up |-> w, b |-> b])
<1> DEFINE d == [lo |-> v, up |-> w, b |-> b]
<1>1. /\ d \in Interval /\ d.lo = v /\ d.up = w /\ d.b = b
  BY DEF Interval
<1>2. CASE t = Dynamic
  <2>1. DeclaredAs(t, v, w, b) = d
    BY <1>2 DEF DeclaredAs, construct
  <2>2. d \in IntervalOf(t)
    BY <1>1, <1>2, OfType
  <2> QED BY <2>1, <2>2
<1>3. CASE t # Dynamic
  <2> DEFINE r == construct(t, shift_lower(b, t, v), shift_upper(b, t, w), t)
  <2>1. t \in Bounds /\ DeclaredAs(t, v, w, b) = r
    BY <1>3, TypesDiffer DEF DeclaredAs
  <2>2. shift_lower(b, t, v) \in Int /\ shift_upper(b, t, w) \in Int
    BY <2>1, ShiftedLower, ShiftedUpper
  <2>3. r \in IntervalOf(t) /\ r \in Interval
    BY <2>1, <2>2, StaticSpan
  <2>d. /\ first(d) = IF b \in {RightOpen, Closed} THEN v ELSE v + 1
        /\ last(d) = IF b \in {LeftOpen, Closed} THEN w ELSE w - 1
    <3> HIDE DEF d
    <3> QED BY <1>1, Ends
  <2>r. /\ first(r) = IF t \in {RightOpen, Closed} THEN shift_lower(b, t, v)
                                                 ELSE shift_lower(b, t, v) + 1
        /\ last(r) = IF t \in {LeftOpen, Closed} THEN shift_upper(b, t, w)
                                               ELSE shift_upper(b, t, w) - 1
    BY <2>1, <2>2, StaticSpan
  <2> HIDE DEF d, r
  <2>4. first(r) = first(d)
    BY <2>1, <2>d, <2>r, ShiftedLower
  <2>5. last(r) = last(d)
    BY <2>1, <2>d, <2>r, ShiftedUpper
  <2>6. Elements(r) = Elements(d)
    BY <1>1, <2>3, <2>4, <2>5, ElementsAre
  <2> QED BY <2>1, <2>3, <2>6 DEF d
<1> QED BY <1>2, <1>3

\* The hull of two points reaches from the smaller to the larger.
LEMMA PointHullExact ==
  ASSUME NEW t \in Types, NEW v \in Int, NEW w \in Int
  PROVE  /\ HullOfPoints(t, v, w) \in IntervalOf(t)
         /\ Elements(HullOfPoints(t, v, w)) = MinOf(v, w) .. MaxOf(v, w)
<1> DEFINE low == MinOf(v, w)
           up == MaxOf(v, w)
           r == HullOfPoints(t, v, w)
<1>1. low \in Int /\ up \in Int
  BY DEF MinOf, MaxOf
<1>2. r = construct(t, IF t \in {LeftOpen, Open} THEN low - 1 ELSE low,
                       IF t \in {RightOpen, Open} THEN up + 1 ELSE up, Closed)
  BY DEF HullOfPoints, MinOf, MaxOf
<1> HIDE DEF low, up, r
<1>3. r \in IntervalOf(t) /\ Elements(r) = low .. up
  BY <1>1, <1>2, PointsExact
<1> QED BY <1>3 DEF low, up, r

\* span constructs an interval of its type.
LEMMA SpanOfType ==
  ASSUME NEW t \in Types, NEW v \in Int, NEW w \in Int
  PROVE  span(t, v, w) \in IntervalOf(t)
BY Constructed DEF span, Bounds, Open, RightOpen, Closed

-----------------------------------------------------------------------------
(***************************************************************************)
(* Relations, order and sizes.                                             *)
(***************************************************************************)

\* is_empty tells the intervals without elements.
LEMMA EmptyExact ==
  ASSUME NEW v \in Interval
  PROVE  is_empty(v) <=> Elements(v) = {}
BY EmptyIs, NoElements

\* contains(interval, element) is membership.
LEMMA ContainsElementExact ==
  ASSUME NEW v \in Interval, NEW e \in Int
  PROVE  ContainsElement(v, e) <=> e \in Elements(v)
<1>1. ContainsElement(v, e) <=> first(v) <= e /\ e <= last(v)
  BY Ends DEF ContainsElement, is_left_closed, is_right_closed
<1> QED BY <1>1, Member

\* contains(interval, interval) is inclusion.
LEMMA ContainsExact ==
  ASSUME NEW v \in Interval, NEW w \in Interval
  PROVE  contains(v, w) <=> Elements(w) \subseteq Elements(v)
<1>0. /\ first(v) \in Int /\ last(v) \in Int
      /\ first(w) \in Int /\ last(w) \in Int
  BY Ends
<1>1. contains(v, w) <=>
        last(w) < first(w) \/ (first(v) <= first(w) /\ last(w) <= last(v))
  BY <1>0, EmptyIs DEF contains, lower_less_equal, upper_less_equal, lower_less,
                       upper_less, lower_equal, upper_equal
<1>2. ASSUME last(w) < first(w) \/ (first(v) <= first(w) /\ last(w) <= last(v))
      PROVE  Elements(w) \subseteq Elements(v)
  BY <1>0, <1>2, Member
<1>3. ASSUME first(w) <= last(w), Elements(w) \subseteq Elements(v)
      PROVE  first(v) <= first(w) /\ last(w) <= last(v)
  <2>1. first(w) \in Elements(w) /\ last(w) \in Elements(w)
    BY <1>0, <1>3, Member
  <2> QED BY <1>0, <1>3, <2>1, Member
<1> QED BY <1>0, <1>1, <1>2, <1>3

\* exclusive_less is to lie before; what is unordered by it intersects.
LEMMA ExclusiveExact ==
  ASSUME NEW v \in Interval, NEW w \in Interval
  PROVE  /\ exclusive_less(v, w) <=> Before(Elements(v), Elements(w))
         /\ intersects(v, w) <=> Elements(v) \cap Elements(w) # {}
         /\ disjoint(v, w) <=> Elements(v) \cap Elements(w) = {}
<1>0. /\ first(v) \in Int /\ last(v) \in Int
      /\ first(w) \in Int /\ last(w) \in Int
  BY Ends
<1>1. CASE is_empty(v) \/ is_empty(w)
  <2>1. Elements(v) = {} \/ Elements(w) = {}
    BY <1>1, EmptyExact
  <2> QED BY <1>1, <2>1 DEF exclusive_less, intersects, disjoint, Before
<1>2. CASE ~ is_empty(v) /\ ~ is_empty(w)
  <2>1. first(v) <= last(v) /\ first(w) <= last(w)
    BY <1>0, <1>2, EmptyIs
  <2>2. /\ exclusive_less(v, w) <=> last(v) < first(w)
        /\ exclusive_less(w, v) <=> last(w) < first(v)
    BY <1>2 DEF exclusive_less
  <2>3. exclusive_less(v, w) <=> Before(Elements(v), Elements(w))
    BY <1>2, <2>2, GapOfTwoIs
  <2>4. CASE last(v) < first(w) \/ last(w) < first(v)
    <3>1. Elements(v) \cap Elements(w) = {}
      BY <1>0, <2>4, Member
    <3> QED BY <1>2, <2>2, <2>3, <2>4, <3>1 DEF intersects, disjoint
  <2>5. CASE ~ last(v) < first(w) /\ ~ last(w) < first(v)
    <3>1. MaxOf(first(v), first(w)) \in Elements(v) \cap Elements(w)
      BY <1>0, <2>1, <2>5, Member DEF MaxOf
    <3>2. ~ exclusive_less(v, w) /\ ~ exclusive_less(w, v)
      BY <2>2, <2>5
    <3> QED BY <1>2, <2>3, <3>1, <3>2 DEF intersects, disjoint
  <2> QED BY <2>4, <2>5
<1> QED BY <1>1, <1>2

\* == compares elements, not limits.
LEMMA EqualExact ==
  ASSUME NEW v \in Interval, NEW w \in Interval
  PROVE  Equal(v, w) <=> Elements(v) = Elements(w)
<1>0. /\ first(v) \in Int /\ last(v) \in Int
      /\ first(w) \in Int /\ last(w) \in Int
      /\ Elements(v) = first(v) .. last(v) /\ Elements(w) = first(w) .. last(w)
  BY Ends, ElementsAre
<1>1. Equal(v, w) <=> \/ is_empty(v) /\ is_empty(w)
                      \/ first(v) = first(w) /\ last(v) = last(w)
  BY DEF Equal, lower_equal, upper_equal
<1>2. CASE is_empty(v) \/ is_empty(w)
  <2>1. /\ is_empty(v) <=> last(v) < first(v)
        /\ is_empty(w) <=> last(w) < first(w)
    BY EmptyIs
  <2> QED BY <1>0, <1>1, <1>2, <2>1, EmptyExact
<1>3. CASE ~ is_empty(v) /\ ~ is_empty(w)
  <2>1. /\ Min(Elements(v)) = first(v) /\ Max(Elements(v)) = last(v)
        /\ Min(Elements(w)) = first(w) /\ Max(Elements(w)) = last(w)
    BY <1>3, GapOfTwoIs
  <2>2. Elements(v) = Elements(w) => first(v) = first(w) /\ last(v) = last(w)
    BY <2>1
  <2> QED BY <1>0, <1>1, <1>3, <2>2
<1> QED BY <1>2, <1>3

\* The number of elements of a range, as cardinality computes it.
LEMMA SizeExact ==
  ASSUME NEW v \in Interval
  PROVE  cardinality(v) = Cardinality(Elements(v)) /\ length(v) = Cardinality(Elements(v))
<1>0. first(v) \in Int /\ last(v) \in Int /\ last_next(v) = last(v) + 1
  BY Ends DEF last_next, is_right_closed
<1>1. Cardinality(first(v) .. last(v)) =
        IF first(v) > last(v) THEN 0 ELSE last(v) - first(v) + 1
  BY <1>0, FS_Interval
<1>2. is_empty(v) <=> first(v) > last(v)
  BY <1>0, EmptyIs
<1> QED BY <1>0, <1>1, <1>2, ElementsAre DEF cardinality, length

\* distance counts the elements between two intervals.
LEMMA DistanceExact ==
  ASSUME NEW v \in Interval, NEW w \in Interval
  PROVE  distance(v, w) = Cardinality(Gap(Elements(v), Elements(w)))
<1>0. /\ first(v) \in Int /\ last(v) \in Int
      /\ first(w) \in Int /\ last(w) \in Int
  BY Ends
<1>e. Cardinality({}) = 0
  BY FS_EmptySet
<1>1. CASE is_empty(v) \/ is_empty(w)
  <2>1. Elements(v) = {} \/ Elements(w) = {}
    BY <1>1, EmptyExact
  <2> QED BY <1>e, <1>1, <2>1 DEF distance, Gap
<1>2. CASE ~ is_empty(v) /\ ~ is_empty(w)
  <2>1. /\ Elements(v) # {} /\ Elements(w) # {}
        /\ Before(Elements(v), Elements(w)) <=> last(v) < first(w)
        /\ Before(Elements(w), Elements(v)) <=> last(w) < first(v)
        /\ Max(Elements(v)) = last(v) /\ Min(Elements(v)) = first(v)
        /\ Max(Elements(w)) = last(w) /\ Min(Elements(w)) = first(w)
    BY <1>2, GapOfTwoIs
  <2>2. CASE last(v) < first(w)
    <3>1. Gap(Elements(v), Elements(w)) = (last(v) + 1) .. (first(w) - 1)
      BY <2>1, <2>2 DEF Gap
    <3>2. distance(v, w) = first(w) - last(v) - 1
      BY <1>2, <2>2 DEF distance
    <3>3. Cardinality((last(v) + 1) .. (first(w) - 1)) = first(w) - last(v) - 1
      <4>1. last(v) + 1 \in Int /\ first(w) - 1 \in Int
        BY <1>0
      <4>2. Cardinality((last(v) + 1) .. (first(w) - 1)) =
              IF last(v) + 1 > first(w) - 1 THEN 0 ELSE first(w) - 1 - (last(v) + 1) + 1
        BY <4>1, FS_Interval
      <4> QED BY <1>0, <2>2, <4>2
    <3> QED BY <3>1, <3>2, <3>3
  <2>3. CASE last(w) < first(v) /\ ~ last(v) < first(w)
    <3>1. Gap(Elements(v), Elements(w)) = (last(w) + 1) .. (first(v) - 1)
      BY <2>1, <2>3 DEF Gap
    <3>2. distance(v, w) = first(v) - last(w) - 1
      BY <1>2, <2>3 DEF distance
    <3>3. Cardinality((last(w) + 1) .. (first(v) - 1)) = first(v) - last(w) - 1
      <4>1. last(w) + 1 \in Int /\ first(v) - 1 \in Int
        BY <1>0
      <4>2. Cardinality((last(w) + 1) .. (first(v) - 1)) =
              IF last(w) + 1 > first(v) - 1 THEN 0 ELSE first(v) - 1 - (last(w) + 1) + 1
        BY <4>1, FS_Interval
      <4> QED BY <1>0, <2>3, <4>2
    <3> QED BY <3>1, <3>2, <3>3
  <2>4. CASE ~ last(v) < first(w) /\ ~ last(w) < first(v)
    BY <1>e, <1>2, <2>1, <2>4 DEF distance, Gap
  <2> QED BY <2>2, <2>3, <2>4
<1> QED BY <1>1, <1>2

\* touches: the next element follows without a gap.
LEMMA TouchesExact ==
  ASSUME NEW v \in Interval, NEW w \in Interval,
         Elements(v) # {}, Elements(w) # {}
  PROVE  touches(v, w) <=> Max(Elements(v)) + 1 = Min(Elements(w))
BY EmptyExact, GapOfTwoIs DEF touches

\* operator < compares first elements and then last elements.
LEMMA OrderExact ==
  ASSUME NEW v \in Interval, NEW w \in Interval, ~ is_empty(v), ~ is_empty(w)
  PROVE  \/ Less(v, w) /\ ~ Less(w, v) /\ ~ Equal(v, w)
         \/ ~ Less(v, w) /\ Less(w, v) /\ ~ Equal(v, w)
         \/ ~ Less(v, w) /\ ~ Less(w, v) /\ Equal(v, w)
<1>1. /\ first(v) \in Int /\ last(v) \in Int
      /\ first(w) \in Int /\ last(w) \in Int
  BY Ends
<1>2. /\ Less(v, w) <=> first(v) < first(w) \/ (first(v) = first(w) /\ last(v) < last(w))
      /\ Less(w, v) <=> first(w) < first(v) \/ (first(w) = first(v) /\ last(w) < last(v))
      /\ Equal(v, w) <=> first(v) = first(w) /\ last(v) = last(w)
  BY DEF Less, Equal, lower_less, lower_equal, upper_less, upper_equal
<1> QED BY <1>1, <1>2

-----------------------------------------------------------------------------
(***************************************************************************)
(* The specification.  TypeOK is inductive; the other invariants hold in   *)
(* every state of it.                                                      *)
(***************************************************************************)

\* Callers pass integers.
LEMMA PointsAreInts == \A v \in Points : v \in Int
BY PointsAssumption DEF Points

\* The registers begin with empty intervals of the type.
LEMMA InitTyped == Init => TypeOK
BY IdentityOfType DEF Init, TypeOK

\* Every constructor and operation returns an interval of the type.
LEMMA NextTyped == TypeOK /\ [Next]_vars => TypeOK'
<1> SUFFICES ASSUME TypeOK, [Next]_vars PROVE TypeOK'
  OBVIOUS
<1>0. type \in Types /\ x \in IntervalOf(type) /\ y \in IntervalOf(type)
  BY DEF TypeOK
<1>p. ASSUME NEW i \in IntervalOf(type), Put(i) PROVE TypeOK'
  BY <1>0, <1>p DEF Put, TypeOK
<1>r. ASSUME NEW i \in IntervalOf(type), Replace(i) PROVE TypeOK'
  BY <1>0, <1>r DEF Replace, TypeOK
<1>1. CASE Declare
  BY <1>0, <1>1, <1>p, PointsAreInts, DeclaredExact DEF Declare
<1>2. CASE Span
  BY <1>0, <1>2, <1>p, PointsAreInts, SpanOfType DEF Span
<1>3. CASE Singleton
  BY <1>0, <1>3, <1>p, PointsAreInts, SingletonExact DEF Singleton
<1>4. CASE PointHull
  BY <1>0, <1>4, <1>p, PointsAreInts, PointHullExact DEF PointHull
<1>5. CASE Hull
  <2>1. hull(type, x, y) \in IntervalOf(type)
    BY <1>0, HullExact
  <2> QED BY <1>5, <1>r, <2>1 DEF Hull
<1>6. CASE LeftSubtract
  BY <1>0, <1>6, <1>r, LeftSubtractExact DEF LeftSubtract
<1>7. CASE RightSubtract
  BY <1>0, <1>7, <1>r, RightSubtractExact DEF RightSubtract
<1>8. CASE Intersect
  BY <1>0, <1>8, <1>r, IntersectionExact DEF Intersect
<1>9. CASE Between
  BY <1>0, <1>9, <1>r, BetweenExact DEF Between
<1>10. CASE UNCHANGED vars
  BY <1>0, <1>10 DEF vars, TypeOK
<1> QED BY <1>1, <1>2, <1>3, <1>4, <1>5, <1>6, <1>7, <1>8, <1>9, <1>10 DEF Next

\* A statically bounded interval keeps the bounds of its type through every
\* constructor and operation, so the overloads chosen by its type are the right
\* ones for its bounds.
THEOREM IntervalsTyped == Spec => []TypeOK
BY InitTyped, NextTyped, PTL DEF Spec

\* The registers of a caller, as the lemmas above want them.
LEMMA Typed ==
  ASSUME TypeOK
  PROVE  /\ type \in Types
         /\ x \in IntervalOf(type) /\ x \in Interval
         /\ y \in IntervalOf(type) /\ y \in Interval
BY OfType DEF TypeOK

\* Whatever the bounds of the two intervals, and empty or not: hull,
\* left_subtract, right_subtract, & and inner_complement return the elements
\* they promise, for every one of the five interval types.
THEOREM AlgebraExact == Spec => []OperationsExact
<1>1. TypeOK => OperationsExact
  <2> SUFFICES ASSUME TypeOK PROVE OperationsExact
    OBVIOUS
  <2>1. type \in Types /\ x \in IntervalOf(type) /\ y \in IntervalOf(type)
    BY Typed
  <2>2. LET X == Elements(x)
            Y == Elements(y)
        IN Elements(hull(type, x, y)) =
             IF X \cup Y = {} THEN {} ELSE Min(X \cup Y) .. Max(X \cup Y)
    BY <2>1, HullExact
  <2> QED BY <2>1, <2>2, LeftSubtractExact, RightSubtractExact, IntersectionExact,
             BetweenExact DEF OperationsExact
<1> QED BY <1>1, IntervalsTyped, PTL

\* Singletons, hulls of points and declarations with foreign bounds have the
\* elements that were asked for, whatever the limits.
THEOREM ConstructionExact == Spec => []ConstructorsExact
<1>1. TypeOK => ConstructorsExact
  <2> SUFFICES ASSUME TypeOK, NEW v \in Points, NEW w \in Points
               PROVE  /\ Elements(singleton(type, v)) = {v}
                      /\ Elements(HullOfPoints(type, v, w)) = MinOf(v, w) .. MaxOf(v, w)
                      /\ \A b \in Bounds :
                           Elements(DeclaredAs(type, v, w, b)) =
                           Elements([lo |-> v, up |-> w, b |-> b])
    BY DEF ConstructorsExact
  <2>1. type \in Types /\ v \in Int /\ w \in Int
    BY Typed, PointsAreInts
  <2> QED BY <2>1, SingletonExact, PointHullExact, DeclaredExact
<1> QED BY <1>1, IntervalsTyped, PTL

\* The relations say of two intervals what holds of their elements; with
\* exclusive_less, the order of the interval containers, as the most important
\* one: unordered by it are exactly the intervals that share an element.
THEOREM RelationsAreExact == Spec => []RelationsExact
<1>1. TypeOK => RelationsExact
  <2> SUFFICES ASSUME TypeOK PROVE RelationsExact
    OBVIOUS
  <2>1. x \in Interval /\ y \in Interval
    BY Typed
  <2>2. \A e \in (Lo - 1) .. (Hi + 1) : ContainsElement(x, e) <=> e \in Elements(x)
    BY <2>1, PointsAssumption, ContainsElementExact
  <2>3. Elements(x) # {} /\ Elements(y) # {} =>
          (touches(x, y) <=> Max(Elements(x)) + 1 = Min(Elements(y)))
    BY <2>1, TouchesExact
  <2> QED BY <2>1, <2>2, <2>3, EmptyExact, ContainsExact, ExclusiveExact, EqualExact
             DEF RelationsExact
<1> QED BY <1>1, IntervalsTyped, PTL

\* Of two non-empty intervals exactly one of <, > and == holds; an empty one is
\* less than every non-empty one and no other.
THEOREM LessIsTotal == Spec => []OrderIsTotal
<1>1. TypeOK => OrderIsTotal
  <2> SUFFICES ASSUME TypeOK PROVE OrderIsTotal
    OBVIOUS
  <2>1. is_empty(x) => (Less(x, y) <=> ~ is_empty(y))
    BY DEF Less
  <2>2. ~ is_empty(x) /\ ~ is_empty(y) =>
          \/ Less(x, y) /\ ~ Less(y, x) /\ ~ Equal(x, y)
          \/ ~ Less(x, y) /\ Less(y, x) /\ ~ Equal(x, y)
          \/ ~ Less(x, y) /\ ~ Less(y, x) /\ Equal(x, y)
    BY Typed, OrderExact
  <2> QED BY <2>1, <2>2 DEF OrderIsTotal
<1> QED BY <1>1, IntervalsTyped, PTL

\* cardinality and length count the elements of an interval, distance those
\* between two.
THEOREM SizesAreExact == Spec => []SizesExact
<1>1. TypeOK => SizesExact
  BY Typed, SizeExact, DistanceExact DEF SizesExact
<1> QED BY <1>1, IntervalsTyped, PTL
=============================================================================
