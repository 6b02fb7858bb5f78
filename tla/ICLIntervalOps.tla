--------------------------- MODULE ICLIntervalOps ---------------------------
(***************************************************************************)
(* A caller of the interval algebra: two registers, filled by the          *)
(* constructors and combined by the operations.  Every interval that the   *)
(* library can produce from limits in Lo .. Hi gets into them, those whose *)
(* limits are in the wrong order included, and the invariants compare what *)
(* each operation and relation returns with the set of elements it is      *)
(* about.                                                                  *)
(***************************************************************************)
EXTENDS ICLInterval, FiniteSetsExt

CONSTANTS
  Lo,   \* bounds of the limits a caller passes
  Hi

ASSUME PointsAssumption == Lo \in Int /\ Hi \in Int

Points == Lo .. Hi

VARIABLES
  type,   \* the interval type of this caller
  x, y    \* the registers

vars == <<type, x, y>>

\* One type invariant: a statically bounded interval keeps its bounds through
\* every operation, whatever it is combined with, and a dynamic one has one of
\* the four pairs of bound bits, of whichever bounds its own were made.
TypeOK ==
  /\ type \in Types
  /\ x \in IntervalOf(type)
  /\ y \in IntervalOf(type)

Init ==
  /\ type \in Types
  /\ x = identity_element(type)
  /\ y = identity_element(type)

Put(i) == x' = i /\ y' = x /\ UNCHANGED type
Replace(i) == x' = i /\ UNCHANGED <<type, y>>

Declare ==
  \E low, up \in Points, b \in Bounds : Put(DeclaredAs(type, low, up, b))

Span == \E v, w \in Points : Put(span(type, v, w))
Singleton == \E v \in Points : Put(singleton(type, v))
PointHull == \E v, w \in Points : Put(HullOfPoints(type, v, w))
Hull == Replace(hull(type, x, y))
LeftSubtract == Replace(left_subtract(type, x, y))
RightSubtract == Replace(right_subtract(type, x, y))
Intersect == Replace(Intersection(type, x, y))
Between == Replace(inner_complement(type, x, y))

Next ==
  \/ Declare \/ Span \/ Singleton \/ PointHull
  \/ Hull \/ LeftSubtract \/ RightSubtract \/ Intersect \/ Between

Spec == Init /\ [][Next]_vars

-----------------------------------------------------------------------------
Before(S, T) == \A e \in S, f \in T : e < f

\* The elements between two sets of which one lies before the other.
Gap(S, T) ==
  IF S = {} \/ T = {} THEN {}
  ELSE IF Before(S, T) THEN (Max(S) + 1) .. (Min(T) - 1)
  ELSE IF Before(T, S) THEN (Max(T) + 1) .. (Min(S) - 1)
  ELSE {}

\* For any two intervals, empty or not and of any bounds, each operation of the
\* algebra (hull, left_subtract, right_subtract, &, inner_complement) returns
\* an interval with exactly the elements it promises.
OperationsExact ==
  LET X == Elements(x)
      Y == Elements(y)
  IN /\ Elements(left_subtract(type, x, y)) = {e \in X : Before(Y, {e})}
     /\ Elements(right_subtract(type, x, y)) = {e \in X : Before({e}, Y)}
     /\ Elements(Intersection(type, x, y)) = X \cap Y
     /\ Elements(hull(type, x, y)) =
          IF X \cup Y = {} THEN {} ELSE Min(X \cup Y) .. Max(X \cup Y)
     /\ Elements(inner_complement(type, x, y)) = Gap(X, Y)

\* The constructors from points contain the points and no more, and what is
\* declared with bounds that its type does not have keeps its elements.
ConstructorsExact ==
  \A v, w \in Points :
    /\ Elements(singleton(type, v)) = {v}
    /\ Elements(HullOfPoints(type, v, w)) = MinOf(v, w) .. MaxOf(v, w)
    /\ \A b \in Bounds :
         Elements(DeclaredAs(type, v, w, b)) =
         Elements([lo |-> v, up |-> w, b |-> b])

\* is_empty, contains, exclusive_less, intersects, disjoint, == and touches say
\* of two intervals what holds of their elements; so the order by
\* exclusive_less, with which the containers look up what a segment overlaps,
\* identifies exactly the intervals that share an element.
RelationsExact ==
  LET X == Elements(x)
      Y == Elements(y)
  IN /\ is_empty(x) <=> X = {}
     /\ \A e \in (Lo - 1) .. (Hi + 1) : ContainsElement(x, e) <=> e \in X
     /\ contains(x, y) <=> Y \subseteq X
     /\ exclusive_less(x, y) <=> Before(X, Y)
     /\ intersects(x, y) <=> X \cap Y # {}
     /\ disjoint(x, y) <=> X \cap Y = {}
     /\ Equal(x, y) <=> X = Y
     /\ X # {} /\ Y # {} => (touches(x, y) <=> Max(X) + 1 = Min(Y))

\* operator < is a total order of intervals by their elements, with empty ones
\* first.  (It is no order between a non-empty interval and an empty one to its
\* right, where each is less than the other: they are left out.)
OrderIsTotal ==
  /\ is_empty(x) => (Less(x, y) <=> ~ is_empty(y))
  /\ ~ is_empty(x) /\ ~ is_empty(y) =>
       \/ Less(x, y) /\ ~ Less(y, x) /\ ~ Equal(x, y)
       \/ ~ Less(x, y) /\ Less(y, x) /\ ~ Equal(x, y)
       \/ ~ Less(x, y) /\ ~ Less(y, x) /\ Equal(x, y)

\* cardinality, length and distance count elements.
SizesExact ==
  LET X == Elements(x)
      Y == Elements(y)
  IN /\ cardinality(x) = Cardinality(X)
     /\ length(x) = Cardinality(X)
     /\ distance(x, y) = Cardinality(Gap(X, Y))
=============================================================================
