----------------------------- MODULE ICLInterval -----------------------------
(***************************************************************************)
(* Intervals of a discrete domain as boost::icl defines them               *)
(* (concept/interval.hpp): the algebra the interval containers, and so the *)
(* queue of tpq_server, compute with.                                      *)
(*                                                                         *)
(* An interval is the record [lo, up, b] of its two limits and its bounds, *)
(* two bits: 2 for a closed left side, 1 for a closed right side.  The C++ *)
(* templates are overloaded on the type of the interval.  The four         *)
(* statically bounded types construct intervals with one b only; the       *)
(* dynamic one, discrete_interval, which the program uses, with any.  An   *)
(* operator that constructs takes the type t; a relation reads b, since    *)
(* its overloads differ only in what they know of b.  The domain is        *)
(* ordered by std::less and does not overflow.                             *)
(*                                                                         *)
(* A definition marked Variant is the one that follows it with a plausible *)
(* mistake; no specification uses it.                                      *)
(***************************************************************************)
EXTENDS Integers

Open == 0
LeftOpen == 1
RightOpen == 2
Closed == 3
Dynamic == 4

Bounds == Open .. Closed
Types == Bounds \cup {Dynamic}
Interval == [lo : Int, up : Int, b : Bounds]

\* The intervals of type t.
IntervalOf(t) == {x \in Interval : t # Dynamic => x.b = t}

\* What the bracket notation means: the reference for all that follows.
Elements(x) ==
  {e \in x.lo .. x.up : /\ e = x.lo => x.b \in {RightOpen, Closed}
                        /\ e = x.up => x.b \in {LeftOpen, Closed}}

-----------------------------------------------------------------------------
(***************************************************************************)
(* Bounds.                                                                 *)
(***************************************************************************)

is_left_closed(b) == b \in {RightOpen, Closed}
is_right_closed(b) == b \in {LeftOpen, Closed}

left(b) == IF is_left_closed(b) THEN 2 ELSE 0
right(b) == IF is_right_closed(b) THEN 1 ELSE 0

\* Variant: the bit is moved to the other side and not complemented.
ReverseLeftKept(b) == IF is_left_closed(b) THEN 1 ELSE 0

\* The right bound of what ends where an interval with bounds b begins, and
\* the left bound of what begins where it ends.
reverse_left(b) == IF is_left_closed(b) THEN 0 ELSE 1
reverse_right(b) == IF is_right_closed(b) THEN 0 ELSE 2

\* Limits given for bounds decl, as limits of an interval with bounds repr.
shift_lower(decl, repr, low) ==
  IF is_left_closed(decl) /\ ~ is_left_closed(repr) THEN low - 1
  ELSE IF ~ is_left_closed(decl) /\ is_left_closed(repr) THEN low + 1
  ELSE low

\* Variant: a limit is moved inwards and never outwards.
ShiftUpperInwards(decl, repr, up) ==
  IF ~ is_right_closed(decl) /\ is_right_closed(repr) THEN up - 1 ELSE up

shift_upper(decl, repr, up) ==
  IF ~ is_right_closed(decl) /\ is_right_closed(repr) THEN up - 1
  ELSE IF is_right_closed(decl) /\ ~ is_right_closed(repr) THEN up + 1
  ELSE up

-----------------------------------------------------------------------------
(***************************************************************************)
(* Construction.                                                           *)
(***************************************************************************)

\* discrete_interval(low, up, bounds) and the constructor of a static type.
construct(t, low, up, b) ==
  [lo |-> low, up |-> up, b |-> IF t = Dynamic THEN b ELSE t]

\* interval<Domain>::open, left_open, right_open and closed.
DeclaredAs(t, low, up, b) ==
  IF t = Dynamic THEN construct(t, low, up, b)
  ELSE construct(t, shift_lower(b, t, low), shift_upper(b, t, up), t)

\* Variant: the bit of the left bound, in its place already, is shifted there.
ConstructBoundedShifted(low, up) ==
  [lo |-> low[1], up |-> up[1], b |-> 2 * low[2] + up[2]]

\* A bounded value is a pair of a limit and one bound bit.
construct_bounded(low, up) ==
  [lo |-> low[1], up |-> up[1], b |-> low[2] + up[2]]

\* The default constructors: [0,0), or [1,0] when the type is closed.
identity_element(t) ==
  construct(t, IF t = Closed THEN 1 ELSE 0, 0, RightOpen)

\* The interval of one value.
singleton(t, value) ==
  construct(t, IF t \in {LeftOpen, Open} THEN value - 1 ELSE value,
               IF t \in {RightOpen, Open} THEN value + 1 ELSE value, Closed)

\* The smallest interval with two values.
HullOfPoints(t, v, w) ==
  LET low == IF v < w THEN v ELSE w
      up == IF v < w THEN w ELSE v
  IN construct(t, IF t \in {LeftOpen, Open} THEN low - 1 ELSE low,
                  IF t \in {RightOpen, Open} THEN up + 1 ELSE up, Closed)

\* construct of two limits in either order.
span(t, v, w) ==
  IF v < w THEN construct(t, v, w, RightOpen) ELSE construct(t, w, v, RightOpen)

-----------------------------------------------------------------------------
(***************************************************************************)
(* Selection.                                                              *)
(***************************************************************************)

first(x) == IF is_left_closed(x.b) THEN x.lo ELSE x.lo + 1
last(x) == IF is_right_closed(x.b) THEN x.up ELSE x.up - 1

\* Variant: one past the limit, whatever the bounds.
LastNextOfUpper(x) == x.up + 1

last_next(x) == IF is_right_closed(x.b) THEN x.up + 1 ELSE x.up

bounded_lower(x) == <<x.lo, left(x.b)>>
bounded_upper(x) == <<x.up, right(x.b)>>
reverse_bounded_lower(x) == <<x.lo, reverse_left(x.b)>>
reverse_bounded_upper(x) == <<x.up, reverse_right(x.b)>>

is_empty(x) ==
  CASE x.b = Closed -> x.up < x.lo
    [] x.b = Open   -> x.up <= x.lo + 1
    [] OTHER        -> x.up <= x.lo

-----------------------------------------------------------------------------
(***************************************************************************)
(* Relations.                                                              *)
(***************************************************************************)

\* Variant: intervals that share one element count as ordered.
ExclusiveLessEqual(x, y) == is_empty(x) \/ is_empty(y) \/ last(x) <= first(y)

\* Every element of x is less than every element of y.
exclusive_less(x, y) == is_empty(x) \/ is_empty(y) \/ last(x) < first(y)

lower_less(x, y) == first(x) < first(y)
upper_less(x, y) == last(x) < last(y)
lower_equal(x, y) == first(x) = first(y)
upper_equal(x, y) == last(x) = last(y)
lower_less_equal(x, y) == lower_less(x, y) \/ lower_equal(x, y)
upper_less_equal(x, y) == upper_less(x, y) \/ upper_equal(x, y)

lower_min(x, y) == IF lower_less(x, y) THEN bounded_lower(x) ELSE bounded_lower(y)
lower_max(x, y) == IF lower_less(x, y) THEN bounded_lower(y) ELSE bounded_lower(x)
upper_max(x, y) == IF upper_less(x, y) THEN bounded_upper(y) ELSE bounded_upper(x)
upper_min(x, y) == IF upper_less(x, y) THEN bounded_upper(x) ELSE bounded_upper(y)

contains(super, sub) ==
  \/ is_empty(sub)
  \/ lower_less_equal(super, sub) /\ upper_less_equal(sub, super)

\* contains(interval, element); for the static types the comparison of first
\* and last, which is the same one.
ContainsElement(super, e) ==
  /\ IF is_left_closed(super.b) THEN super.lo <= e ELSE super.lo < e
  /\ IF is_right_closed(super.b) THEN e <= super.up ELSE e < super.up

\* operator ==
Equal(x, y) ==
  \/ is_empty(x) /\ is_empty(y)
  \/ lower_equal(x, y) /\ upper_equal(x, y)

\* Variant: intervals with the same first element are not told apart.
LessByLower(x, y) == IF is_empty(x) THEN ~ is_empty(y) ELSE lower_less(x, y)

\* operator <
Less(x, y) ==
  IF is_empty(x) THEN ~ is_empty(y)
  ELSE lower_less(x, y) \/ (lower_equal(x, y) /\ upper_less(x, y))

\* y begins where x ends.
touches(x, y) == last(x) + 1 = first(y)

intersects(x, y) ==
  ~ (is_empty(x) \/ is_empty(y) \/ exclusive_less(x, y) \/ exclusive_less(y, x))

disjoint(x, y) ==
  is_empty(x) \/ is_empty(y) \/ exclusive_less(x, y) \/ exclusive_less(y, x)

-----------------------------------------------------------------------------
(***************************************************************************)
(* Size and distance.                                                      *)
(***************************************************************************)

cardinality(x) == IF is_empty(x) THEN 0 ELSE last_next(x) - first(x)
length(x) == IF is_empty(x) THEN 0 ELSE last_next(x) - first(x)

distance(x, y) ==
  IF is_empty(x) \/ is_empty(y) THEN 0
  ELSE IF last(x) < first(y) THEN first(y) - last(x) - 1
  ELSE IF last(y) < first(x) THEN first(x) - last(y) - 1
  ELSE 0

-----------------------------------------------------------------------------
(***************************************************************************)
(* Algebra.                                                                *)
(***************************************************************************)

MinOf(v, w) == IF v < w THEN v ELSE w
MaxOf(v, w) == IF v < w THEN w ELSE v

hull(t, x, y) ==
  IF is_empty(y) THEN x
  ELSE IF is_empty(x) THEN y
  ELSE IF t = Dynamic THEN construct_bounded(lower_min(x, y), upper_max(x, y))
  ELSE construct(t, MinOf(x.lo, y.lo), MaxOf(x.up, y.up), t)

\* x without all that is not right of the minuend.
left_subtract(t, x, minuend) ==
  IF exclusive_less(minuend, x) THEN x
  ELSE CASE t = Dynamic ->
              construct_bounded(reverse_bounded_upper(minuend), bounded_upper(x))
         [] t = Closed ->
              IF upper_less_equal(x, minuend) THEN identity_element(t)
              ELSE construct(t, minuend.up + 1, x.up, t)
         [] t = Open -> construct(t, minuend.up - 1, x.up, t)
         [] OTHER    -> construct(t, minuend.up, x.up, t)

\* x without all that is not left of the minuend.
right_subtract(t, x, minuend) ==
  IF exclusive_less(x, minuend) THEN x
  ELSE CASE t = Dynamic ->
              construct_bounded(bounded_lower(x), reverse_bounded_lower(minuend))
         [] t = Closed ->
              IF lower_less_equal(minuend, x) THEN identity_element(t)
              ELSE construct(t, x.lo, minuend.lo - 1, t)
         [] t = Open -> construct(t, x.lo, minuend.lo + 1, t)
         [] OTHER    -> construct(t, x.lo, minuend.lo, t)

\* operator &
Intersection(t, x, y) ==
  IF is_empty(x) \/ is_empty(y) THEN identity_element(t)
  ELSE IF t = Dynamic THEN construct_bounded(lower_max(x, y), upper_min(x, y))
  ELSE construct(t, MaxOf(x.lo, y.lo), MinOf(x.up, y.up), t)

\* What lies between x and y, when x is left of y.
BetweenOrdered(t, x, y) ==
  CASE t = Dynamic ->
         right_subtract(t, left_subtract(t, hull(t, x, y), x), y)
    [] t = Closed -> construct(t, x.up + 1, y.lo - 1, t)
    [] t = Open   -> construct(t, last(x), first(y), t)
    [] OTHER      -> construct(t, x.up, y.lo, t)

inner_complement(t, x, y) ==
  IF is_empty(x) \/ is_empty(y) THEN identity_element(t)
  ELSE IF exclusive_less(x, y) THEN BetweenOrdered(t, x, y)
  ELSE IF exclusive_less(y, x) THEN BetweenOrdered(t, y, x)
  ELSE identity_element(t)
=============================================================================
