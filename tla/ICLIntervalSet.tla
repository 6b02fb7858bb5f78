--------------------------- MODULE ICLIntervalSet ---------------------------
(***************************************************************************)
(* boost::icl::interval_set, separate_interval_set and split_interval_set: *)
(* sets of ticks kept as ordered, disjoint, non-empty intervals of the     *)
(* type discrete_interval.  The interval maps use them for domains and as  *)
(* erasers.                                                                *)
(*                                                                         *)
(* The container is the std::set S of its intervals, ordered by            *)
(* exclusive_less, under which two intervals are equivalent exactly if     *)
(* they share a tick: lower_bound and upper_bound of an interval delimit   *)
(* the intervals it overlaps.  An iterator is the interval it points to;   *)
(* the hints to insertion change the cost of an operation and nothing      *)
(* else, and are left out.  style tells the three types apart.             *)
(*                                                                         *)
(* Operators only; ICLContainers has the state.  A definition marked       *)
(* Variant is the one that follows it with a plausible mistake; no         *)
(* specification uses it.                                                  *)
(***************************************************************************)
EXTENDS ICLInterval, FiniteSets, Sequences, FiniteSetsExt, SequencesExt

Styles == {"joining", "separating", "splitting"}

left_over_of(x, minuend) == right_subtract(Dynamic, x, minuend)
right_over_of(x, minuend) == left_subtract(Dynamic, x, minuend)
common(x, y) == Intersection(Dynamic, x, y)
hull_of(x, y) == hull(Dynamic, x, y)

NonEmpty(x) == IF is_empty(x) THEN {} ELSE {x}

-----------------------------------------------------------------------------
(***************************************************************************)
(* Look-up and iteration.                                                  *)
(***************************************************************************)

equal_range(S, i) == {s \in S : ~ exclusive_less(s, i) /\ ~ exclusive_less(i, s)}

begin(S) == CHOOSE s \in S : \A r \in S \ {s} : exclusive_less(s, r)
rbegin(S) == CHOOSE s \in S : \A r \in S \ {s} : exclusive_less(r, s)

\* The intervals of S in the order of iteration.
InOrder(S) ==
  [k \in 1 .. Cardinality(S) |->
     CHOOSE s \in S : Cardinality({r \in S \ {s} : exclusive_less(r, s)}) = k - 1]

\* for(it_ = begin; it_ != end; ++it_) of a loop that changes x.
ForAll(Step(_, _), x, S) == FoldLeft(Step, x, InOrder(S))

\* Variant: what overlaps the last of x2 is left out.
CommonRangeOpen(S, T) ==
  IF S = {} \/ T = {} THEN {}
  ELSE {s \in S : /\ ~ exclusive_less(s, begin(T))
                  /\ exclusive_less(s, rbegin(T))}

\* Set::common_range(x1, x2): the part of x1 within reach of x2.
common_range(S, T) ==
  IF S = {} \/ T = {} THEN {}
  ELSE {s \in S : /\ ~ exclusive_less(s, begin(T))
                  /\ ~ exclusive_less(rbegin(T), s)}

\* find(element): the interval that has the element, if there is one.
find(S, e) == equal_range(S, singleton(Dynamic, e))

\* Variant: it is enough that some consecutive intervals touch.
SomeJoinable(S) == S = {begin(S)} \/ \E r, s \in S : touches(s, r)

\* is_joinable and is_dense: no gap between consecutive intervals.
is_joinable(S) == \A s \in S : s = rbegin(S) \/ \E r \in S : touches(s, r)

ContainsInterval(S, i) ==
  \/ is_empty(i)
  \/ LET E == equal_range(S, i)
     IN /\ E # {}
        /\ contains(hull_of(begin(E), rbegin(E)), i)
        /\ is_joinable(E)

\* intersects(container, interval)
Intersects(S, i) == equal_range(S, i) # {}

-----------------------------------------------------------------------------
(***************************************************************************)
(* Joining (segmental::).                                                  *)
(***************************************************************************)

\* join_neighbours(it_): with the interval to its left, then to its right.
join_neighbours(S, i) ==
  LET P == {p \in S : touches(p, i)}
      joined == IF P = {} THEN i ELSE hull_of(CHOOSE p \in P : TRUE, i)
      N == {n \in S : touches(i, n)}
  IN IF P = {} /\ N = {} THEN S
     ELSE (S \ (P \cup N \cup {i})) \cup
          {IF N = {} THEN joined ELSE hull_of(joined, CHOOSE n \in N : TRUE)}

\* join_under: what the addend overlaps becomes one interval with it.
JoinedUnder(E, i) ==
  hull_of(hull_of(left_over_of(begin(E), i), i), right_over_of(rbegin(E), i))

join_under(S, i) ==
  (S \ equal_range(S, i)) \cup {JoinedUnder(equal_range(S, i), i)}

-----------------------------------------------------------------------------
(***************************************************************************)
(* Addition.  The loops of the splitting style shrink the rest of the      *)
(* addend while they pass the intervals it overlaps.                       *)
(***************************************************************************)

\* add_front: what lies left of the addend becomes an interval of its own.
add_front(S, i) ==
  LET f == begin(equal_range(S, i))
      resid == left_over_of(f, i)
  IN IF is_empty(resid) THEN S
     ELSE (S \ {f}) \cup {right_over_of(f, resid), resid}

\* add_segment: the gap before the current interval, and the rest after it.
add_segment(x, cur) ==
  [S |-> x.S \cup NonEmpty(left_over_of(x.rest, cur)),
   rest |-> right_over_of(x.rest, cur)]

add_rear(x, cur) ==
  LET gap == NonEmpty(left_over_of(x.rest, cur))
      end_gap == NonEmpty(right_over_of(x.rest, cur))
      right_resid == right_over_of(cur, x.rest)
  IN IF end_gap # {} \/ is_empty(right_resid) THEN x.S \cup gap \cup end_gap
     ELSE (x.S \ {cur}) \cup gap \cup
          {left_over_of(cur, right_resid), right_resid}

split_over(S, i) ==
  LET front == add_front(S, i)
      E == equal_range(front, i)
  IN add_rear(ForAll(add_segment, [S |-> front, rest |-> i], E \ {rbegin(E)}),
              rbegin(E))

\* Variant: an interval that extends one that is there is not joined to the
\* neighbours it reaches.
AddNotRejoined(style, S, i) ==
  IF is_empty(i) THEN S
  ELSE IF equal_range(S, i) = {}
  THEN IF style = "joining" THEN join_neighbours(S \cup {i}, i) ELSE S \cup {i}
  ELSE IF style = "splitting" THEN split_over(S, i)
  ELSE join_under(S, i)

\* The addend overlaps intervals of the container: add_over of the three types.
joining_add_over(S, i) ==
  join_neighbours(join_under(S, i), JoinedUnder(equal_range(S, i), i))

separating_add_over(S, i) == join_under(S, i)

splitting_add_over(S, i) == split_over(S, i)

\* add(interval), and insert, which is the same.
AddInterval(style, S, i) ==
  IF is_empty(i) THEN S
  ELSE IF equal_range(S, i) = {}
  THEN IF style = "joining" THEN join_neighbours(S \cup {i}, i) ELSE S \cup {i}
  ELSE CASE style = "joining"    -> joining_add_over(S, i)
         [] style = "separating" -> separating_add_over(S, i)
         [] style = "splitting"  -> splitting_add_over(S, i)

-----------------------------------------------------------------------------
(***************************************************************************)
(* Subtraction, intersection, symmetric difference.                        *)
(***************************************************************************)

\* subtract(interval), and erase, which is the same.
SubtractInterval(S, i) ==
  LET E == equal_range(S, i)
  IN IF is_empty(i) \/ E = {} THEN S
     ELSE (S \ E) \cup NonEmpty(left_over_of(begin(E), i))
                  \cup NonEmpty(right_over_of(rbegin(E), i))

\* add_intersection(section, object, interval).
SectionWithInterval(style, section, S, i) ==
  IF is_empty(i) THEN section
  ELSE ForAll(LAMBDA x, s : AddInterval(style, x, common(s, i)), section,
              equal_range(S, i))

\* Variant: what lies right of the last interval covered is forgotten.
FlipCovered(style, S, i) ==
  LET Step(x, covered) ==
        [S |-> AddInterval(style,
                 SubtractInterval(x.S, common(x.span, covered)),
                 left_over_of(x.span, covered)),
         span |-> right_over_of(x.span, covered)]
      done == ForAll(Step, [S |-> S, span |-> i], equal_range(S, i))
  IN IF done.span = i THEN AddInterval(style, S, i) ELSE done.S

\* flip(interval): the loop changes the container while it passes the
\* intervals found before it began.
FlipInterval(style, S, i) ==
  LET Step(x, covered) ==
        [S |-> AddInterval(style,
                 SubtractInterval(x.S, common(x.span, covered)),
                 left_over_of(x.span, covered)),
         span |-> right_over_of(x.span, covered)]
      done == ForAll(Step, [S |-> S, span |-> i], equal_range(S, i))
  IN AddInterval(style, done.S, done.span)

-----------------------------------------------------------------------------
(***************************************************************************)
(* Operations with a second container, segment by segment.                 *)
(***************************************************************************)

\* operator +=
AddSet(style, S, T) == ForAll(LAMBDA x, t : AddInterval(style, x, t), S, T)

\* operator -= and erase
EraseSet(S, T) == ForAll(SubtractInterval, S, common_range(T, S))

\* operator &=
SectionWithSet(style, S, T) ==
  ForAll(LAMBDA x, t : SectionWithInterval(style, x, S, t), {}, common_range(T, S))

\* intersects(set, set) asks interval by interval until one has a common tick.
IntersectsSet(style, S, T) ==
  \E t \in common_range(T, S) : SectionWithInterval(style, {}, S, t) # {}

\* operator ^=: only what is within reach of the object is flipped.
FlipSet(style, S, T) ==
  LET C == common_range(T, S)
  IN ForAll(LAMBDA x, t : IF t \in C THEN FlipInterval(style, x, t)
                                     ELSE AddInterval(style, x, t), S, T)

\* between(result, object): the gaps of the object.
BetweenSet(style, S) ==
  LET q == InOrder(S)
  IN FoldLeft(LAMBDA x, k : AddInterval(style, x, inner_complement(Dynamic, q[k], q[k + 1])),
              {}, [k \in 1 .. (Len(q) - 1) |-> k])

-----------------------------------------------------------------------------
(***************************************************************************)
(* join(object): each run of joinable neighbours becomes one segment.  it  *)
(* is the segment the loop stands at, fst_mem the first of its run.  As    *)
(* the code does, the last of a run grows over the others, and then those  *)
(* before it are erased.                                                   *)
(***************************************************************************)

JoinRuns(q, Joinable(_, _), Grown(_, _)) ==
  LET Step(x, k) ==
        IF k < Len(q) /\ Joinable(q[k], q[k + 1]) THEN x
        ELSE [kept |-> x.kept \cup {IF x.fst_mem = q[k] THEN q[k] ELSE Grown(q[k], x.fst_mem)},
              fst_mem |-> IF k < Len(q) THEN q[k + 1] ELSE x.fst_mem]
  IN IF q = <<>> THEN {}
     ELSE FoldLeft(Step, [kept |-> {}, fst_mem |-> q[1]], [k \in DOMAIN q |-> k]).kept

\* Variant: neighbours with a gap between them are joined too.
JoinOverGaps(S) == JoinRuns(InOrder(S), exclusive_less, hull_of)

JoinSet(S) == JoinRuns(InOrder(S), touches, hull_of)

-----------------------------------------------------------------------------
(***************************************************************************)
(* Size and limits of a container.                                         *)
(***************************************************************************)

LowerOf(S) == IF S = {} THEN 1 ELSE begin(S).lo
UpperOf(S) == IF S = {} THEN 0 ELSE rbegin(S).up
FirstOf(S) == IF S = {} THEN 1 ELSE first(begin(S))
LastOf(S) == IF S = {} THEN 0 ELSE last(rbegin(S))
CardinalityOf(S) == MapThenSumSet(cardinality, S)
LengthOf(S) == MapThenSumSet(length, S)
HullOf(S) == IF S = {} THEN identity_element(Dynamic) ELSE hull_of(begin(S), rbegin(S))

\* distance(object): the sum of the gaps between neighbours.
DistanceOf(S) ==
  LET q == InOrder(S)
  IN FoldLeft(LAMBDA x, k : x + distance(q[k], q[k + 1]), 0,
              [k \in 1 .. (Len(q) - 1) |-> k])
=============================================================================
