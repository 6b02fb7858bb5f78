--------------------------- MODULE ICLIntervalMap ---------------------------
(***************************************************************************)
(* boost::icl::interval_map and split_interval_map, partial, with values   *)
(* that are sets: the container in which tpq_server keeps its queue.       *)
(*                                                                         *)
(* The container is the std::map M of its segments [itv, val], ordered by  *)
(* exclusive_less of their intervals.  An iterator is the segment it       *)
(* points to, and hints are left out, as in ICLIntervalSet.  Two template  *)
(* arguments tell the types apart: joins is true of interval_map, which    *)
(* joins neighbours with the same value, and false of split_interval_map;  *)
(* absorbs is true of the partial_absorber of the queue, which keeps no    *)
(* segment with an empty value, and false of a partial_enricher.  They are *)
(* the fields of the record tr.  Combine is +=, its inverse -=, Section is *)
(* &= of the sets, and its inverse ^=.                                     *)
(*                                                                         *)
(* Operators only; ICLContainers has the state.  A definition marked       *)
(* Variant is the one that follows it with a plausible mistake; no         *)
(* specification uses it.                                                  *)
(***************************************************************************)
EXTENDS ICLIntervalSet

Traits == [joins : BOOLEAN, absorbs : BOOLEAN]

seg(i, v) == [itv |-> i, val |-> v]

inplace_plus(v, w) == v \cup w
inplace_minus(v, w) == v \ w
inplace_et(v, w) == v \cap w
inplace_caret(v, w) == (v \ w) \cup (w \ v)

\* The Combiner argument of _add and its parts.
combine(combiner, v, w) ==
  IF combiner = "plus" THEN inplace_plus(v, w) ELSE inplace_et(v, w)

\* on_absorbtion: the identity of every combiner of sets is the empty set.
is_absorbable(tr, v) == tr.absorbs /\ v = {}

KeysOf(M) == {s.itv : s \in M}

overlap(M, i) == {s \in M : ~ exclusive_less(s.itv, i) /\ ~ exclusive_less(i, s.itv)}
mbegin(M) == CHOOSE s \in M : \A r \in M \ {s} : exclusive_less(s.itv, r.itv)
mlast(M) == CHOOSE s \in M : \A r \in M \ {s} : exclusive_less(r.itv, s.itv)

\* The segments of M in the order of iteration.
SegmentsInOrder(M) ==
  [k \in 1 .. Cardinality(M) |->
     CHOOSE s \in M :
       Cardinality({r \in M \ {s} : exclusive_less(r.itv, s.itv)}) = k - 1]

\* for(it_ = begin; it_ != end; ++it_) of a loop that changes x.
ForSegments(Step(_, _), x, M) == FoldLeft(Step, x, SegmentsInOrder(M))

\* The segment of i and v, if i is not empty.
Piece(i, v) == IF is_empty(i) THEN {} ELSE {seg(i, v)}

-----------------------------------------------------------------------------
(***************************************************************************)
(* Joining, and the handlers by which the two types differ.                *)
(***************************************************************************)

joinable(r, s) == touches(r.itv, s.itv) /\ r.val = s.val

join_left(M, s) ==
  LET P == {p \in M : joinable(p, s)}
  IN IF P = {} THEN M
     ELSE LET p == CHOOSE q \in P : TRUE
          IN (M \ {p, s}) \cup {seg(hull_of(p.itv, s.itv), s.val)}

join_right(M, s) ==
  LET N == {n \in M : joinable(s, n)}
  IN IF N = {} THEN M
     ELSE LET n == CHOOSE q \in N : TRUE
          IN (M \ {n, s}) \cup {seg(hull_of(s.itv, n.itv), s.val)}

join_right_of(L, s) == join_right(L, CHOOSE r \in L : contains(r.itv, s.itv))
join_both(M, s) == join_right_of(join_left(M, s), s)

\* handle_inserted(it_)
handle_inserted(tr, M, s) == IF tr.joins THEN join_both(M, s) ELSE M

\* handle_inserted(prior_, it_): a lead gap joins to the left only.
handle_gap_inserted(tr, M, s) == IF tr.joins THEN join_left(M, s) ELSE M

handle_left_combined(tr, M, s) ==
  IF is_absorbable(tr, s.val) THEN M \ {s}
  ELSE IF tr.joins THEN join_left(M, s) ELSE M

\* handle_combined and handle_preceeded_combined, which differ in the iterator.
handle_combined(tr, M, s) ==
  IF is_absorbable(tr, s.val) THEN M \ {s}
  ELSE IF tr.joins THEN join_both(M, s) ELSE M

handle_succeeded_combined(tr, M, s, next) ==
  IF is_absorbable(tr, s.val)
  THEN IF tr.joins THEN join_right(M \ {s}, next) ELSE M \ {s}
  ELSE IF tr.joins THEN join_both(join_left(M, s), next) ELSE M

handle_reinserted(tr, M, s) == IF tr.joins THEN join_right(M, s) ELSE M

\* gap_insert_at: the last segment s was combined, and end_gap follows it.
gap_insert_at(tr, M, s, end_gap, v) ==
  LET g == seg(end_gap, v)
  IN IF is_absorbable(tr, s.val)
     THEN IF tr.joins THEN join_right((M \ {s}) \cup {g}, g)
                      ELSE (M \ {s}) \cup {g}
     ELSE IF tr.joins THEN join_both(join_left(M, s) \cup {g}, g)
                      ELSE M \cup {g}

-----------------------------------------------------------------------------
(***************************************************************************)
(* Addition: _add<Combiner>.  x is the map and the rest of the addend.     *)
(***************************************************************************)

\* add_front and subtract_front: what lies left of i becomes a segment of its
\* own.
split_front(M, i) ==
  LET f == mbegin(overlap(M, i))
      resid == left_over_of(f.itv, i)
  IN IF is_empty(resid) THEN M
     ELSE (M \ {f}) \cup {seg(right_over_of(f.itv, resid), f.val), seg(resid, f.val)}

\* The gap between the rest of the addend and the current segment.
fill_gap(tr, x, cur, v) ==
  LET gap == left_over_of(x.rest, cur.itv)
  IN IF is_empty(gap) THEN x.M
     ELSE handle_gap_inserted(tr, x.M \cup {seg(gap, v)}, seg(gap, v))

madd_segment(tr, combiner, v, x, cur) ==
  LET new == seg(cur.itv, combine(combiner, cur.val, v))
      filled == fill_gap(tr, x, cur, v)
  IN [M |-> handle_left_combined(tr, (filled \ {cur}) \cup {new}, new),
      rest |-> right_over_of(x.rest, cur.itv)]

\* The end of add_rear, when the gap before the segment is filled.
fill_rear(tr, combiner, v, M, cur, end_gap, right_resid) ==
  LET whole == seg(cur.itv, combine(combiner, cur.val, v))
      part == seg(left_over_of(cur.itv, right_resid), cur.val)
      combined == seg(part.itv, combine(combiner, cur.val, v))
      tail == seg(right_resid, cur.val)
  IN CASE ~ is_empty(end_gap) ->
            gap_insert_at(tr, (M \ {cur}) \cup {whole}, whole, end_gap, v)
       [] is_empty(end_gap) /\ is_empty(right_resid) ->
            handle_combined(tr, (M \ {cur}) \cup {whole}, whole)
       [] OTHER ->
            handle_combined(tr,
              (handle_reinserted(tr, (M \ {cur}) \cup {part, tail}, tail) \ {part})
                \cup {combined},
              combined)

madd_rear(tr, combiner, v, x, cur) ==
  fill_rear(tr, combiner, v, fill_gap(tr, x, cur, v), cur,
            right_over_of(x.rest, cur.itv), right_over_of(cur.itv, x.rest))

\* The loop over the segments F that the addend overlaps, of which the last is
\* add_rear's.
combine_over(tr, combiner, front, s, F) ==
  madd_rear(tr, combiner, s.val,
    ForSegments(LAMBDA x, cur : madd_segment(tr, combiner, s.val, x, cur),
                [M |-> front, rest |-> s.itv], F \ {mlast(F)}),
    mlast(F))

combine_front(tr, combiner, front, s) ==
  combine_over(tr, combiner, front, s, overlap(front, s.itv))

CombineAt(tr, combiner, M, s) ==
  IF is_empty(s.itv) \/ is_absorbable(tr, s.val) THEN M
  ELSE IF overlap(M, s.itv) = {} THEN handle_inserted(tr, M \cup {s}, s)
  ELSE combine_front(tr, combiner, split_front(M, s.itv), s)

AddSegment(tr, M, s) == CombineAt(tr, "plus", M, s)

-----------------------------------------------------------------------------
(***************************************************************************)
(* Subtraction: _subtract<inverse_codomain_combine>.                       *)
(***************************************************************************)

subtract_main(tr, v, M, cur) ==
  LET new == seg(cur.itv, inplace_minus(cur.val, v))
  IN handle_left_combined(tr, (M \ {cur}) \cup {new}, new)

\* Variant: the part of the last segment right of the operand is subtracted too.
SubtractRearWhole(tr, i, v, M, cur) ==
  LET whole == seg(cur.itv, inplace_minus(cur.val, v))
  IN handle_combined(tr, (M \ {cur}) \cup {whole}, whole)

subtract_rear(tr, i, v, M, cur) ==
  LET right_resid == right_over_of(cur.itv, i)
      whole == seg(cur.itv, inplace_minus(cur.val, v))
      combined == seg(left_over_of(cur.itv, right_resid), inplace_minus(cur.val, v))
      tail == seg(right_resid, cur.val)
  IN IF is_empty(right_resid)
     THEN handle_combined(tr, (M \ {cur}) \cup {whole}, whole)
     ELSE handle_succeeded_combined(tr, (M \ {cur}) \cup {combined, tail}, combined, tail)

SubtractSegment(tr, M, s) ==
  LET front == split_front(M, s.itv)
      F == overlap(front, s.itv)
  IN IF is_empty(s.itv) \/ is_absorbable(tr, s.val) \/ overlap(M, s.itv) = {} THEN M
     ELSE subtract_rear(tr, s.itv, s.val,
            ForSegments(LAMBDA x, cur : subtract_main(tr, s.val, x, cur),
                        front, F \ {mlast(F)}),
            mlast(F))

-----------------------------------------------------------------------------
(***************************************************************************)
(* Insertion, which keeps the values that are there, and erasure.          *)
(***************************************************************************)

insert_main(tr, v, x, cur) ==
  LET gap == left_over_of(x.rest, cur.itv)
  IN [M |-> IF is_empty(gap) THEN x.M
            ELSE handle_inserted(tr, x.M \cup {seg(gap, v)}, seg(gap, v)),
      rest |-> right_over_of(x.rest, cur.itv)]

InsertSegment(tr, M, s) ==
  LET E == overlap(M, s.itv)
      done == ForSegments(LAMBDA x, cur : insert_main(tr, s.val, x, cur),
                          [M |-> M, rest |-> s.itv], E)
      end_gap == seg(right_over_of(done.rest, mlast(E).itv), s.val)
  IN IF is_empty(s.itv) \/ is_absorbable(tr, s.val) THEN M
     ELSE IF E = {} THEN handle_inserted(tr, M \cup {s}, s)
     ELSE IF is_empty(end_gap.itv) THEN done.M
     ELSE handle_inserted(tr, done.M \cup {end_gap}, end_gap)

\* erase(interval): the first and the last of the segments it overlaps keep
\* what lies outside.
EraseInterval(M, i) ==
  LET E == overlap(M, i)
      f == mbegin(E)
      l == mlast(E)
  IN IF is_empty(i) \/ E = {} THEN M
     ELSE (M \ E) \cup Piece(left_over_of(f.itv, i), f.val)
                  \cup Piece(right_over_of(l.itv, i), l.val)

\* erase(segment): of the overlapped segments those with the same value.
\* The left residual is computed for the first and the right one for the last.
EraseSegment(tr, M, s) ==
  LET E == overlap(M, s.itv)
      Same == {e \in E : e.val = s.val}
      LeftOf(e) == IF e = mbegin(E) THEN Piece(left_over_of(e.itv, s.itv), e.val) ELSE {}
      RightOf(e) == IF e = mlast(E) THEN Piece(right_over_of(e.itv, s.itv), e.val) ELSE {}
  IN IF is_empty(s.itv) \/ is_absorbable(tr, s.val) THEN M
     ELSE (M \ Same) \cup UNION {LeftOf(e) \cup RightOf(e) : e \in Same}

\* set_at(segment)
SetAt(tr, M, s) == InsertSegment(tr, EraseInterval(M, s.itv), s)

\* erase_if and absorb_identities
AbsorbIdentities(tr, M) == IF tr.absorbs THEN M ELSE {s \in M : s.val # {}}

-----------------------------------------------------------------------------
(***************************************************************************)
(* Intersection and symmetric difference.                                  *)
(***************************************************************************)

\* add_intersection(section, object, segment)
SectionWithSegment(tr, section, M, s) ==
  IF is_empty(s.itv) THEN section
  ELSE ForSegments(
         LAMBDA x, cur :
           LET c == common(cur.itv, s.itv)
           IN IF is_empty(c) THEN x
              ELSE CombineAt(tr, "et",
                     CombineAt(tr, "plus", x, seg(c, cur.val)), seg(c, s.val)),
         section, overlap(M, s.itv))

\* add_intersection(section, object, interval)
SectionWithKeys(tr, section, M, i) ==
  IF is_empty(i) THEN section
  ELSE ForSegments(LAMBDA x, cur : AddSegment(tr, x, seg(common(cur.itv, i), cur.val)),
                   section, overlap(M, i))

\* flip(segment): what is common is collected, and rewritten at the end.
FlipStep(tr, v, x, cur) ==
  LET c == common(x.span, cur.itv)
  IN [M |-> AddSegment(tr, x.M, seg(left_over_of(x.span, cur.itv), v)),
      span |-> right_over_of(x.span, cur.itv),
      eraser |-> AddInterval("joining", x.eraser, c),
      inter |-> AddSegment(tr, x.inter, seg(c, inplace_caret(v, cur.val)))]

FlipRewrite(tr, M, eraser, inter) ==
  ForSegments(LAMBDA x, t : AddSegment(tr, x, t),
              ForAll(EraseInterval, M, common_range(eraser, KeysOf(M))), inter)

FlipRest(tr, v, x) ==
  FlipRewrite(tr, AddSegment(tr, x.M, seg(x.span, v)), x.eraser, x.inter)

FlipSegment(tr, M, s) ==
  FlipRest(tr, s.val,
    ForSegments(LAMBDA x, cur : FlipStep(tr, s.val, x, cur),
                [M |-> M, span |-> s.itv, eraser |-> {}, inter |-> {}],
                overlap(M, s.itv)))

-----------------------------------------------------------------------------
(***************************************************************************)
(* Operations with a second container, segment by segment.                 *)
(***************************************************************************)

\* The segments of T that are within reach of M.
map_common_range(T, M) ==
  {t \in T : t.itv \in common_range(KeysOf(T), KeysOf(M))}

AddMap(tr, M, T) == ForSegments(LAMBDA x, t : AddSegment(tr, x, t), M, T)
SubtractMap(tr, M, T) == ForSegments(LAMBDA x, t : SubtractSegment(tr, x, t), M, T)
InsertMap(tr, M, T) == ForSegments(LAMBDA x, t : InsertSegment(tr, x, t), M, T)

EraseMap(tr, M, T) ==
  ForSegments(LAMBDA x, t : EraseSegment(tr, x, t), M, map_common_range(T, M))

\* operator &= with a map
SectionWithMap(tr, M, T) ==
  ForSegments(LAMBDA x, t : SectionWithSegment(tr, x, M, t), {}, map_common_range(T, M))

\* operator ^=
FlipMap(tr, M, T) ==
  LET C == map_common_range(T, M)
  IN ForSegments(LAMBDA x, t : IF t \in C THEN FlipSegment(tr, x, t)
                                         ELSE AddSegment(tr, x, t), M, T)

\* operator -= and erase with an interval set
EraseKeys(M, K) == ForAll(EraseInterval, M, common_range(K, KeysOf(M)))

\* operator &= with an interval set
SectionWithSet2(tr, M, K) ==
  ForAll(LAMBDA x, k : SectionWithKeys(tr, x, M, k), {}, common_range(K, KeysOf(M)))

\* domain(result, object)
DomainOf(style, M) ==
  ForSegments(LAMBDA x, s : AddInterval(style, x, s.itv), {}, M)

\* join(object)
JoinMap(M) ==
  JoinRuns(SegmentsInOrder(M), joinable,
           LAMBDA last_, fst : seg(hull_of(last_.itv, fst.itv), last_.val))

\* between(result, object): the gaps of the domain.
BetweenMap(style, M) == BetweenSet(style, KeysOf(M))

-----------------------------------------------------------------------------
(***************************************************************************)
(* Containment.                                                            *)
(***************************************************************************)

ContainsKeys(M, i) ==
  \/ is_empty(i)
  \/ LET E == overlap(M, i)
     IN /\ E # {}
        /\ contains(hull_of(mbegin(E).itv, mlast(E).itv), i)
        /\ is_joinable(KeysOf(E))

\* Interval_Map::is_joinable: no gap, and every value is that of the first.
map_is_joinable(E) ==
  is_joinable(KeysOf(E)) /\ \A e \in E : e.val = mbegin(E).val

ContainsSegment(M, s) ==
  \/ is_empty(s.itv)
  \/ LET E == overlap(M, s.itv)
     IN /\ E # {}
        /\ s.val = mbegin(E).val
        /\ contains(hull_of(mbegin(E).itv, mlast(E).itv), s.itv)
        /\ map_is_joinable(E)

\* intersects(map, segment), and intersects(map, map), which asks segment by
\* segment until one has a common element.
IntersectsSegment(tr, M, s) == SectionWithSegment(tr, {}, M, s) # {}
IntersectsMap(tr, M, T) ==
  \E t \in map_common_range(T, M) : IntersectsSegment(tr, M, t)

\* intersects(map, interval set)
IntersectsKeys(tr, M, K) ==
  \E k \in common_range(K, KeysOf(M)) : SectionWithKeys(tr, {}, M, k) # {}
=============================================================================
