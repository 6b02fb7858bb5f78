------------------------- MODULE ICLElementIterator -------------------------
(***************************************************************************)
(* element_iterator: iteration over the elements of an interval container. *)
(* It jumps from segment to segment with saltator, and creeps through a    *)
(* segment with reptator, which counts from 0.                             *)
(*                                                                         *)
(* q is what the segment iterator passes: the intervals of the container   *)
(* in order, or in reverse order for a reverse_iterator; saltator is a     *)
(* position in q, the one after the last being end.                        *)
(***************************************************************************)
EXTENDS ICLIntervalSet

elements_begin == [saltator |-> 1, reptator |-> 0]
elements_end(q) == [saltator |-> Len(q) + 1, reptator |-> 0]

\* Variant: the iterator creeps one step past the end of a segment.
IncrementLate(q, p) ==
  IF p.reptator < length(q[p.saltator])
  THEN [p EXCEPT !.reptator = @ + 1]
  ELSE [saltator |-> p.saltator + 1, reptator |-> 0]

increment(q, p) ==
  IF p.reptator < length(q[p.saltator]) - 1
  THEN [p EXCEPT !.reptator = @ + 1]
  ELSE [saltator |-> p.saltator + 1, reptator |-> 0]

decrement(q, p) ==
  IF 0 < p.reptator
  THEN [p EXCEPT !.reptator = @ - 1]
  ELSE [saltator |-> p.saltator - 1, reptator |-> length(q[p.saltator - 1]) - 1]

\* transient_element: is_reverse tells the two iterators apart.
dereference(is_reverse, q, p) ==
  IF is_reverse THEN last(q[p.saltator]) - p.reptator
                ELSE first(q[p.saltator]) + p.reptator

\* The positions of n increments from the beginning.
Walk(q, n) ==
  LET p[k \in 0 .. n] == IF k = 0 THEN elements_begin ELSE increment(q, p[k - 1])
  IN p
=============================================================================
