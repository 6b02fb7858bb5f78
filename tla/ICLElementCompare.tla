------------------------- MODULE ICLElementCompare -------------------------
(***************************************************************************)
(* Interval_Set::element_compare, by which is_element_less and             *)
(* is_element_greater order two interval containers by the sequences of    *)
(* their elements: one pass over the segments of both, which stops at the  *)
(* first element in which they differ.                                     *)
(***************************************************************************)
EXTENDS ICLPasses

CONSTANT Before(_, _)   \* operator < of the values of a map

less == -1
equal == 0
greater == 1

\* covalues_are_equal: the result stays equal, or a difference of the values.
Covalues ==
  IF ~ values THEN equal
  ELSE IF Before(rhs[r].val, lhs[l].val) THEN greater
  ELSE IF Before(lhs[l].val, rhs[r].val) THEN less
  ELSE equal

proceed == Advance /\ UNCHANGED result

\* The values are compared, and the pass goes on if they are equal.
CompareValues ==
  \/ Covalues # equal /\ Stop(Covalues)
  \/ Covalues = equal /\ proceed

\* Segments that begin together must follow: who begins first has the smaller
\* element next.
next_both ==
  /\ state = "nextboth"
  /\ \/ LeftEnd /\ Stop(IF RightEnd THEN equal ELSE less)
     \/ ~ LeftEnd /\ RightEnd /\ Stop(greater)
     \/ /\ ~ LeftEnd /\ ~ RightEnd
        /\ \/ lower_less(LeftItv, RightItv) /\ Stop(less)
           \/ lower_less(RightItv, LeftItv) /\ Stop(greater)
           \/ lower_equal(LeftItv, RightItv) /\ CompareValues
  /\ UNCHANGED containers

\* The right segment goes on: after a gap the left one has the larger element.
next_left ==
  /\ state = "nextleft"
  /\ \/ LeftEnd /\ Stop(less)
     \/ /\ ~ LeftEnd
        /\ \/ ~ touches(lhs[prior_left].itv, LeftItv) /\ Stop(greater)
           \/ touches(lhs[prior_left].itv, LeftItv) /\ CompareValues
  /\ UNCHANGED containers

next_right ==
  /\ state = "nextright"
  /\ \/ RightEnd /\ Stop(greater)
     \/ /\ ~ RightEnd
        /\ \/ ~ touches(rhs[prior_right].itv, RightItv) /\ Stop(less)
           \/ touches(rhs[prior_right].itv, RightItv) /\ CompareValues
  /\ UNCHANGED containers

Init == PassInit /\ result = equal

Next == next_both \/ next_left \/ next_right

\* What the two functions that call it return.
is_element_less == result = less
is_element_greater == result = greater

TypeOK ==
  /\ IteratorsOK
  /\ result \in {less, equal, greater}
  /\ result # equal => state = "stop"
=============================================================================
