-------------------------- MODULE ICLSubsetCompare --------------------------
(***************************************************************************)
(* Interval_Set::subset_compare, by which interval containers decide       *)
(* is_element_equal, within and contains: one pass over the segments of    *)
(* both, in which each step looks at the current ones, restricts what the  *)
(* result can still be, and moves the iterator whose segment ends first.   *)
(*                                                                         *)
(* state is where the loop goes next: to next_both when both segments are  *)
(* fresh, to next_left or next_right when the other one is used up partly. *)
(* The result is the set of the bits subset and superset that are still    *)
(* set.                                                                    *)
(***************************************************************************)
EXTENDS ICLPasses

subset == {"subset"}
superset == {"superset"}
equal == subset \cup superset
unrelated == {}

\* lower_bound: the first segment of c that does not lie before i.
lower_bound(c, i) ==
  Min({k \in DOMAIN c : ~ exclusive_less(c[k].itv, i)} \cup {Len(c) + 1})

-----------------------------------------------------------------------------
(***************************************************************************)
(* The comparison of the current segments.                                 *)
(***************************************************************************)

\* settic_codomain_compare: inclusion_compare of the values.
co_compare ==
  (IF lhs[l].val \subseteq rhs[r].val THEN subset ELSE {}) \cup
  (IF rhs[r].val \subseteq lhs[l].val THEN superset ELSE {})

\* What the values leave of the result, where the segments overlap.
Codomain == IF values /\ intersects(LeftItv, RightItv) THEN co_compare ELSE equal

\* Variant: when both segments end together, only the left one counts as new.
ProceedNextLeft(res) ==
  /\ result' = res
  /\ \/ /\ ~ upper_less(RightItv, LeftItv)
        /\ prior_left' = l
        /\ l' = l + 1
        /\ r' = IF upper_equal(LeftItv, RightItv) THEN r + 1 ELSE r
        /\ state' = "nextleft"
        /\ UNCHANGED prior_right
     \/ /\ upper_less(RightItv, LeftItv)
        /\ prior_right' = r
        /\ r' = r + 1
        /\ state' = "nextright"
        /\ UNCHANGED <<l, prior_left>>

proceed(res) == result' = res /\ Advance

\* restrict_result; unrelated ends the comparison, else it goes on by Then.
Restricted(res, Then(_)) ==
  \/ res = unrelated /\ Stop(unrelated)
  \/ res # unrelated /\ Then(res)

-----------------------------------------------------------------------------
(***************************************************************************)
(* The steps of the loop.                                                  *)
(***************************************************************************)

\* The left segment lies before the right one: the next left one that does not.
JoinLeft(res) ==
  LET joint == lower_bound(lhs, RightItv)
  IN \/ joint = Len(lhs) + 1 /\ Stop(unrelated)
     \/ /\ joint # Len(lhs) + 1
        /\ l' = joint
        /\ result' = res
        /\ UNCHANGED <<r, prior_left, prior_right, state>>

JoinRight(res) ==
  LET joint == lower_bound(rhs, LeftItv)
  IN \/ joint = Len(rhs) + 1 /\ Stop(unrelated)
     \/ /\ joint # Len(rhs) + 1
        /\ r' = joint
        /\ result' = res
        /\ UNCHANGED <<l, prior_left, prior_right, state>>

\* Who begins first has what the other has not.
LowerBorders ==
  IF lower_less(LeftItv, RightItv) THEN superset
  ELSE IF lower_less(RightItv, LeftItv) THEN subset
  ELSE equal

next_both ==
  /\ state = "nextboth"
  /\ \/ LeftEnd /\ RightEnd /\ Stop(result)
     \/ LeftEnd /\ ~ RightEnd /\ Stop(result \cap subset)
     \/ ~ LeftEnd /\ RightEnd /\ Stop(result \cap superset)
     \/ /\ ~ LeftEnd /\ ~ RightEnd
        /\ \/ /\ exclusive_less(LeftItv, RightItv)
              /\ Restricted(result \cap superset, JoinLeft)
           \/ /\ exclusive_less(RightItv, LeftItv)
              /\ Restricted(result \cap subset, JoinRight)
           \/ /\ intersects(LeftItv, RightItv)
              /\ Restricted(result \cap Codomain \cap LowerBorders, proceed)
  /\ UNCHANGED containers

\* Variant: a gap before the left segment is not looked at.
GapLeftIgnored == equal

\* The left segment is fresh and the right one is used up partly: a gap before
\* the left one that the right one fills is not in the left container.
GapLeft ==
  IF ~ touches(lhs[prior_left].itv, LeftItv) /\ lower_less(RightItv, LeftItv)
  THEN subset ELSE equal

next_left ==
  /\ state = "nextleft"
  /\ \/ LeftEnd /\ Stop(result \cap subset)
     \/ ~ LeftEnd /\ Restricted(result \cap GapLeft \cap Codomain, proceed)
  /\ UNCHANGED containers

GapRight ==
  IF ~ touches(rhs[prior_right].itv, RightItv) /\ lower_less(LeftItv, RightItv)
  THEN superset ELSE equal

next_right ==
  /\ state = "nextright"
  /\ \/ RightEnd /\ Stop(result \cap superset)
     \/ ~ RightEnd /\ Restricted(result \cap GapRight \cap Codomain, proceed)
  /\ UNCHANGED containers

Init == PassInit /\ result = equal

Next == next_both \/ next_left \/ next_right

\* What the three functions that call it return.
is_element_equal == result = equal
within == result \in {subset, equal}
contains_all == result \in {superset, equal}

TypeOK ==
  /\ IteratorsOK
  /\ result \subseteq equal
  /\ result = unrelated => state = "stop"
=============================================================================
