------------------------------ MODULE ICLPasses ------------------------------
(***************************************************************************)
(* What the comparisons of two containers have in common: one pass over    *)
(* both with two iterators, in a loop whose state says which step is next. *)
(* An iterator is a position in a container; the one after the last        *)
(* segment is end.                                                         *)
(***************************************************************************)
EXTENDS ICLInterval, Sequences, FiniteSetsExt

VARIABLES
  lhs, rhs,      \* the containers: their segments in ascending order
  values,        \* _compare_codomain: both are maps
  l, r,          \* the iterators left_ and right_
  prior_left,    \* the segment that proceed passed last; 0 before it did
  prior_right,
  result,
  state          \* of the loop: where it goes next

containers == <<lhs, rhs, values>>
iterators == <<l, r, prior_left, prior_right>>
passVars == <<containers, iterators, result, state>>

LeftItv == lhs[l].itv
RightItv == rhs[r].itv
LeftEnd == l = Len(lhs) + 1
RightEnd == r = Len(rhs) + 1

\* The result and no further step.
Stop(res) ==
  /\ result' = res
  /\ state' = "stop"
  /\ UNCHANGED iterators

\* The iterator whose segment ends first moves on, or both.
Advance ==
  \/ /\ upper_less(LeftItv, RightItv)
     /\ prior_left' = l
     /\ l' = l + 1
     /\ state' = "nextleft"
     /\ UNCHANGED <<r, prior_right>>
  \/ /\ upper_less(RightItv, LeftItv)
     /\ prior_right' = r
     /\ r' = r + 1
     /\ state' = "nextright"
     /\ UNCHANGED <<l, prior_left>>
  \/ /\ upper_equal(LeftItv, RightItv)
     /\ l' = l + 1
     /\ r' = r + 1
     /\ state' = "nextboth"
     /\ UNCHANGED <<prior_left, prior_right>>

PassInit ==
  /\ l = 1
  /\ r = 1
  /\ prior_left = 0
  /\ prior_right = 0
  /\ state = "nextboth"

\* The iterators stay where a step may read them: no step looks at a segment
\* past the end, nor at a prior one before there is one.
IteratorsOK ==
  /\ l \in 1 .. (Len(lhs) + 1)
  /\ r \in 1 .. (Len(rhs) + 1)
  /\ prior_left \in 0 .. (l - 1)
  /\ prior_right \in 0 .. (r - 1)
  /\ state \in {"nextboth", "nextleft", "nextright", "stop"}
  /\ state = "nextleft" => ~ RightEnd /\ prior_left # 0
  /\ state = "nextright" => ~ LeftEnd /\ prior_right # 0
=============================================================================
