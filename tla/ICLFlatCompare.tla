--------------------------- MODULE ICLFlatCompare ---------------------------
(***************************************************************************)
(* Set::subset_compare: the same question as ICLSubsetCompare answers, for *)
(* containers of single elements (std::set and icl::map).  An element is   *)
(* written as a segment of one tick.  The pass has one step, next_both; an *)
(* element that the other container may lack is searched there by          *)
(* lower_bound.                                                            *)
(***************************************************************************)
EXTENDS ICLPasses

subset == {"subset"}
superset == {"superset"}
equal == subset \cup superset
unrelated == {}

LeftKey == first(LeftItv)
RightKey == first(RightItv)

lower_bound(c, k) == Min({n \in DOMAIN c : first(c[n].itv) >= k} \cup {Len(c) + 1})

\* co_compare of the elements at m and n, whose keys are equal.
co_compare(m, n) ==
  IF ~ values THEN equal
  ELSE (IF lhs[m].val \subseteq rhs[n].val THEN subset ELSE {}) \cup
       (IF rhs[n].val \subseteq lhs[m].val THEN superset ELSE {})

\* Equal keys at m and n: the values restrict the result, and both go on.
Match(res, m, n) ==
  LET now == res \cap co_compare(m, n)
  IN /\ result' = now
     /\ IF now = unrelated
        THEN state' = "stop" /\ l' = m /\ r' = n
        ELSE state' = "nextboth" /\ l' = m + 1 /\ r' = n + 1
     /\ UNCHANGED <<prior_left, prior_right>>

\* The left container has elements the right one lacks; it must have the
\* element of the right one.
SearchLeft(res) ==
  LET joint == lower_bound(lhs, RightKey)
      found == joint # Len(lhs) + 1 /\ first(lhs[joint].itv) = RightKey
  IN \/ (res = unrelated \/ ~ found) /\ Stop(unrelated)
     \/ res # unrelated /\ found /\ Match(res, joint, r)

SearchRight(res) ==
  LET joint == lower_bound(rhs, LeftKey)
      found == joint # Len(rhs) + 1 /\ first(rhs[joint].itv) = LeftKey
  IN \/ (res = unrelated \/ ~ found) /\ Stop(unrelated)
     \/ res # unrelated /\ found /\ Match(res, l, joint)

next_both ==
  /\ state = "nextboth"
  /\ \/ LeftEnd /\ RightEnd /\ Stop(result)
     \/ LeftEnd /\ ~ RightEnd /\ Stop(result \cap subset)
     \/ ~ LeftEnd /\ RightEnd /\ Stop(result \cap superset)
     \/ /\ ~ LeftEnd /\ ~ RightEnd
        /\ \/ LeftKey < RightKey /\ SearchLeft(result \cap superset)
           \/ RightKey < LeftKey /\ SearchRight(result \cap subset)
           \/ LeftKey = RightKey /\ Match(result, l, r)
  /\ UNCHANGED containers

Init == PassInit /\ result = equal
=============================================================================
