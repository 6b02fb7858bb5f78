--------------------------- MODULE ICLComparisons ---------------------------
(***************************************************************************)
(* The three comparisons of containers: a caller compares two containers   *)
(* by one of them.  Each is a loop with a state of its own; together they  *)
(* implement ICLInclusion, which answers in one step.                      *)
(***************************************************************************)
EXTENDS ICLPasses

CONSTANTS
  Comparisons,    \* what a caller compares: [by, lhs, rhs, values]
  Before(_, _)    \* operator < of the values

\* What an associative container holds: segments in ascending order, none empty
\* and no two with a common element.
Segments(c) ==
  /\ Len(c) \in Nat /\ DOMAIN c = 1 .. Len(c)
  /\ \A k \in DOMAIN c : c[k].itv \in Interval /\ ~ is_empty(c[k].itv)
  /\ \A j, k \in DOMAIN c : j < k => exclusive_less(c[j].itv, c[k].itv)

\* Containers of single elements have segments of one tick.
Single(c) == \A k \in DOMAIN c : first(c[k].itv) = last(c[k].itv)

\* operator < orders the values that are compared: one of two is less, or they
\* are equal.
Ordered(c, d) ==
  \A j \in DOMAIN c, k \in DOMAIN d :
    LET v == c[j].val
        w == d[k].val
    IN /\ ~ (Before(v, w) /\ Before(w, v))
       /\ v = w <=> ~ Before(v, w) /\ ~ Before(w, v)

ASSUME ComparisonsAssumption ==
  \A c \in Comparisons :
    /\ c.by \in {"segments", "order", "elements"}
    /\ c.values \in BOOLEAN
    /\ Segments(c.lhs) /\ Segments(c.rhs)
    /\ c.by = "elements" => Single(c.lhs) /\ Single(c.rhs)
    /\ c.by = "order" /\ c.values => Ordered(c.lhs, c.rhs)

VARIABLE by   \* the comparison the caller called

vars == <<by, passVars>>

BySegments == INSTANCE ICLSubsetCompare
ByOrder == INSTANCE ICLElementCompare
ByElements == INSTANCE ICLFlatCompare

Init ==
  /\ \E c \in Comparisons : by = c.by /\ lhs = c.lhs /\ rhs = c.rhs /\ values = c.values
  /\ \/ by = "segments" /\ BySegments!Init
     \/ by = "order" /\ ByOrder!Init
     \/ by = "elements" /\ ByElements!Init

Next ==
  /\ \/ by = "segments" /\ BySegments!Next
     \/ by = "order" /\ ByOrder!Next
     \/ by = "elements" /\ ByElements!next_both
  /\ UNCHANGED by

\* The loops run to their end.
Spec == Init /\ [][Next]_vars /\ WF_vars(Next)

-----------------------------------------------------------------------------
(***************************************************************************)
(* Properties.                                                             *)
(***************************************************************************)

\* No step of a pass reads past the end of a container or a prior segment that
\* is not there, and a result that nothing can change any more ends the pass.
TypeOK ==
  /\ IteratorsOK
  /\ by = "segments" => BySegments!TypeOK
  /\ by = "order" => ByOrder!TypeOK

\* What the caller is told.
Told ==
  CASE by = "segments" ->
         <<BySegments!is_element_equal, BySegments!within, BySegments!contains_all>>
    [] by = "order"    -> <<ByOrder!is_element_less, ByOrder!is_element_greater>>
    [] by = "elements" ->
         <<result = ByElements!equal, "subset" \in result, "superset" \in result>>

\* The loops implement ICLInclusion: they come to an end, and the result is the
\* inclusion of the elements, or their lexicographic order, however the two
\* containers are cut into segments.
Promised == INSTANCE ICLInclusion
              WITH answer <- IF state = "stop" THEN {Told} ELSE {}

AnswersAsPromised == Promised!Spec
=============================================================================
