---------------------------- MODULE ICLInclusion ----------------------------
(***************************************************************************)
(* What the comparisons of two containers promise: one answer, which is a  *)
(* relation of their elements, and after finitely many steps.              *)
(*                                                                         *)
(* inclusion_compare asks whether the containers are equal and which one   *)
(* includes the other.  A set has keys only.                               *)
(* Of two maps with values that are sets, one is included in the other if  *)
(* each of its keys is a key of the other, with a value that includes its  *)
(* own.  element_compare asks which is smaller in the lexicographic order  *)
(* of the sequences of elements, where an element of a map is a pair of    *)
(* key and value.                                                          *)
(***************************************************************************)
EXTENDS ICLInterval, Sequences, SequencesExt, FiniteSetsExt

CONSTANT Before(_, _)   \* operator < of the values

VARIABLES
  by,      \* "order" for element_compare
  lhs,     \* the containers: their segments in ascending order
  rhs,
  values,  \* TRUE if both are maps: their values are compared too
  answer   \* {}, or the set of the one answer

vars == <<by, lhs, rhs, values, answer>>

\* What the container c has at key k.
At(c, k) == {s \in ToSet(c) : k \in Elements(s.itv)}

KeysIn(c) == UNION {Elements(s.itv) : s \in ToSet(c)}

Included(c, d) ==
  /\ KeysIn(c) \subseteq KeysIn(d)
  /\ values => \A k \in KeysIn(c) : \A s \in At(c, k), t \in At(d, k) : s.val \subseteq t.val

\* The keys at which the containers do not have the same.
Differences ==
  {k \in KeysIn(lhs) \cup KeysIn(rhs) :
     \/ k \notin KeysIn(lhs) \/ k \notin KeysIn(rhs)
     \/ values /\ \E s \in At(lhs, k), t \in At(rhs, k) : s.val # t.val}

\* The container c has nothing at d or after it.
EndsBefore(c, d) == \A k \in KeysIn(c) : k < d

\* At the first difference d, a container without d has a larger element there,
\* or none.
Smaller(c, e) ==
  /\ Differences # {}
  /\ LET d == Min(Differences)
     IN \/ EndsBefore(c, d)
        \/ d \in KeysIn(c) /\ d \notin KeysIn(e) /\ ~ EndsBefore(e, d)
        \/ \E s \in At(c, d), t \in At(e, d) : Before(s.val, t.val)

Init == answer = {}

Answer ==
  /\ answer = {}
  /\ answer' = {IF by = "order" THEN <<Smaller(lhs, rhs), Smaller(rhs, lhs)>>
                ELSE <<Differences = {}, Included(lhs, rhs), Included(rhs, lhs)>>}
  /\ UNCHANGED <<by, lhs, rhs, values>>

Spec == Init /\ [][Answer]_vars /\ WF_vars(Answer)
=============================================================================
