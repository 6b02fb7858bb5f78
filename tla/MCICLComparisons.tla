-------------------------- MODULE MCICLComparisons --------------------------
(***************************************************************************)
(* A small instance of ICLComparisons for TLC: every pair of containers    *)
(* over a few ticks, cut in every way that the splitting types allow (the  *)
(* joining ones allow fewer), sets over more ticks than maps.              *)
(***************************************************************************)
EXTENDS ICLComparisons

CONSTANTS SetTop, MapTop, ElementTop

\* All containers over the ticks 0 .. n - 1 with these values: the last segment
\* ends at some u <= n and what is left of it is a container over fewer ticks.
Containers(top, vals) ==
  LET upto[n \in 0 .. top] ==
        {<<>>} \cup
        UNION {{Append(c, [itv |-> construct(Dynamic, low, u, RightOpen), val |-> v]) :
                  c \in upto[low], v \in vals} :
               <<low, u>> \in {p \in (0 .. n) \X (0 .. n) : p[1] < p[2]}}
  IN upto[top]

\* Those of single elements.
Flat(Cs) == {c \in Cs : \A k \in DOMAIN c : c[k].itv.up = c[k].itv.lo + 1}

Compare(how, Cs, with) == [by : how, lhs : Cs, rhs : Cs, values : {with}]

Keys == {{}}
SomeValues == {{1}, {2}, {1, 2}}

\* std::set compares by the sorted members: {1}, {1, 2}, {2}.
SetBefore(v, w) ==
  <<v, w>> \in {<<{1}, {1, 2}>>, <<{1}, {2}>>, <<{1, 2}, {2}>>}

AllComparisons ==
       Compare({"segments", "order"}, Containers(SetTop, Keys), FALSE)
  \cup Compare({"segments", "order"}, Containers(MapTop, SomeValues), TRUE)
  \cup Compare({"elements"}, Flat(Containers(ElementTop, Keys)), FALSE)
  \cup Compare({"elements"}, Flat(Containers(ElementTop - 1, SomeValues)), TRUE)
=============================================================================
