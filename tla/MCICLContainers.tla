-------------------------- MODULE MCICLContainers --------------------------
(***************************************************************************)
(* A small instance of ICLContainers for TLC.                              *)
(***************************************************************************)
EXTENDS ICLContainers

CONSTANTS a, b

TwoValues == {a, b}

\* The members of the values are only compared.
Swapped == Permutations(TwoValues)
=============================================================================
