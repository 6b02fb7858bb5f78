---------------------------- MODULE MCTPQServer ----------------------------
(***************************************************************************)
(* Small instances of TPQServer for TLC.  Ticks run from 0 to 9, an int64  *)
(* holds -16 .. 15.                                                        *)
(***************************************************************************)
EXTENDS TPQServer

CONSTANTS p1, p2, c1, c2, b0, b1

TP(d, s, n) == [detid |-> d, tstart |-> s, tspan |-> n]
Q(s, n, d) == [tstart |-> s, tspan |-> n, detmask |-> d]
Water(l, h) == [lwm |-> l, hwm |-> h]

AllBits == {b0, b1}
BothMasks == {{b0}, {b0, b1}}
OneMask == {AllBits}

\* A stream of two links whose TPSets abut, overlap and straddle the cuts,
\* with one TPSet of an empty interval.
Stream ==
  {TP({b0}, 0, 2), TP({b1}, 1, 3), TP({b0}, 2, 2), TP({b0}, 4, 3),
   TP({b1}, 5, 4), TP({b0}, 7, 1), TP({b1}, 7, 0)}
TinyStream == {TP({b0}, 1, 2), TP({b1}, 3, 2), TP({b0}, 5, 3)}
PairStream == {TP({b0}, 1, 2), TP({b1}, 3, 2)}

\* Queries that can be late, partly late, in sight or early on the way.
Questions == {Q(1, 3, {b0}), Q(3, 4, {b0, b1}), Q(6, 2, {b0})}
FewQuestions == {Q(1, 3, {b0}), Q(4, 3, {b0})}
\* The second ends where TinyStream does.
LastQuestions == {Q(1, 3, {b0}), Q(5, 3, {b0})}
OneQuestion == {Q(1, 3, {b0})}

\* The first begins two ticks before tick 0: its uint64 tstart is 2^w - 2.
AllQuestions == Questions \cup {Q(30, 6, {b0})}

Shallow == Water(2, 3)
Deep == Water(3, 4)
Inverted == Water(4, 2)
OneSetting == {Shallow}
AllSettings == {Shallow, Deep, Inverted}
=============================================================================
