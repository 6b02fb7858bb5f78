------------------------------ MODULE TPQueue ------------------------------
(***************************************************************************)
(* The interval queue of tpq_server and the arithmetic it is read with.    *)
(*                                                                         *)
(* The server keeps TPSet messages in a boost::icl::interval_map from      *)
(* int64 ticks to sets of shared pointers.  A message is added over its    *)
(* right-open interval; the only removal is everything below a cut.  What  *)
(* is left of one message is therefore one interval [lo, end): the map is  *)
(* represented by the set of pairs (message, lo), one for each message     *)
(* that still covers a tick.  How the map splits and joins its segments is *)
(* not represented: no query can see it.                                   *)
(*                                                                         *)
(* This module has no variables: TPQServer and its proofs read the queue   *)
(* through these operators only.  A definition marked Variant is the one that *)
(* follows it with a plausible mistake; no specification uses it.          *)
(***************************************************************************)
EXTENDS Integers, FiniteSetsExt

CONSTANTS
  DetBits,   \* the bits of a detector ID mask
  LowBit,    \* bit 0, which C++ operator precedence singles out
  TPSets,    \* the TPSet messages that can reach the ingest socket
  MaxTick,   \* no TPSet ends after this tick
  Half       \* int64 values are -Half .. Half-1, uint64 values 0 .. 2*Half-1

(***************************************************************************)
(* TPSets carry small ticks: tstart + tspan never overflows an int64.  (The *)
(* program computes that sum in signed arithmetic and never checks it.)    *)
(* The messages are told apart by their content, and a message from a      *)
(* detector has at least one bit of detector ID.                           *)
(***************************************************************************)
ASSUME QueueAssumption ==
  /\ LowBit \in DetBits
  /\ MaxTick \in Nat \ {0}
  /\ Half \in Nat
  /\ MaxTick < Half
  /\ IsFiniteSet(TPSets)
  /\ TPSets \subseteq [detid : SUBSET DetBits, tstart : Nat, tspan : Nat]
  /\ \A tp \in TPSets : tp.tstart + tp.tspan <= MaxTick

-----------------------------------------------------------------------------
(***************************************************************************)
(* Ticks.                                                                  *)
(***************************************************************************)

\* Variant: the unsigned value is taken as it is.
Int64Unsigned(n) == n % (2 * Half)

\* What an int64_t holds after the assignment of a wider or unsigned value.
Int64(n) == ((n + Half) % (2 * Half)) - Half

\* Values of the uint64_t fields of a QUERY.
UInt64 == 0 .. (2 * Half - 1)

\* payload_t::interval(): [tstart, TpEnd).
TpEnd(tp) == tp.tstart + tp.tspan

\* Right-open intervals [tstart, end) and [beg, end) share a tick.
Overlaps(tp, beg, end) ==
  /\ tp.tspan > 0
  /\ beg < end
  /\ tp.tstart < end
  /\ beg < TpEnd(tp)

-----------------------------------------------------------------------------
(***************************************************************************)
(* The queue.                                                              *)
(***************************************************************************)

Entries == [tp : TPSets, lo : 0 .. MaxTick]

\* iq += {interval, ptr} for each of the messages.  A message with an empty
\* interval leaves no trace in the map.
Insert(q, tps) ==
  q \cup {[tp |-> tp, lo |-> tp.tstart] : tp \in {t \in tps : t.tspan > 0}}

\* Variant: the end of the message that starts last.
UpperOfNewest(q) ==
  IF q = {} THEN 0
  ELSE TpEnd((CHOOSE e \in q : \A f \in q : f.tp.tstart <= e.tp.tstart).tp)

\* boost::icl::lower and upper; on an empty map they are 1 and 0.
Lower(q) == IF q = {} THEN 1 ELSE Min({e.lo : e \in q})
Upper(q) == IF q = {} THEN 0 ELSE Max({TpEnd(e.tp) : e \in q})

\* Variant: messages that straddle the cut leave with the others.
EraseStraddling(q, cut) == {e \in q : cut <= e.lo}

\* Variant: messages that straddle the cut stay whole.
EraseWhole(q, cut) == {e \in q : cut < TpEnd(e.tp)}

\* iq -= right_open(0, cut): messages that end by the cut leave, those that
\* straddle it keep what lies at or after it.  Nothing starts before tick 0,
\* so a cut at or below 0, an empty interval to the map, changes nothing.
EraseBelow(q, cut) ==
  {[tp |-> e.tp, lo |-> IF e.lo < cut THEN cut ELSE e.lo] :
     e \in {f \in q : cut < TpEnd(f.tp)}}

\* (iq & right_open(beg, end)) with the pointers of all segments merged.
Fetch(q, beg, end) ==
  {e.tp : e \in {f \in q : /\ beg < end
                           /\ f.lo < end
                           /\ beg < TpEnd(f.tp)}}

-----------------------------------------------------------------------------
(***************************************************************************)
(* Queries.  A QUERY carries uint64 fields; the server computes with their *)
(* int64 values.                                                           *)
(***************************************************************************)

Beg(q) == Int64(q.tstart)
End(q) == Int64(q.tstart + q.tspan)
=============================================================================
