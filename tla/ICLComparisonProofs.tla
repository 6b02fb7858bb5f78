------------------------ MODULE ICLComparisonProofs ------------------------
(***************************************************************************)
(* Proofs about ICLComparisons, for containers of any length and values of *)
(* any kind: no step of a pass leaves the containers, and when a pass      *)
(* stops its result is the relation of the elements that ICLInclusion      *)
(* promises.                                                               *)
(*                                                                         *)
(* The argument is a frontier, an integer that moves up with the pass: the *)
(* segments passed end at or before it, the others after it, and up to it  *)
(* the result has been decided.                                            *)
(***************************************************************************)
EXTENDS ICLComparisons, NaturalsInduction, WellFoundedInduction, TLAPS

-----------------------------------------------------------------------------
(***************************************************************************)
(* Containers.                                                             *)
(***************************************************************************)

\* The first and the last element of a segment.
lo(c, k) == first(c[k].itv)
hi(c, k) == last(c[k].itv)

\* The ends of an interval are integers.
LEMMA EndsAreInt ==
  ASSUME NEW i \in Interval
  PROVE  first(i) \in Int /\ last(i) \in Int
BY DEF Interval, first, last, is_left_closed, is_right_closed

\* is_empty: the last element lies before the first one.
LEMMA EmptyIs ==
  ASSUME NEW i \in Interval
  PROVE  is_empty(i) <=> last(i) < first(i)
<1>1. i.lo \in Int /\ i.up \in Int /\ i.b \in {Open, LeftOpen, RightOpen, Closed}
  BY DEF Interval, Bounds, Open, LeftOpen, RightOpen, Closed
<1>2. CASE i.b = Open
  BY <1>1, <1>2 DEF is_empty, first, last, is_left_closed, is_right_closed, Open, LeftOpen, RightOpen, Closed
<1>3. CASE i.b = Closed
  BY <1>1, <1>3 DEF is_empty, first, last, is_left_closed, is_right_closed, Open, LeftOpen, RightOpen, Closed
<1>4. CASE i.b = LeftOpen
  BY <1>1, <1>4 DEF is_empty, first, last, is_left_closed, is_right_closed, Open, LeftOpen, RightOpen, Closed
<1>5. CASE i.b = RightOpen
  BY <1>1, <1>5 DEF is_empty, first, last, is_left_closed, is_right_closed, Open, LeftOpen, RightOpen, Closed
<1>6. QED
  BY <1>1, <1>2, <1>3, <1>4, <1>5

\* The elements of an interval are those from its first to its last.
LEMMA ElementsAre ==
  ASSUME NEW i \in Interval, NEW k
  PROVE  k \in Elements(i) <=> k \in Int /\ first(i) <= k /\ k <= last(i)
<1>1. i.lo \in Int /\ i.up \in Int
  BY DEF Interval
<1>2. ASSUME k \in Elements(i)
      PROVE  k \in Int /\ first(i) <= k /\ k <= last(i)
  BY <1>1, <1>2 DEF Elements, first, last, is_left_closed, is_right_closed
<1>3. ASSUME k \in Int, first(i) <= k, k <= last(i)
      PROVE  k \in Elements(i)
  BY <1>1, <1>3 DEF Elements, first, last, is_left_closed, is_right_closed
<1>4. QED
  BY <1>2, <1>3

\* The segments of a container by their ends.
LEMMA SegmentEnds ==
  ASSUME NEW c, Segments(c)
  PROVE  /\ Len(c) \in Nat
         /\ DOMAIN c = 1 .. Len(c)
         /\ \A k \in 1 .. Len(c) : lo(c, k) \in Int /\ hi(c, k) \in Int /\ lo(c, k) <= hi(c, k)
         /\ \A j, k \in 1 .. Len(c) : j < k => hi(c, j) < lo(c, k)
<1>1. Len(c) \in Nat /\ DOMAIN c = 1 .. Len(c)
  BY DEF Segments
<1>2. \A k \in 1 .. Len(c) : c[k].itv \in Interval /\ ~ is_empty(c[k].itv)
  BY DEF Segments
<1>3. \A k \in 1 .. Len(c) : lo(c, k) \in Int /\ hi(c, k) \in Int /\ lo(c, k) <= hi(c, k)
  BY <1>2, EndsAreInt, EmptyIs DEF lo, hi
<1>4. \A j, k \in 1 .. Len(c) : j < k => hi(c, j) < lo(c, k)
  BY <1>1, <1>2 DEF Segments, exclusive_less, lo, hi
<1>5. QED
  BY <1>1, <1>3, <1>4

\* Key k is in the segment q of the container c.
Here(c, q, k) == q \in 1 .. Len(c) /\ lo(c, q) <= k /\ k <= hi(c, q)

\* No key is in two segments.
LEMMA OneHere ==
  ASSUME NEW c, Segments(c), NEW k \in Int, NEW i, NEW j, Here(c, i, k), Here(c, j, k)
  PROVE  i = j
<1>1. i \in 1 .. Len(c) /\ j \in 1 .. Len(c) /\ Len(c) \in Nat
  BY SegmentEnds DEF Here
<1>2. ~ i < j
  BY <1>1, SegmentEnds DEF Here
<1>3. ~ j < i
  BY <1>1, SegmentEnds DEF Here
<1>4. QED
  BY <1>1, <1>2, <1>3

-----------------------------------------------------------------------------
(***************************************************************************)
(* Inclusion, key by key.                                                  *)
(***************************************************************************)

\* What container c has at key k container d has too, with a value that includes
\* its own if v says that values count.
Good(c, d, v, k) ==
  \A i : Here(c, i, k) =>
    \E j : Here(d, j, k) /\ (v => c[i].val \subseteq d[j].val)

\* Up to F all of c is in d.
Fits(c, d, v, F) == \A k \in Int : k <= F => Good(c, d, v, k)

\* Something of c is not in d.
Misfit(c, d, v) == \E k \in Int : ~ Good(c, d, v, k)

\* The segments before position m end up to F, the others after it.
Past(c, m, F) ==
  /\ \A j \in 1 .. Len(c) : j < m => hi(c, j) <= F
  /\ \A j \in 1 .. Len(c) : j >= m => hi(c, j) > F

\* The segments from position m on begin after F.
Fresh(c, m, F) == \A j \in 1 .. Len(c) : j >= m => lo(c, j) > F

\* A key of c that is not in d is a misfit.
LEMMA MissingKey ==
  ASSUME NEW c, NEW d, NEW v, NEW k \in Int, NEW i, Here(c, i, k),
         \A j : ~ Here(d, j, k)
  PROVE  Misfit(c, d, v)
BY DEF Misfit, Good

\* So is a key of both where the value in d does not include that in c.
LEMMA WrongValue ==
  ASSUME NEW c, NEW d, Segments(d), NEW v, v, NEW k \in Int, NEW i, NEW j,
         Here(c, i, k), Here(d, j, k), ~ (c[i].val \subseteq d[j].val)
  PROVE  Misfit(c, d, v)
<1>1. \A n : Here(d, n, k) => n = j
  BY OneHere
<1>2. ~ Good(c, d, v, k)
  BY <1>1 DEF Good
<1>3. QED
  BY <1>2 DEF Misfit

\* If all of c lies up to F and fits, there is no misfit.
LEMMA AllFits ==
  ASSUME NEW c, NEW d, NEW v, Segments(c), NEW F \in Int, NEW m,
         m > Len(c), m \in Int, Past(c, m, F), Fits(c, d, v, F)
  PROVE  ~ Misfit(c, d, v)
<1>1. SUFFICES ASSUME NEW k \in Int, ~ Good(c, d, v, k)
               PROVE  FALSE
  BY DEF Misfit
<1>2. PICK i : Here(c, i, k)
  BY <1>1 DEF Good
<1>3. i \in 1 .. Len(c) /\ i < m
  BY <1>2, SegmentEnds DEF Here
<1>4. k <= hi(c, i) /\ hi(c, i) <= F /\ hi(c, i) \in Int
  BY <1>2, <1>3, SegmentEnds DEF Here, Past
<1>5. Good(c, d, v, k)
  BY <1>4 DEF Fits
<1>6. QED
  BY <1>1, <1>5

\* After the frontier and up to the end of the current segment a key can only be
\* in that segment.
LEMMA InCurrent ==
  ASSUME NEW c, Segments(c), NEW F \in Int, NEW m \in 1 .. Len(c), Past(c, m, F),
         NEW k \in Int, F < k, k <= hi(c, m), NEW i, Here(c, i, k)
  PROVE  i = m
<1>1. i \in 1 .. Len(c) /\ Len(c) \in Nat
  BY SegmentEnds DEF Here
<1>2. hi(c, i) \in Int /\ hi(c, m) \in Int /\ lo(c, i) \in Int
  BY <1>1, SegmentEnds
<1>3. ~ i < m
  BY <1>1, <1>2 DEF Here, Past
<1>4. ~ m < i
  BY <1>1, <1>2, SegmentEnds DEF Here
<1>5. QED
  BY <1>1, <1>3, <1>4

\* A key after the frontier and before the current segment is not in the container.
LEMMA InNone ==
  ASSUME NEW c, Segments(c), NEW F \in Int, NEW m \in 1 .. Len(c) + 1, Past(c, m, F),
         NEW k \in Int, F < k, m <= Len(c) => k < lo(c, m)
  PROVE  \A i : ~ Here(c, i, k)
<1>1. SUFFICES ASSUME NEW i, Here(c, i, k)
               PROVE  FALSE
  OBVIOUS
<1>2. i \in 1 .. Len(c) /\ Len(c) \in Nat
  BY <1>1, SegmentEnds DEF Here
<1>3. hi(c, i) \in Int /\ lo(c, i) \in Int
  BY <1>2, SegmentEnds
<1>4. lo(c, i) <= k /\ k <= hi(c, i)
  BY <1>1 DEF Here
<1>5. ~ i < m
  BY <1>2, <1>3, <1>4 DEF Past
<1>6. m \in 1 .. Len(c) /\ k < lo(c, m) /\ lo(c, m) \in Int /\ hi(c, m) \in Int /\ lo(c, m) <= hi(c, m)
  BY <1>2, <1>5, SegmentEnds
<1>7. m # i
  BY <1>3, <1>4, <1>6
<1>8. hi(c, m) < lo(c, i)
  BY <1>2, <1>5, <1>6, <1>7, SegmentEnds
<1>9. QED
  BY <1>3, <1>4, <1>6, <1>8

\* The frontier moves to an element of the current segment, or to its end.
LEMMA PastMoves ==
  ASSUME NEW c, Segments(c), NEW F \in Int, NEW m \in 1 .. Len(c), Past(c, m, F),
         NEW G \in Int, F <= G, G <= hi(c, m)
  PROVE  /\ G < hi(c, m) => Past(c, m, G)
         /\ G = hi(c, m) => Past(c, m + 1, G) /\ Fresh(c, m + 1, G)
<1>1. Len(c) \in Nat /\ hi(c, m) \in Int
  BY SegmentEnds
<1>2. \A j \in 1 .. Len(c) : j < m => hi(c, j) <= G
  BY SegmentEnds DEF Past
<1>3. \A j \in 1 .. Len(c) : j > m => lo(c, j) > hi(c, m) /\ hi(c, j) > hi(c, m)
  <2>1. SUFFICES ASSUME NEW j \in 1 .. Len(c), j > m
                 PROVE  lo(c, j) > hi(c, m) /\ hi(c, j) > hi(c, m)
    OBVIOUS
  <2>2. hi(c, m) < lo(c, j) /\ lo(c, j) <= hi(c, j) /\ lo(c, j) \in Int /\ hi(c, j) \in Int
    BY <2>1, SegmentEnds
  <2>3. QED
    BY <1>1, <2>2
<1>4. ASSUME G < hi(c, m)
      PROVE  Past(c, m, G)
  <2>1. \A j \in 1 .. Len(c) : j >= m => hi(c, j) > G
    <3>1. SUFFICES ASSUME NEW j \in 1 .. Len(c), j >= m
                   PROVE  hi(c, j) > G
      OBVIOUS
    <3>2. j = m \/ j > m
      BY <3>1
    <3>3. hi(c, j) \in Int
      BY SegmentEnds
    <3>4. QED
      BY <1>1, <1>3, <1>4, <3>2, <3>3
  <2>2. QED
    BY <1>2, <2>1 DEF Past
<1>5. ASSUME G = hi(c, m)
      PROVE  Past(c, m + 1, G) /\ Fresh(c, m + 1, G)
  <2>1. \A j \in 1 .. Len(c) : j < m + 1 => hi(c, j) <= G
    <3>1. SUFFICES ASSUME NEW j \in 1 .. Len(c), j < m + 1
                   PROVE  hi(c, j) <= G
      OBVIOUS
    <3>2. j = m \/ j < m
      BY <3>1
    <3>3. QED
      BY <1>1, <1>2, <1>5, <3>2
  <2>2. \A j \in 1 .. Len(c) : j >= m + 1 => hi(c, j) > G /\ lo(c, j) > G
    BY <1>3, <1>5
  <2>3. QED
    BY <2>1, <2>2 DEF Past, Fresh
<1>6. QED
  BY <1>4, <1>5

\* Inclusion up to F goes on to G if in between only the current segments have
\* keys, that of d begins no later, and its value includes the other.
LEMMA FitsMoves ==
  ASSUME NEW c, NEW d, NEW v, Segments(c), Segments(d), NEW F \in Int, NEW G \in Int,
         NEW m \in 1 .. Len(c), NEW n \in 1 .. Len(d),
         Past(c, m, F), Fits(c, d, v, F), G <= hi(c, m), G <= hi(d, n),
         lo(d, n) <= F + 1 \/ lo(d, n) <= lo(c, m),
         v /\ lo(c, m) <= hi(d, n) /\ lo(d, n) <= hi(c, m) => c[m].val \subseteq d[n].val
  PROVE  Fits(c, d, v, G)
<1>1. SUFFICES ASSUME NEW k \in Int, k <= G, ~ (k <= F)
               PROVE  Good(c, d, v, k)
  BY DEF Fits
<1>2. SUFFICES ASSUME NEW i, Here(c, i, k)
               PROVE  Here(d, n, k) /\ (v => c[i].val \subseteq d[n].val)
  BY DEF Good
<1>3. /\ hi(c, m) \in Int /\ lo(c, m) \in Int /\ hi(d, n) \in Int /\ lo(d, n) \in Int
      /\ lo(d, n) <= hi(d, n)
  BY SegmentEnds
<1>4. F < k /\ k <= hi(c, m) /\ k <= hi(d, n)
  BY <1>1, <1>3
<1>5. i = m
  BY <1>2, <1>4, InCurrent
<1>6. lo(c, m) <= k
  BY <1>2, <1>5 DEF Here
<1>7. lo(d, n) <= k
  BY <1>3, <1>4, <1>6
<1>8. Here(d, n, k)
  BY <1>4, <1>7 DEF Here
<1>9. lo(c, m) <= hi(d, n) /\ lo(d, n) <= hi(c, m)
  BY <1>3, <1>4, <1>6, <1>7
<1>10. QED
  BY <1>5, <1>8, <1>9

\* It goes on to any G before the current segment of c.
LEMMA FitsGap ==
  ASSUME NEW c, NEW d, NEW v, Segments(c), NEW F \in Int, NEW G \in Int,
         NEW m \in 1 .. Len(c) + 1, Past(c, m, F), Fits(c, d, v, F), m <= Len(c) => G < lo(c, m)
  PROVE  Fits(c, d, v, G)
<1>1. SUFFICES ASSUME NEW k \in Int, k <= G, ~ (k <= F)
               PROVE  Good(c, d, v, k)
  BY DEF Fits
<1>2. m <= Len(c) => k < lo(c, m)
  <2>1. SUFFICES ASSUME m <= Len(c)
                 PROVE  k < lo(c, m)
    OBVIOUS
  <2>2. m \in 1 .. Len(c)
    BY <2>1, SegmentEnds
  <2>3. lo(c, m) \in Int
    BY <2>2, SegmentEnds
  <2>4. QED
    BY <1>1, <2>1, <2>3
<1>3. \A i : ~ Here(c, i, k)
  BY <1>1, <1>2, InNone
<1>4. QED
  BY <1>3 DEF Good

-----------------------------------------------------------------------------
(***************************************************************************)
(* Passes.  Written over constants, so that all three loops and both       *)
(* directions share the lemmas: containers c and d, at positions m and n,  *)
(* with the priors pm and pn, in the state st.                             *)
(***************************************************************************)

\* Where the iterators may be, with the frontier F.
Shape(c, d, m, n, pm, pn, st, F) ==
  /\ m \in 1 .. Len(c) + 1 /\ n \in 1 .. Len(d) + 1
  /\ pm \in 0 .. m - 1 /\ pn \in 0 .. n - 1
  /\ Past(c, m, F) /\ Past(d, n, F)
  /\ st \in {"nextboth", "nextleft", "nextright"}
  /\ st = "nextboth" => Fresh(c, m, F) /\ Fresh(d, n, F)
  /\ st = "nextleft" => pm = m - 1 /\ pm # 0 /\ hi(c, pm) = F /\ n <= Len(d)
  /\ st = "nextright" => pn = n - 1 /\ pn # 0 /\ hi(d, pn) = F /\ m <= Len(c)

\* Advance, from the position m, n, ... to m2, n2, ...
Move(c, d, m, n, pm, pn, m2, n2, pm2, pn2, st2) ==
  \/ /\ hi(c, m) < hi(d, n)
     /\ m2 = m + 1 /\ n2 = n /\ pm2 = m /\ pn2 = pn /\ st2 = "nextleft"
  \/ /\ hi(d, n) < hi(c, m)
     /\ m2 = m /\ n2 = n + 1 /\ pm2 = pm /\ pn2 = n /\ st2 = "nextright"
  \/ /\ hi(c, m) = hi(d, n)
     /\ m2 = m + 1 /\ n2 = n + 1 /\ pm2 = pm /\ pn2 = pn /\ st2 = "nextboth"

\* The frontier moves to the nearer end.
LEMMA MoveShape ==
  ASSUME NEW c, NEW d, Segments(c), Segments(d),
         NEW m \in 1 .. Len(c), NEW n \in 1 .. Len(d), NEW pm \in 0 .. m - 1, NEW pn \in 0 .. n - 1,
         NEW F \in Int, Past(c, m, F), Past(d, n, F),
         NEW m2, NEW n2, NEW pm2, NEW pn2, NEW st2,
         Move(c, d, m, n, pm, pn, m2, n2, pm2, pn2, st2)
  PROVE  \E G \in Int :
           /\ F < G /\ G <= hi(c, m) /\ G <= hi(d, n)
           /\ Shape(c, d, m2, n2, pm2, pn2, st2, G)
           /\ st2 = "nextleft" => n2 = n /\ G = hi(c, m)
           /\ st2 = "nextright" => m2 = m /\ G = hi(d, n)
<1>1. Len(c) \in Nat /\ Len(d) \in Nat /\ hi(c, m) \in Int /\ hi(d, n) \in Int
  BY SegmentEnds
<1>2. F < hi(c, m) /\ F < hi(d, n)
  BY <1>1 DEF Past
<1>3. CASE /\ hi(c, m) < hi(d, n)
           /\ m2 = m + 1 /\ n2 = n /\ pm2 = m /\ pn2 = pn /\ st2 = "nextleft"
  <2> DEFINE G == hi(c, m)
  <2>1. Past(c, m + 1, G)
    BY <1>1, <1>2, PastMoves
  <2>2. Past(d, n, G)
    BY <1>1, <1>2, <1>3, PastMoves
  <2>3. Shape(c, d, m2, n2, pm2, pn2, st2, G)
    BY <1>1, <1>3, <2>1, <2>2 DEF Shape
  <2>4. QED
    BY <1>1, <1>2, <1>3, <2>3
<1>4. CASE /\ hi(d, n) < hi(c, m)
           /\ m2 = m /\ n2 = n + 1 /\ pm2 = pm /\ pn2 = n /\ st2 = "nextright"
  <2> DEFINE G == hi(d, n)
  <2>1. Past(d, n + 1, G)
    BY <1>1, <1>2, PastMoves
  <2>2. Past(c, m, G)
    BY <1>1, <1>2, <1>4, PastMoves
  <2>3. Shape(c, d, m2, n2, pm2, pn2, st2, G)
    BY <1>1, <1>4, <2>1, <2>2 DEF Shape
  <2>4. QED
    BY <1>1, <1>2, <1>4, <2>3
<1>5. CASE /\ hi(c, m) = hi(d, n)
           /\ m2 = m + 1 /\ n2 = n + 1 /\ pm2 = pm /\ pn2 = pn /\ st2 = "nextboth"
  <2> DEFINE G == hi(c, m)
  <2>1. Past(c, m + 1, G) /\ Fresh(c, m + 1, G)
    BY <1>1, <1>2, PastMoves
  <2>2. Past(d, n + 1, G) /\ Fresh(d, n + 1, G)
    BY <1>1, <1>2, <1>5, PastMoves
  <2>3. Shape(c, d, m2, n2, pm2, pn2, st2, G)
    BY <1>1, <1>5, <2>1, <2>2 DEF Shape
  <2>4. QED
    BY <1>1, <1>2, <1>5, <2>3
<1>6. QED
  BY <1>3, <1>4, <1>5 DEF Move

\* What a pass relies on while it goes on with the bits res: each inclusion that is
\* still possible holds up to F, and where the other segment is used up partly it
\* began before.
Going(c, d, v, m, n, st, res, F) ==
  /\ "subset" \in res => Fits(c, d, v, F)
  /\ "superset" \in res => Fits(d, c, v, F)
  /\ st = "nextleft" /\ "subset" \in res => lo(d, n) <= F
  /\ st = "nextright" /\ "superset" \in res => lo(c, m) <= F

\* The values of the segments at m and n let c be included in d.
Alike(c, d, v, m, n) ==
  v /\ lo(c, m) <= hi(d, n) /\ lo(d, n) <= hi(c, m) => c[m].val \subseteq d[n].val

\* So do the segments: that of d begins no later, or nothing is left before it.
Agree(c, d, v, m, n, F) ==
  /\ lo(d, n) <= F + 1 \/ lo(d, n) <= lo(c, m)
  /\ Alike(c, d, v, m, n)

\* A pass that advances over segments that agree goes on relying on the same.
LEMMA MoveGoing ==
  ASSUME NEW c, NEW d, Segments(c), Segments(d), NEW v, NEW res,
         NEW m \in 1 .. Len(c), NEW n \in 1 .. Len(d), NEW pm \in 0 .. m - 1, NEW pn \in 0 .. n - 1,
         NEW F \in Int, Past(c, m, F), Past(d, n, F),
         NEW m2, NEW n2, NEW pm2, NEW pn2, NEW st2,
         Move(c, d, m, n, pm, pn, m2, n2, pm2, pn2, st2),
         "subset" \in res => Fits(c, d, v, F) /\ Agree(c, d, v, m, n, F),
         "superset" \in res => Fits(d, c, v, F) /\ Agree(d, c, v, n, m, F)
  PROVE  \E G \in Int : /\ Shape(c, d, m2, n2, pm2, pn2, st2, G)
                        /\ Going(c, d, v, m2, n2, st2, res, G)
<1>1. PICK G \in Int :
           /\ F < G /\ G <= hi(c, m) /\ G <= hi(d, n)
           /\ Shape(c, d, m2, n2, pm2, pn2, st2, G)
           /\ st2 = "nextleft" => n2 = n /\ G = hi(c, m)
           /\ st2 = "nextright" => m2 = m /\ G = hi(d, n)
  BY MoveShape
<1>2. /\ hi(c, m) \in Int /\ lo(c, m) \in Int /\ lo(c, m) <= hi(c, m)
      /\ hi(d, n) \in Int /\ lo(d, n) \in Int /\ lo(d, n) <= hi(d, n)
  BY SegmentEnds
<1>3. ASSUME "subset" \in res
      PROVE  Fits(c, d, v, G) /\ (st2 = "nextleft" => lo(d, n2) <= G)
  <2>1. Fits(c, d, v, F) /\ (lo(d, n) <= F + 1 \/ lo(d, n) <= lo(c, m))
    BY <1>3 DEF Agree, Alike
  <2>2. v /\ lo(c, m) <= hi(d, n) /\ lo(d, n) <= hi(c, m) => c[m].val \subseteq d[n].val
    BY <1>3 DEF Agree, Alike
  <2>3. Fits(c, d, v, G)
    BY <1>1, <2>1, <2>2, FitsMoves
  <2>4. st2 = "nextleft" => lo(d, n2) <= G
    BY <1>1, <1>2, <2>1
  <2>5. QED
    BY <2>3, <2>4
<1>4. ASSUME "superset" \in res
      PROVE  Fits(d, c, v, G) /\ (st2 = "nextright" => lo(c, m2) <= G)
  <2>1. Fits(d, c, v, F) /\ (lo(c, m) <= F + 1 \/ lo(c, m) <= lo(d, n))
    BY <1>4 DEF Agree, Alike
  <2>2. v /\ lo(d, n) <= hi(c, m) /\ lo(c, m) <= hi(d, n) => d[n].val \subseteq c[m].val
    BY <1>4 DEF Agree, Alike
  <2>3. Fits(d, c, v, G)
    BY <1>1, <2>1, <2>2, FitsMoves
  <2>4. st2 = "nextright" => lo(c, m2) <= G
    BY <1>1, <1>2, <2>1
  <2>5. QED
    BY <2>3, <2>4
<1>5. Going(c, d, v, m2, n2, st2, res, G)
  BY <1>3, <1>4 DEF Going
<1>6. QED
  BY <1>1, <1>5

\* A nonempty set of naturals has a least element, found by Min.
LEMMA LeastNatural ==
  ASSUME NEW S \in SUBSET Nat, S # {}
  PROVE  Min(S) \in S /\ \A x \in S : Min(S) <= x
<1> DEFINE R == {ss \in Nat \X Nat : ss[1] < ss[2]}
<1>1. R = OpToRel(<, Nat)
  BY Zenon DEF OpToRel
<1>2. IsWellFoundedOn(R, Nat)
  BY <1>1, NatLessThanWellFounded, Zenon
<1> HIDE DEF R
<1>3. PICK m \in S : \A x \in S : ~ (<<x, m>> \in R)
  BY <1>2, WFMin, Zenon
<1>4. ASSUME NEW x \in S
      PROVE  m <= x
  <2>1. ~ (<<x, m>> \in R)
    BY <1>3
  <2>2. ~ (x < m)
    BY <2>1 DEF R
  <2>3. QED
    BY <2>2
<1>5. QED
  BY <1>4 DEF Min

\* lower_bound: the first position in K, or the one after the last.
LEMMA FirstOf ==
  ASSUME NEW n \in Nat, NEW K \in SUBSET (1 .. n)
  PROVE  /\ Min(K \cup {n + 1}) \in 1 .. n + 1
         /\ Min(K \cup {n + 1}) <= n => Min(K \cup {n + 1}) \in K
         /\ \A j \in 1 .. n : j < Min(K \cup {n + 1}) => j \notin K
<1> DEFINE B == K \cup {n + 1}
<1>1. B \in SUBSET (1 .. n + 1) /\ B \in SUBSET Nat /\ n + 1 \in B
  OBVIOUS
<1>2. Min(B) \in B /\ \A x \in B : Min(B) <= x
  BY <1>1, LeastNatural
<1>3. Min(B) \in 1 .. n + 1
  BY <1>1, <1>2
<1>4. Min(B) <= n => Min(B) \in K
  BY <1>2, <1>3
<1>5. ASSUME NEW j \in 1 .. n, j < Min(B), j \in K
      PROVE  FALSE
  <2>1. Min(B) <= j
    BY <1>2, <1>5
  <2>2. QED
    BY <1>3, <1>5, <2>1
<1>6. QED
  BY <1>3, <1>4, <1>5

\* join: the pass skips segments of c that lie before the current one of d, up to
\* the first at p that does not.  What d has before its current segment still fits.
LEMMA Skipped ==
  ASSUME NEW c, NEW d, Segments(c), Segments(d), NEW v,
         NEW m \in 1 .. Len(c), NEW n \in 1 .. Len(d), NEW F \in Int,
         Past(c, m, F), Past(d, n, F), Fresh(d, n, F), Fits(d, c, v, F),
         hi(c, m) < lo(d, n),
         NEW p \in 1 .. Len(c) + 1, p <= Len(c) => hi(c, p) >= lo(d, n),
         \A j \in 1 .. Len(c) : j < p => hi(c, j) < lo(d, n)
  PROVE  /\ m < p
         /\ \E G \in Int : /\ Past(c, p, G) /\ Fresh(c, p, G)
                           /\ Past(d, n, G) /\ Fresh(d, n, G)
                           /\ Fits(d, c, v, G)
<1>1. /\ Len(c) \in Nat /\ Len(d) \in Nat
      /\ \A k \in 1 .. Len(c) : lo(c, k) \in Int /\ hi(c, k) \in Int /\ lo(c, k) <= hi(c, k)
      /\ \A k \in 1 .. Len(d) : lo(d, k) \in Int /\ hi(d, k) \in Int /\ lo(d, k) <= hi(d, k)
  BY SegmentEnds
<1>2. m < p
  <2>1. SUFFICES ASSUME ~ (m < p)
                 PROVE  FALSE
    OBVIOUS
  <2>2. p \in 1 .. Len(c) /\ p <= m
    BY <1>1, <2>1
  <2>3. hi(c, p) <= hi(c, m)
    <3>1. CASE p = m
      BY <1>1, <3>1
    <3>2. CASE p < m
      BY <1>1, <2>2, <3>2, SegmentEnds
    <3>3. QED
      BY <2>2, <3>1, <3>2
  <2>4. hi(c, p) >= lo(d, n)
    BY <2>2
  <2>5. QED
    BY <1>1, <2>2, <2>3, <2>4
<1> DEFINE q == p - 1
           G == hi(c, q)
<1>3. q \in 1 .. Len(c) /\ m <= q /\ q < p /\ p = q + 1
  BY <1>1, <1>2
<1> HIDE DEF q
<1>4. G \in Int /\ F < G /\ G < lo(d, n)
  BY <1>1, <1>3 DEF Past
<1>5. Past(c, p, G) /\ Fresh(c, p, G)
  <2>1. \A j \in 1 .. Len(c) : j < p => hi(c, j) <= G
    <3>1. SUFFICES ASSUME NEW j \in 1 .. Len(c), j < p
                   PROVE  hi(c, j) <= G
      OBVIOUS
    <3>2. CASE j = q
      BY <1>4, <3>2
    <3>3. CASE j < q
      BY <1>1, <1>3, <3>3, SegmentEnds
    <3>4. QED
      BY <1>3, <3>1, <3>2, <3>3
  <2>2. \A j \in 1 .. Len(c) : j >= p => lo(c, j) > G /\ hi(c, j) > G
    <3>1. SUFFICES ASSUME NEW j \in 1 .. Len(c), j >= p
                   PROVE  lo(c, j) > G /\ hi(c, j) > G
      OBVIOUS
    <3>2. q < j
      BY <1>3, <3>1
    <3>3. hi(c, q) < lo(c, j)
      BY <1>3, <3>2, SegmentEnds
    <3>4. QED
      BY <1>1, <1>4, <3>3
  <2>3. QED
    BY <2>1, <2>2 DEF Past, Fresh
<1>6. Past(d, n, G) /\ Fresh(d, n, G)
  <2>1. G <= hi(d, n) /\ G < hi(d, n) /\ F <= G
    BY <1>1, <1>4
  <2>2. Past(d, n, G)
    BY <1>4, <2>1, PastMoves
  <2>3. \A j \in 1 .. Len(d) : j >= n => lo(d, j) > G
    <3>1. SUFFICES ASSUME NEW j \in 1 .. Len(d), j >= n
                   PROVE  lo(d, j) > G
      OBVIOUS
    <3>2. CASE j = n
      BY <1>4, <3>2
    <3>3. CASE j > n
      <4>1. hi(d, n) < lo(d, j)
        BY <3>3, SegmentEnds
      <4>2. QED
        BY <1>1, <1>4, <4>1
    <3>4. QED
      BY <3>1, <3>2, <3>3
  <2>4. QED
    BY <2>2, <2>3 DEF Fresh
<1>7. Fits(d, c, v, G)
  <2>1. n \in 1 .. Len(d) + 1
    BY <1>1
  <2>2. QED
    BY <1>4, <2>1, FitsGap
<1>8. QED
  BY <1>2, <1>4, <1>5, <1>6, <1>7

-----------------------------------------------------------------------------
(***************************************************************************)
(* The loops, by the ends of their segments.                               *)
(***************************************************************************)

\* The relations of the interval algebra are the same in the instance BySegments.
LEMMA BySegmentsAlgebra ==
  ASSUME NEW x, NEW y
  PROVE  /\ BySegments!first(x) = first(x) /\ BySegments!last(x) = last(x)
         /\ BySegments!is_empty(x) <=> is_empty(x)
         /\ BySegments!exclusive_less(x, y) <=> exclusive_less(x, y)
         /\ BySegments!intersects(x, y) <=> intersects(x, y)
         /\ BySegments!touches(x, y) <=> last(x) + 1 = first(y)
         /\ BySegments!lower_less(x, y) <=> first(x) < first(y)
         /\ BySegments!lower_equal(x, y) <=> first(x) = first(y)
         /\ BySegments!upper_less(x, y) <=> last(x) < last(y)
         /\ BySegments!upper_equal(x, y) <=> last(x) = last(y)
<1>1. \A z : BySegments!first(z) = first(z) /\ BySegments!last(z) = last(z)
  BY DEF BySegments!first, BySegments!last, first, last, BySegments!is_left_closed, BySegments!is_right_closed,
         is_left_closed, is_right_closed, BySegments!RightOpen, BySegments!LeftOpen, BySegments!Closed, RightOpen, LeftOpen, Closed
<1>2. \A z : BySegments!is_empty(z) <=> is_empty(z)
  BY DEF BySegments!is_empty, is_empty, BySegments!Open, BySegments!Closed, Open, Closed
<1>3. \A z, w : BySegments!exclusive_less(z, w) <=> exclusive_less(z, w)
  BY <1>1, <1>2 DEF BySegments!exclusive_less, exclusive_less
<1>4. BySegments!intersects(x, y) <=> intersects(x, y)
  BY <1>2, <1>3 DEF BySegments!intersects, intersects
<1>5. /\ BySegments!touches(x, y) <=> last(x) + 1 = first(y)
      /\ BySegments!lower_less(x, y) <=> first(x) < first(y)
      /\ BySegments!lower_equal(x, y) <=> first(x) = first(y)
      /\ BySegments!upper_less(x, y) <=> last(x) < last(y)
      /\ BySegments!upper_equal(x, y) <=> last(x) = last(y)
  BY <1>1 DEF BySegments!touches, BySegments!lower_less, BySegments!lower_equal, BySegments!upper_less, BySegments!upper_equal
<1>6. QED
  BY <1>1, <1>2, <1>3, <1>4, <1>5

\* The relations of the interval algebra are the same in the instance ByOrder.
LEMMA ByOrderAlgebra ==
  ASSUME NEW x, NEW y
  PROVE  /\ ByOrder!first(x) = first(x) /\ ByOrder!last(x) = last(x)
         /\ ByOrder!is_empty(x) <=> is_empty(x)
         /\ ByOrder!exclusive_less(x, y) <=> exclusive_less(x, y)
         /\ ByOrder!intersects(x, y) <=> intersects(x, y)
         /\ ByOrder!touches(x, y) <=> last(x) + 1 = first(y)
         /\ ByOrder!lower_less(x, y) <=> first(x) < first(y)
         /\ ByOrder!lower_equal(x, y) <=> first(x) = first(y)
         /\ ByOrder!upper_less(x, y) <=> last(x) < last(y)
         /\ ByOrder!upper_equal(x, y) <=> last(x) = last(y)
<1>1. \A z : ByOrder!first(z) = first(z) /\ ByOrder!last(z) = last(z)
  BY DEF ByOrder!first, ByOrder!last, first, last, ByOrder!is_left_closed, ByOrder!is_right_closed,
         is_left_closed, is_right_closed, ByOrder!RightOpen, ByOrder!LeftOpen, ByOrder!Closed, RightOpen, LeftOpen, Closed
<1>2. \A z : ByOrder!is_empty(z) <=> is_empty(z)
  BY DEF ByOrder!is_empty, is_empty, ByOrder!Open, ByOrder!Closed, Open, Closed
<1>3. \A z, w : ByOrder!exclusive_less(z, w) <=> exclusive_less(z, w)
  BY <1>1, <1>2 DEF ByOrder!exclusive_less, exclusive_less
<1>4. ByOrder!intersects(x, y) <=> intersects(x, y)
  BY <1>2, <1>3 DEF ByOrder!intersects, intersects
<1>5. /\ ByOrder!touches(x, y) <=> last(x) + 1 = first(y)
      /\ ByOrder!lower_less(x, y) <=> first(x) < first(y)
      /\ ByOrder!lower_equal(x, y) <=> first(x) = first(y)
      /\ ByOrder!upper_less(x, y) <=> last(x) < last(y)
      /\ ByOrder!upper_equal(x, y) <=> last(x) = last(y)
  BY <1>1 DEF ByOrder!touches, ByOrder!lower_less, ByOrder!lower_equal, ByOrder!upper_less, ByOrder!upper_equal
<1>6. QED
  BY <1>1, <1>2, <1>3, <1>4, <1>5

\* The loop ends with the iterators at m and n.
HaltAt(res, m, n) ==
  /\ result' = res /\ state' = "stop"
  /\ l' = m /\ r' = n
  /\ UNCHANGED <<prior_left, prior_right>>

\* Advance of this pass, by one of its iterators or both.
Moves ==
  Move(lhs, rhs, l, r, prior_left, prior_right, l', r', prior_left', prior_right', state')

\* proceed after the segments have restricted the result: sub and sup say whether
\* their borders leave each bit.
Restricts(sub, sup) ==
  \E res \in SUBSET {"subset", "superset"} :
    /\ "subset" \in res <=> "subset" \in result /\ Alike(lhs, rhs, values, l, r) /\ sub
    /\ "superset" \in res <=> "superset" \in result /\ Alike(rhs, lhs, values, r, l) /\ sup
    /\ \/ res = {} /\ HaltAt({}, l, r)
       \/ res # {} /\ result' = res /\ Moves

\* The position p is the first in c whose segment ends at x or later, or the end.
FirstFrom(c, p, x) ==
  /\ p \in 1 .. Len(c) + 1
  /\ p <= Len(c) => hi(c, p) >= x
  /\ \A j \in 1 .. Len(c) : j < p => hi(c, j) < x

\* What next_both does.
BothStep ==
  \/ l = Len(lhs) + 1 /\ r = Len(rhs) + 1 /\ HaltAt(result, l, r)
  \/ l = Len(lhs) + 1 /\ r # Len(rhs) + 1 /\ HaltAt(result \cap {"subset"}, l, r)
  \/ l # Len(lhs) + 1 /\ r = Len(rhs) + 1 /\ HaltAt(result \cap {"superset"}, l, r)
  \/ /\ l # Len(lhs) + 1 /\ r # Len(rhs) + 1
     /\ hi(lhs, l) < lo(rhs, r)
     /\ \/ HaltAt({}, l, r) /\ "superset" \notin result
        \/ HaltAt({}, l, r) /\ FirstFrom(lhs, Len(lhs) + 1, lo(rhs, r))
        \/ /\ "superset" \in result /\ result' = {"superset"}
           /\ l' # Len(lhs) + 1 /\ FirstFrom(lhs, l', lo(rhs, r))
           /\ UNCHANGED <<r, prior_left, prior_right, state>>
  \/ /\ l # Len(lhs) + 1 /\ r # Len(rhs) + 1
     /\ hi(rhs, r) < lo(lhs, l)
     /\ \/ HaltAt({}, l, r) /\ "subset" \notin result
        \/ HaltAt({}, l, r) /\ FirstFrom(rhs, Len(rhs) + 1, lo(lhs, l))
        \/ /\ "subset" \in result /\ result' = {"subset"}
           /\ r' # Len(rhs) + 1 /\ FirstFrom(rhs, r', lo(lhs, l))
           /\ UNCHANGED <<l, prior_left, prior_right, state>>
  \/ /\ l # Len(lhs) + 1 /\ r # Len(rhs) + 1
     /\ Restricts(lo(rhs, r) <= lo(lhs, l), lo(lhs, l) <= lo(rhs, r))

\* What next_left does.
LeftStep ==
  \/ l = Len(lhs) + 1 /\ HaltAt(result \cap {"subset"}, l, r)
  \/ /\ l # Len(lhs) + 1
     /\ Restricts(TRUE, lo(lhs, l) = hi(lhs, prior_left) + 1 \/ lo(lhs, l) <= lo(rhs, r))

\* What next_right does.
RightStep ==
  \/ r = Len(rhs) + 1 /\ HaltAt(result \cap {"superset"}, l, r)
  \/ /\ r # Len(rhs) + 1
     /\ Restricts(lo(rhs, r) = hi(rhs, prior_right) + 1 \/ lo(rhs, r) <= lo(lhs, l), TRUE)

\* proceed of the loop over segments.
LEMMA SegmentsProceed ==
  ASSUME Segments(lhs), Segments(rhs), l \in 1 .. Len(lhs), r \in 1 .. Len(rhs),
         NEW res, BySegments!proceed(res)
  PROVE  result' = res /\ Moves
<1>1. /\ BySegments!upper_less(lhs[l].itv, rhs[r].itv) <=> hi(lhs, l) < hi(rhs, r)
      /\ BySegments!upper_less(rhs[r].itv, lhs[l].itv) <=> hi(rhs, r) < hi(lhs, l)
      /\ BySegments!upper_equal(lhs[l].itv, rhs[r].itv) <=> hi(lhs, l) = hi(rhs, r)
  BY BySegmentsAlgebra DEF hi
<1>2. BySegments!Advance /\ result' = res
  BY DEF BySegments!proceed
<1>3. CASE /\ BySegments!upper_less(lhs[l].itv, rhs[r].itv)
           /\ prior_left' = l /\ l' = l + 1 /\ state' = "nextleft"
           /\ UNCHANGED <<r, prior_right>>
  BY <1>1, <1>2, <1>3 DEF Moves, Move
<1>4. CASE /\ BySegments!upper_less(rhs[r].itv, lhs[l].itv)
           /\ prior_right' = r /\ r' = r + 1 /\ state' = "nextright"
           /\ UNCHANGED <<l, prior_left>>
  BY <1>1, <1>2, <1>4 DEF Moves, Move
<1>5. CASE /\ BySegments!upper_equal(lhs[l].itv, rhs[r].itv)
           /\ l' = l + 1 /\ r' = r + 1 /\ state' = "nextboth"
           /\ UNCHANGED <<prior_left, prior_right>>
  BY <1>1, <1>2, <1>5 DEF Moves, Move
<1>6. QED
  BY <1>2, <1>3, <1>4, <1>5 DEF BySegments!Advance, BySegments!LeftItv, BySegments!RightItv

\* What the values leave.
LEMMA SegmentsCodomain ==
  ASSUME Segments(lhs), Segments(rhs), l \in 1 .. Len(lhs), r \in 1 .. Len(rhs),
         values \in BOOLEAN
  PROVE  /\ BySegments!Codomain \in SUBSET {"subset", "superset"}
         /\ "subset" \in BySegments!Codomain <=> Alike(lhs, rhs, values, l, r)
         /\ "superset" \in BySegments!Codomain <=> Alike(rhs, lhs, values, r, l)
<1>1. /\ lo(lhs, l) \in Int /\ hi(lhs, l) \in Int /\ lo(lhs, l) <= hi(lhs, l)
      /\ lo(rhs, r) \in Int /\ hi(rhs, r) \in Int /\ lo(rhs, r) <= hi(rhs, r)
  BY SegmentEnds
<1>2. ~ is_empty(lhs[l].itv) /\ ~ is_empty(rhs[r].itv)
  BY DEF Segments
<1>3. BySegments!intersects(lhs[l].itv, rhs[r].itv)
        <=> lo(lhs, l) <= hi(rhs, r) /\ lo(rhs, r) <= hi(lhs, l)
  <2>1. BySegments!intersects(lhs[l].itv, rhs[r].itv) <=> intersects(lhs[l].itv, rhs[r].itv)
    BY BySegmentsAlgebra
  <2>2. exclusive_less(lhs[l].itv, rhs[r].itv) <=> hi(lhs, l) < lo(rhs, r)
    BY <1>2 DEF exclusive_less, hi, lo
  <2>3. exclusive_less(rhs[r].itv, lhs[l].itv) <=> hi(rhs, r) < lo(lhs, l)
    BY <1>2 DEF exclusive_less, hi, lo
  <2>4. QED
    BY <1>1, <1>2, <2>1, <2>2, <2>3 DEF intersects
<1> DEFINE both == values /\ BySegments!intersects(lhs[l].itv, rhs[r].itv)
<1>4. BySegments!Codomain = IF both THEN BySegments!co_compare ELSE {"subset", "superset"}
  BY DEF BySegments!Codomain, BySegments!LeftItv, BySegments!RightItv, BySegments!equal,
         BySegments!subset, BySegments!superset
<1>5. /\ BySegments!co_compare \in SUBSET {"subset", "superset"}
      /\ "subset" \in BySegments!co_compare <=> lhs[l].val \subseteq rhs[r].val
      /\ "superset" \in BySegments!co_compare <=> rhs[r].val \subseteq lhs[l].val
  BY DEF BySegments!co_compare, BySegments!subset, BySegments!superset
<1>6. both <=> values /\ lo(lhs, l) <= hi(rhs, r) /\ lo(rhs, r) <= hi(lhs, l)
  BY <1>3
<1> HIDE DEF both
<1>7. CASE both
  BY <1>4, <1>5, <1>6, <1>7 DEF Alike
<1>8. CASE ~ both
  BY <1>4, <1>6, <1>8 DEF Alike
<1>9. QED
  BY <1>7, <1>8

\* The lower bound that the pass skips to.
LEMMA SegmentsLowerBound ==
  ASSUME NEW c, NEW d, Segments(c), Segments(d), NEW n \in 1 .. Len(d)
  PROVE  FirstFrom(c, BySegments!lower_bound(c, d[n].itv), lo(d, n))
<1>1. /\ Len(c) \in Nat /\ DOMAIN c = 1 .. Len(c)
      /\ \A k \in 1 .. Len(c) : hi(c, k) \in Int
      /\ lo(d, n) \in Int
  BY SegmentEnds
<1>2. \A k \in 1 .. Len(c) : ~ BySegments!exclusive_less(c[k].itv, d[n].itv) <=> ~ (hi(c, k) < lo(d, n))
  <2>1. \A k \in 1 .. Len(c) : ~ is_empty(c[k].itv)
    BY DEF Segments
  <2>2. ~ is_empty(d[n].itv)
    BY DEF Segments
  <2>3. QED
    BY <2>1, <2>2, BySegmentsAlgebra DEF exclusive_less, hi, lo
<1> DEFINE K == {k \in 1 .. Len(c) : ~ BySegments!exclusive_less(c[k].itv, d[n].itv)}
           p == Min(K \cup {Len(c) + 1})
<1>3. BySegments!lower_bound(c, d[n].itv) = p
  BY <1>1 DEF BySegments!lower_bound, BySegments!Min, Min
<1>4. \A k \in 1 .. Len(c) : k \in K <=> hi(c, k) >= lo(d, n)
  BY <1>1, <1>2
<1>5. K \in SUBSET (1 .. Len(c))
  OBVIOUS
<1> HIDE DEF K
<1>6. /\ p \in 1 .. Len(c) + 1
      /\ p <= Len(c) => p \in K
      /\ \A j \in 1 .. Len(c) : j < p => j \notin K
  BY <1>1, <1>5, FirstOf
<1> HIDE DEF p
<1>7. \A j \in 1 .. Len(c) : j < p => hi(c, j) < lo(d, n)
  BY <1>1, <1>4, <1>6
<1>8. p <= Len(c) => hi(c, p) >= lo(d, n)
  BY <1>4, <1>6
<1>9. QED
  BY <1>3, <1>6, <1>7, <1>8 DEF FirstFrom

\* restrict_result and what follows it.
LEMMA SegmentsRestricted ==
  ASSUME Segments(lhs), Segments(rhs), l \in 1 .. Len(lhs), r \in 1 .. Len(rhs),
         values \in BOOLEAN, result \in SUBSET {"subset", "superset"},
         NEW res \in SUBSET {"subset", "superset"}, NEW sub \in BOOLEAN, NEW sup \in BOOLEAN,
         "subset" \in res <=> sub, "superset" \in res <=> sup,
         \/ /\ result \cap res \cap BySegments!Codomain = {}
            /\ BySegments!Stop({})
         \/ /\ result \cap res \cap BySegments!Codomain # {}
            /\ BySegments!proceed(result \cap res \cap BySegments!Codomain)
  PROVE  Restricts(sub, sup)
<1> DEFINE now == result \cap res \cap BySegments!Codomain
<1>1. /\ "subset" \in now <=> "subset" \in result /\ Alike(lhs, rhs, values, l, r) /\ sub
      /\ "superset" \in now <=> "superset" \in result /\ Alike(rhs, lhs, values, r, l) /\ sup
  BY SegmentsCodomain
<1>2. now \in SUBSET {"subset", "superset"}
  OBVIOUS
<1>3. \/ now = {} /\ BySegments!Stop({})
      \/ now # {} /\ BySegments!proceed(now)
  OBVIOUS
<1> HIDE DEF now
<1>4. CASE now = {} /\ BySegments!Stop({})
  <2>1. HaltAt({}, l, r)
    BY <1>4 DEF BySegments!Stop, BySegments!iterators, HaltAt
  <2>2. QED
    BY <1>1, <1>2, <1>4, <2>1 DEF Restricts
<1>5. CASE now # {} /\ BySegments!proceed(now)
  <2>1. result' = now /\ Moves
    BY <1>5, SegmentsProceed
  <2>2. QED
    BY <1>1, <1>2, <1>5, <2>1 DEF Restricts
<1>6. QED
  BY <1>3, <1>4, <1>5

\* Stop of the loop over segments.
LEMMA SegmentsStop ==
  ASSUME NEW res, BySegments!Stop(res)
  PROVE  HaltAt(res, l, r)
BY DEF BySegments!Stop, BySegments!iterators, HaltAt

\* next_both of the loop over segments.
LEMMA SegmentsBoth ==
  ASSUME Segments(lhs), Segments(rhs), l \in 1 .. Len(lhs) + 1, r \in 1 .. Len(rhs) + 1,
         values \in BOOLEAN, result \in SUBSET {"subset", "superset"}, BySegments!next_both
  PROVE  state = "nextboth" /\ BothStep
<1>1. /\ Len(lhs) \in Nat /\ Len(rhs) \in Nat
      /\ BySegments!subset = {"subset"} /\ BySegments!superset = {"superset"}
      /\ BySegments!equal = {"subset", "superset"} /\ BySegments!unrelated = {}
      /\ BySegments!LeftEnd <=> l = Len(lhs) + 1
      /\ BySegments!RightEnd <=> r = Len(rhs) + 1
      /\ BySegments!LeftItv = lhs[l].itv /\ BySegments!RightItv = rhs[r].itv
  BY SegmentEnds DEF BySegments!subset, BySegments!superset, BySegments!equal, BySegments!unrelated,
     BySegments!LeftEnd, BySegments!RightEnd, BySegments!LeftItv, BySegments!RightItv
<1>2. /\ state = "nextboth"
      /\ \/ l = Len(lhs) + 1 /\ r = Len(rhs) + 1 /\ BySegments!Stop(result)
         \/ l = Len(lhs) + 1 /\ r # Len(rhs) + 1 /\ BySegments!Stop(result \cap {"subset"})
         \/ l # Len(lhs) + 1 /\ r = Len(rhs) + 1 /\ BySegments!Stop(result \cap {"superset"})
         \/ /\ l # Len(lhs) + 1 /\ r # Len(rhs) + 1
            /\ BySegments!exclusive_less(lhs[l].itv, rhs[r].itv)
            /\ \/ result \cap {"superset"} = {} /\ BySegments!Stop({})
               \/ result \cap {"superset"} # {} /\ BySegments!JoinLeft(result \cap {"superset"})
         \/ /\ l # Len(lhs) + 1 /\ r # Len(rhs) + 1
            /\ BySegments!exclusive_less(rhs[r].itv, lhs[l].itv)
            /\ \/ result \cap {"subset"} = {} /\ BySegments!Stop({})
               \/ result \cap {"subset"} # {} /\ BySegments!JoinRight(result \cap {"subset"})
         \/ /\ l # Len(lhs) + 1 /\ r # Len(rhs) + 1
            /\ \/ /\ result \cap BySegments!Codomain \cap BySegments!LowerBorders = {}
                  /\ BySegments!Stop({})
               \/ /\ result \cap BySegments!Codomain \cap BySegments!LowerBorders # {}
                  /\ BySegments!proceed(result \cap BySegments!Codomain \cap BySegments!LowerBorders)
  BY <1>1 DEF BySegments!next_both, BySegments!Restricted
<1>3. ASSUME l # Len(lhs) + 1
      PROVE  l \in 1 .. Len(lhs)
  BY <1>1, <1>3
<1>4. ASSUME r # Len(rhs) + 1
      PROVE  r \in 1 .. Len(rhs)
  BY <1>1, <1>4
<1>5. CASE l = Len(lhs) + 1 /\ r = Len(rhs) + 1 /\ BySegments!Stop(result)
  BY <1>2, <1>5, SegmentsStop DEF BothStep
<1>6. CASE l = Len(lhs) + 1 /\ r # Len(rhs) + 1 /\ BySegments!Stop(result \cap {"subset"})
  BY <1>2, <1>6, SegmentsStop DEF BothStep
<1>7. CASE l # Len(lhs) + 1 /\ r = Len(rhs) + 1 /\ BySegments!Stop(result \cap {"superset"})
  BY <1>2, <1>7, SegmentsStop DEF BothStep
<1>8. CASE /\ l # Len(lhs) + 1 /\ r # Len(rhs) + 1
           /\ BySegments!exclusive_less(lhs[l].itv, rhs[r].itv)
           /\ \/ result \cap {"superset"} = {} /\ BySegments!Stop({})
              \/ result \cap {"superset"} # {} /\ BySegments!JoinLeft(result \cap {"superset"})
  <2>1. l \in 1 .. Len(lhs) /\ r \in 1 .. Len(rhs)
    BY <1>3, <1>4, <1>8
  <2>2. hi(lhs, l) < lo(rhs, r)
    <3>1. ~ is_empty(lhs[l].itv) /\ ~ is_empty(rhs[r].itv)
      BY <2>1 DEF Segments
    <3>2. QED
      BY <1>8, <3>1, BySegmentsAlgebra DEF exclusive_less, hi, lo
  <2>3. CASE result \cap {"superset"} = {} /\ BySegments!Stop({})
    <3>1. HaltAt({}, l, r) /\ "superset" \notin result
      BY <2>3, SegmentsStop
    <3>2. QED
      BY <1>2, <1>8, <2>2, <3>1 DEF BothStep
  <2>4. CASE result \cap {"superset"} # {} /\ BySegments!JoinLeft(result \cap {"superset"})
    <3> DEFINE joint == BySegments!lower_bound(lhs, rhs[r].itv)
    <3>1. result \cap {"superset"} = {"superset"} /\ "superset" \in result
      BY <2>4
    <3>2. \/ joint = Len(lhs) + 1 /\ BySegments!Stop({})
          \/ /\ joint # Len(lhs) + 1
             /\ l' = joint
             /\ result' = {"superset"}
             /\ UNCHANGED <<r, prior_left, prior_right, state>>
      BY <1>1, <2>4, <3>1 DEF BySegments!JoinLeft
    <3>3. FirstFrom(lhs, joint, lo(rhs, r))
      BY <2>1, SegmentsLowerBound
    <3> HIDE DEF joint
    <3>4. CASE joint = Len(lhs) + 1 /\ BySegments!Stop({})
      <4>1. HaltAt({}, l, r) /\ FirstFrom(lhs, Len(lhs) + 1, lo(rhs, r))
        BY <3>3, <3>4, SegmentsStop
      <4>2. QED
        BY <1>2, <1>8, <2>2, <4>1 DEF BothStep
    <3>5. CASE /\ joint # Len(lhs) + 1
               /\ l' = joint
               /\ result' = {"superset"}
               /\ UNCHANGED <<r, prior_left, prior_right, state>>
      <4>1. l' # Len(lhs) + 1 /\ FirstFrom(lhs, l', lo(rhs, r))
        BY <3>3, <3>5
      <4>2. QED
        BY <1>2, <1>8, <2>2, <3>1, <3>5, <4>1 DEF BothStep
    <3>6. QED
      BY <3>2, <3>4, <3>5
  <2>5. QED
    BY <1>8, <2>3, <2>4
<1>9. CASE /\ l # Len(lhs) + 1 /\ r # Len(rhs) + 1
           /\ BySegments!exclusive_less(rhs[r].itv, lhs[l].itv)
           /\ \/ result \cap {"subset"} = {} /\ BySegments!Stop({})
              \/ result \cap {"subset"} # {} /\ BySegments!JoinRight(result \cap {"subset"})
  <2>1. l \in 1 .. Len(lhs) /\ r \in 1 .. Len(rhs)
    BY <1>3, <1>4, <1>9
  <2>2. hi(rhs, r) < lo(lhs, l)
    <3>1. ~ is_empty(lhs[l].itv) /\ ~ is_empty(rhs[r].itv)
      BY <2>1 DEF Segments
    <3>2. QED
      BY <1>9, <3>1, BySegmentsAlgebra DEF exclusive_less, hi, lo
  <2>3. CASE result \cap {"subset"} = {} /\ BySegments!Stop({})
    <3>1. HaltAt({}, l, r) /\ "subset" \notin result
      BY <2>3, SegmentsStop
    <3>2. QED
      BY <1>2, <1>9, <2>2, <3>1 DEF BothStep
  <2>4. CASE result \cap {"subset"} # {} /\ BySegments!JoinRight(result \cap {"subset"})
    <3> DEFINE joint == BySegments!lower_bound(rhs, lhs[l].itv)
    <3>1. result \cap {"subset"} = {"subset"} /\ "subset" \in result
      BY <2>4
    <3>2. \/ joint = Len(rhs) + 1 /\ BySegments!Stop({})
          \/ /\ joint # Len(rhs) + 1
             /\ r' = joint
             /\ result' = {"subset"}
             /\ UNCHANGED <<l, prior_left, prior_right, state>>
      BY <1>1, <2>4, <3>1 DEF BySegments!JoinRight
    <3>3. FirstFrom(rhs, joint, lo(lhs, l))
      BY <2>1, SegmentsLowerBound
    <3> HIDE DEF joint
    <3>4. CASE joint = Len(rhs) + 1 /\ BySegments!Stop({})
      <4>1. HaltAt({}, l, r) /\ FirstFrom(rhs, Len(rhs) + 1, lo(lhs, l))
        BY <3>3, <3>4, SegmentsStop
      <4>2. QED
        BY <1>2, <1>9, <2>2, <4>1 DEF BothStep
    <3>5. CASE /\ joint # Len(rhs) + 1
               /\ r' = joint
               /\ result' = {"subset"}
               /\ UNCHANGED <<l, prior_left, prior_right, state>>
      <4>1. r' # Len(rhs) + 1 /\ FirstFrom(rhs, r', lo(lhs, l))
        BY <3>3, <3>5
      <4>2. QED
        BY <1>2, <1>9, <2>2, <3>1, <3>5, <4>1 DEF BothStep
    <3>6. QED
      BY <3>2, <3>4, <3>5
  <2>5. QED
    BY <1>9, <2>3, <2>4
<1>10. CASE /\ l # Len(lhs) + 1 /\ r # Len(rhs) + 1
            /\ \/ /\ result \cap BySegments!Codomain \cap BySegments!LowerBorders = {}
                  /\ BySegments!Stop({})
               \/ /\ result \cap BySegments!Codomain \cap BySegments!LowerBorders # {}
                  /\ BySegments!proceed(result \cap BySegments!Codomain \cap BySegments!LowerBorders)
  <2>1. l \in 1 .. Len(lhs) /\ r \in 1 .. Len(rhs)
    BY <1>3, <1>4, <1>10
  <2>2. lo(lhs, l) \in Int /\ lo(rhs, r) \in Int
    BY <2>1, SegmentEnds
  <2>3. BySegments!LowerBorders =
          IF lo(lhs, l) < lo(rhs, r) THEN {"superset"}
          ELSE IF lo(rhs, r) < lo(lhs, l) THEN {"subset"} ELSE {"subset", "superset"}
    BY <1>1, BySegmentsAlgebra DEF BySegments!LowerBorders, lo
  <2> DEFINE sub == lo(rhs, r) <= lo(lhs, l)
             sup == lo(lhs, l) <= lo(rhs, r)
  <2>4. /\ BySegments!LowerBorders \in SUBSET {"subset", "superset"}
        /\ "subset" \in BySegments!LowerBorders <=> sub
        /\ "superset" \in BySegments!LowerBorders <=> sup
    BY <2>2, <2>3
  <2>5. result \cap BySegments!Codomain \cap BySegments!LowerBorders
          = result \cap BySegments!LowerBorders \cap BySegments!Codomain
    OBVIOUS
  <2>6. sub \in BOOLEAN /\ sup \in BOOLEAN
    OBVIOUS
  <2>7. \/ /\ result \cap BySegments!LowerBorders \cap BySegments!Codomain = {}
           /\ BySegments!Stop({})
        \/ /\ result \cap BySegments!LowerBorders \cap BySegments!Codomain # {}
           /\ BySegments!proceed(result \cap BySegments!LowerBorders \cap BySegments!Codomain)
    BY <1>10, <2>5
  <2> HIDE DEF sub, sup
  <2>8. Restricts(sub, sup)
    BY <2>1, <2>4, <2>6, <2>7, SegmentsRestricted
  <2>9. QED
    BY <1>2, <1>10, <2>8 DEF BothStep, sub, sup
<1>11. QED
  BY <1>2, <1>5, <1>6, <1>7, <1>8, <1>9, <1>10

\* next_left of the loop over segments.
LEMMA SegmentsLeft ==
  ASSUME Segments(lhs), Segments(rhs), l \in 1 .. Len(lhs) + 1, r \in 1 .. Len(rhs),
         prior_left \in 1 .. Len(lhs),
         values \in BOOLEAN, result \in SUBSET {"subset", "superset"}, BySegments!next_left
  PROVE  state = "nextleft" /\ LeftStep
<1>1. /\ Len(lhs) \in Nat
      /\ BySegments!subset = {"subset"} /\ BySegments!equal = {"subset", "superset"}
      /\ BySegments!unrelated = {}
      /\ BySegments!LeftEnd <=> l = Len(lhs) + 1
      /\ BySegments!LeftItv = lhs[l].itv /\ BySegments!RightItv = rhs[r].itv
  BY SegmentEnds DEF BySegments!subset, BySegments!superset, BySegments!equal, BySegments!unrelated,
     BySegments!LeftEnd, BySegments!LeftItv, BySegments!RightItv
<1>2. /\ state = "nextleft"
      /\ \/ l = Len(lhs) + 1 /\ BySegments!Stop(result \cap {"subset"})
         \/ /\ l # Len(lhs) + 1
            /\ \/ /\ result \cap BySegments!GapLeft \cap BySegments!Codomain = {}
                  /\ BySegments!Stop({})
               \/ /\ result \cap BySegments!GapLeft \cap BySegments!Codomain # {}
                  /\ BySegments!proceed(result \cap BySegments!GapLeft \cap BySegments!Codomain)
  BY <1>1 DEF BySegments!next_left, BySegments!Restricted
<1>3. CASE l = Len(lhs) + 1 /\ BySegments!Stop(result \cap {"subset"})
  BY <1>2, <1>3, SegmentsStop DEF LeftStep
<1>4. CASE /\ l # Len(lhs) + 1
           /\ \/ /\ result \cap BySegments!GapLeft \cap BySegments!Codomain = {}
                 /\ BySegments!Stop({})
              \/ /\ result \cap BySegments!GapLeft \cap BySegments!Codomain # {}
                 /\ BySegments!proceed(result \cap BySegments!GapLeft \cap BySegments!Codomain)
  <2>1. l \in 1 .. Len(lhs)
    BY <1>1, <1>4
  <2>2. lo(lhs, l) \in Int /\ lo(rhs, r) \in Int /\ hi(lhs, prior_left) \in Int
    BY <2>1, SegmentEnds
  <2> DEFINE sup == lo(lhs, l) = hi(lhs, prior_left) + 1 \/ lo(lhs, l) <= lo(rhs, r)
  <2>3. BySegments!GapLeft = IF ~ (hi(lhs, prior_left) + 1 = lo(lhs, l)) /\ lo(rhs, r) < lo(lhs, l)
                             THEN {"subset"} ELSE {"subset", "superset"}
    BY <1>1, BySegmentsAlgebra DEF BySegments!GapLeft, lo, hi
  <2>4. /\ BySegments!GapLeft \in SUBSET {"subset", "superset"}
        /\ "subset" \in BySegments!GapLeft <=> TRUE
        /\ "superset" \in BySegments!GapLeft <=> sup
    BY <2>2, <2>3
  <2>5. sup \in BOOLEAN
    OBVIOUS
  <2>6. \/ /\ result \cap BySegments!GapLeft \cap BySegments!Codomain = {}
           /\ BySegments!Stop({})
        \/ /\ result \cap BySegments!GapLeft \cap BySegments!Codomain # {}
           /\ BySegments!proceed(result \cap BySegments!GapLeft \cap BySegments!Codomain)
    BY <1>4
  <2> HIDE DEF sup
  <2>7. Restricts(TRUE, sup)
    BY <2>1, <2>4, <2>5, <2>6, SegmentsRestricted
  <2>8. QED
    BY <1>2, <1>4, <2>7 DEF LeftStep, sup
<1>5. QED
  BY <1>2, <1>3, <1>4

\* next_right of the loop over segments.
LEMMA SegmentsRight ==
  ASSUME Segments(lhs), Segments(rhs), l \in 1 .. Len(lhs), r \in 1 .. Len(rhs) + 1,
         prior_right \in 1 .. Len(rhs),
         values \in BOOLEAN, result \in SUBSET {"subset", "superset"}, BySegments!next_right
  PROVE  state = "nextright" /\ RightStep
<1>1. /\ Len(rhs) \in Nat
      /\ BySegments!superset = {"superset"} /\ BySegments!equal = {"subset", "superset"}
      /\ BySegments!unrelated = {}
      /\ BySegments!RightEnd <=> r = Len(rhs) + 1
      /\ BySegments!LeftItv = lhs[l].itv /\ BySegments!RightItv = rhs[r].itv
  BY SegmentEnds DEF BySegments!subset, BySegments!superset, BySegments!equal, BySegments!unrelated,
     BySegments!RightEnd, BySegments!LeftItv, BySegments!RightItv
<1>2. /\ state = "nextright"
      /\ \/ r = Len(rhs) + 1 /\ BySegments!Stop(result \cap {"superset"})
         \/ /\ r # Len(rhs) + 1
            /\ \/ /\ result \cap BySegments!GapRight \cap BySegments!Codomain = {}
                  /\ BySegments!Stop({})
               \/ /\ result \cap BySegments!GapRight \cap BySegments!Codomain # {}
                  /\ BySegments!proceed(result \cap BySegments!GapRight \cap BySegments!Codomain)
  BY <1>1 DEF BySegments!next_right, BySegments!Restricted
<1>3. CASE r = Len(rhs) + 1 /\ BySegments!Stop(result \cap {"superset"})
  BY <1>2, <1>3, SegmentsStop DEF RightStep
<1>4. CASE /\ r # Len(rhs) + 1
           /\ \/ /\ result \cap BySegments!GapRight \cap BySegments!Codomain = {}
                 /\ BySegments!Stop({})
              \/ /\ result \cap BySegments!GapRight \cap BySegments!Codomain # {}
                 /\ BySegments!proceed(result \cap BySegments!GapRight \cap BySegments!Codomain)
  <2>1. r \in 1 .. Len(rhs)
    BY <1>1, <1>4
  <2>2. lo(lhs, l) \in Int /\ lo(rhs, r) \in Int /\ hi(rhs, prior_right) \in Int
    BY <2>1, SegmentEnds
  <2> DEFINE sub == lo(rhs, r) = hi(rhs, prior_right) + 1 \/ lo(rhs, r) <= lo(lhs, l)
  <2>3. BySegments!GapRight = IF ~ (hi(rhs, prior_right) + 1 = lo(rhs, r)) /\ lo(lhs, l) < lo(rhs, r)
                              THEN {"superset"} ELSE {"subset", "superset"}
    BY <1>1, BySegmentsAlgebra DEF BySegments!GapRight, lo, hi
  <2>4. /\ BySegments!GapRight \in SUBSET {"subset", "superset"}
        /\ "subset" \in BySegments!GapRight <=> sub
        /\ "superset" \in BySegments!GapRight <=> TRUE
    BY <2>2, <2>3
  <2>5. sub \in BOOLEAN
    OBVIOUS
  <2>6. \/ /\ result \cap BySegments!GapRight \cap BySegments!Codomain = {}
           /\ BySegments!Stop({})
        \/ /\ result \cap BySegments!GapRight \cap BySegments!Codomain # {}
           /\ BySegments!proceed(result \cap BySegments!GapRight \cap BySegments!Codomain)
    BY <1>4
  <2> HIDE DEF sub
  <2>7. Restricts(sub, TRUE)
    BY <2>1, <2>4, <2>5, <2>6, SegmentsRestricted
  <2>8. QED
    BY <1>2, <1>4, <2>7 DEF RightStep, sub
<1>5. QED
  BY <1>2, <1>3, <1>4

-----------------------------------------------------------------------------
(***************************************************************************)
(* Inclusion.                                                              *)
(***************************************************************************)

\* What c has after the frontier and before the current segment of d is not in d.
LEMMA GapMisfit ==
  ASSUME NEW c, NEW d, Segments(c), Segments(d), NEW v, NEW F \in Int,
         NEW m \in 1 .. Len(c), NEW n \in 1 .. Len(d) + 1, Past(c, m, F), Past(d, n, F),
         n <= Len(d) => F + 1 < lo(d, n) /\ lo(c, m) < lo(d, n)
  PROVE  Misfit(c, d, v)
<1>1. Len(d) \in Nat /\ lo(c, m) \in Int /\ hi(c, m) \in Int /\ lo(c, m) <= hi(c, m)
  BY SegmentEnds
<1>2. F < hi(c, m)
  BY <1>1, SegmentEnds DEF Past
<1>3. PICK k \in Int : F < k /\ lo(c, m) <= k /\ k <= hi(c, m) /\ (k = F + 1 \/ k = lo(c, m))
  <2>1. CASE lo(c, m) <= F
    BY <1>1, <1>2, <2>1
  <2>2. CASE F < lo(c, m)
    BY <1>1, <2>2
  <2>3. QED
    BY <1>1, <2>1, <2>2
<1>4. n <= Len(d) => k < lo(d, n)
  BY <1>3
<1>5. \A j : ~ Here(d, j, k)
  BY <1>3, <1>4, InNone
<1>6. Here(c, m, k)
  BY <1>3 DEF Here
<1>7. QED
  BY <1>3, <1>5, <1>6, MissingKey

\* Neither is the key of a value that the other does not include.
LEMMA ValueMisfit ==
  ASSUME NEW c, NEW d, Segments(c), Segments(d), NEW v \in BOOLEAN,
         NEW m \in 1 .. Len(c), NEW n \in 1 .. Len(d), ~ Alike(c, d, v, m, n)
  PROVE  Misfit(c, d, v)
<1>1. /\ lo(c, m) \in Int /\ hi(c, m) \in Int /\ lo(c, m) <= hi(c, m)
      /\ lo(d, n) \in Int /\ hi(d, n) \in Int /\ lo(d, n) <= hi(d, n)
  BY SegmentEnds
<1>2. v /\ lo(c, m) <= hi(d, n) /\ lo(d, n) <= hi(c, m) /\ ~ (c[m].val \subseteq d[n].val)
  BY DEF Alike
<1>3. PICK k \in Int : lo(c, m) <= k /\ k <= hi(c, m) /\ lo(d, n) <= k /\ k <= hi(d, n)
  <2>1. CASE lo(c, m) <= lo(d, n)
    BY <1>1, <1>2, <2>1
  <2>2. CASE lo(d, n) < lo(c, m)
    BY <1>1, <1>2, <2>2
  <2>3. QED
    BY <1>1, <2>1, <2>2
<1>4. Here(c, m, k) /\ Here(d, n, k)
  BY <1>3 DEF Here
<1>5. QED
  BY <1>2, <1>4, WrongValue

\* The containers stay, and they are what an associative container holds.
ContainersInv ==
  /\ by \in {"segments", "order", "elements"}
  /\ values \in BOOLEAN
  /\ Segments(lhs) /\ Segments(rhs)
  /\ by = "elements" => Single(lhs) /\ Single(rhs)
  /\ by = "order" /\ values => Ordered(lhs, rhs)

\* The types of the iterators and of the state.
Within ==
  /\ l \in 1 .. Len(lhs) + 1 /\ r \in 1 .. Len(rhs) + 1
  /\ prior_left \in 0 .. l - 1 /\ prior_right \in 0 .. r - 1
  /\ state \in {"nextboth", "nextleft", "nextright", "stop"}

\* The frontier of a pass that goes on with the bits res.
Frontier(res) ==
  \E F \in Int : /\ Shape(lhs, rhs, l, r, prior_left, prior_right, state, F)
                 /\ Going(lhs, rhs, values, l, r, state, res, F)

\* A bit that is not set has been refuted; one that is set holds up to the frontier
\* and, when the pass has stopped, everywhere.
InclusionInv ==
  /\ Within
  /\ result \in SUBSET {"subset", "superset"}
  /\ "subset" \notin result => Misfit(lhs, rhs, values)
  /\ "superset" \notin result => Misfit(rhs, lhs, values)
  /\ state # "stop" => result # {} /\ Frontier(result)
  /\ state = "stop" => /\ "subset" \in result => ~ Misfit(lhs, rhs, values)
                       /\ "superset" \in result => ~ Misfit(rhs, lhs, values)

\* A pass may stop with a result of which each bit is proved or refuted.
LEMMA InclusionHalts ==
  ASSUME InclusionInv, UNCHANGED <<lhs, rhs, values>>,
         NEW res \in SUBSET {"subset", "superset"},
         NEW m \in 1 .. Len(lhs) + 1, NEW n \in 1 .. Len(rhs) + 1, l <= m, r <= n,
         HaltAt(res, m, n),
         "subset" \in res <=> ~ Misfit(lhs, rhs, values),
         "superset" \in res <=> ~ Misfit(rhs, lhs, values)
  PROVE  InclusionInv'
<1>1. /\ result' = res /\ state' = "stop" /\ l' = m /\ r' = n
      /\ prior_left' = prior_left /\ prior_right' = prior_right
      /\ lhs' = lhs /\ rhs' = rhs /\ values' = values
  BY DEF HaltAt
<1>2. Within'
  BY <1>1 DEF InclusionInv, Within
<1>3. QED
  BY <1>1, <1>2 DEF InclusionInv

\* A pass that goes on from a frontier with the bits that are not refuted.
LEMMA InclusionGoesOn ==
  ASSUME InclusionInv, UNCHANGED <<lhs, rhs, values>>,
         result' \in SUBSET {"subset", "superset"}, result' # {},
         "subset" \notin result' => Misfit(lhs, rhs, values),
         "superset" \notin result' => Misfit(rhs, lhs, values),
         NEW G \in Int,
         Shape(lhs, rhs, l', r', prior_left', prior_right', state', G),
         Going(lhs, rhs, values, l', r', state', result', G)
  PROVE  InclusionInv'
<1>1. lhs' = lhs /\ rhs' = rhs /\ values' = values
  OBVIOUS
<1>2. Within' /\ state' # "stop"
  BY <1>1 DEF Within, Shape
<1>3. Frontier(result)'
  BY <1>1 DEF Frontier
<1>4. QED
  BY <1>1, <1>2, <1>3 DEF InclusionInv

\* At a segment of each container, with the frontier F: a pass that restricts the
\* result by the values and by the borders, when sub and sup are right about them.
LEMMA InclusionRestricts ==
  ASSUME ContainersInv, InclusionInv, UNCHANGED <<lhs, rhs, values>>,
         l \in 1 .. Len(lhs), r \in 1 .. Len(rhs),
         NEW F \in Int, Shape(lhs, rhs, l, r, prior_left, prior_right, state, F),
         Going(lhs, rhs, values, l, r, state, result, F),
         NEW sub \in BOOLEAN, NEW sup \in BOOLEAN, Restricts(sub, sup),
         "subset" \in result /\ sub => lo(rhs, r) <= F + 1 \/ lo(rhs, r) <= lo(lhs, l),
         "superset" \in result /\ sup => lo(lhs, l) <= F + 1 \/ lo(lhs, l) <= lo(rhs, r),
         ~ sub => Misfit(lhs, rhs, values),
         ~ sup => Misfit(rhs, lhs, values)
  PROVE  InclusionInv'
<1>1. PICK res \in SUBSET {"subset", "superset"} :
           /\ "subset" \in res <=> "subset" \in result /\ Alike(lhs, rhs, values, l, r) /\ sub
           /\ "superset" \in res <=> "superset" \in result /\ Alike(rhs, lhs, values, r, l) /\ sup
           /\ \/ res = {} /\ HaltAt({}, l, r)
              \/ res # {} /\ result' = res /\ Moves
  BY DEF Restricts
<1>2. Segments(lhs) /\ Segments(rhs) /\ values \in BOOLEAN
  BY DEF ContainersInv
<1>3. /\ "subset" \notin result => Misfit(lhs, rhs, values)
      /\ "superset" \notin result => Misfit(rhs, lhs, values)
  BY DEF InclusionInv
<1>4. "subset" \notin res => Misfit(lhs, rhs, values)
  <2>1. ~ Alike(lhs, rhs, values, l, r) => Misfit(lhs, rhs, values)
    BY <1>2, ValueMisfit
  <2>2. QED
    BY <1>1, <1>3, <2>1
<1>5. "superset" \notin res => Misfit(rhs, lhs, values)
  <2>1. ~ Alike(rhs, lhs, values, r, l) => Misfit(rhs, lhs, values)
    BY <1>2, ValueMisfit
  <2>2. QED
    BY <1>1, <1>3, <2>1
<1>6. CASE res = {} /\ HaltAt({}, l, r)
  <2>1. l \in 1 .. Len(lhs) + 1 /\ r \in 1 .. Len(rhs) + 1 /\ l <= l /\ r <= r
    BY DEF InclusionInv, Within
  <2>2. Misfit(lhs, rhs, values) /\ Misfit(rhs, lhs, values)
    BY <1>4, <1>5, <1>6
  <2>3. QED
    BY <1>6, <2>1, <2>2, InclusionHalts
<1>7. CASE res # {} /\ result' = res /\ Moves
  <2>1. /\ prior_left \in 0 .. l - 1 /\ prior_right \in 0 .. r - 1
        /\ Past(lhs, l, F) /\ Past(rhs, r, F)
    BY DEF Shape
  <2>2. "subset" \in res => Fits(lhs, rhs, values, F) /\ Agree(lhs, rhs, values, l, r, F)
    BY <1>1 DEF Going, Agree
  <2>3. "superset" \in res => Fits(rhs, lhs, values, F) /\ Agree(rhs, lhs, values, r, l, F)
    BY <1>1 DEF Going, Agree
  <2>4. Move(lhs, rhs, l, r, prior_left, prior_right, l', r', prior_left', prior_right', state')
    BY <1>7 DEF Moves
  <2>5. PICK G \in Int :
          /\ Shape(lhs, rhs, l', r', prior_left', prior_right', state', G)
          /\ Going(lhs, rhs, values, l', r', state', res, G)
    BY <1>2, <2>1, <2>2, <2>3, <2>4, MoveGoing
  <2>6. QED
    BY <1>4, <1>5, <1>7, <2>5, InclusionGoesOn
<1>8. QED
  BY <1>1, <1>6, <1>7

\* The step of a join: c has segments before the current one of d, is not included
\* in it, and is left behind up to the first that reaches it.
LEMMA Joins ==
  ASSUME NEW c, NEW d, Segments(c), Segments(d), NEW v, NEW F \in Int,
         NEW m \in 1 .. Len(c), NEW n \in 1 .. Len(d),
         Past(c, m, F), Fresh(c, m, F), Past(d, n, F), Fresh(d, n, F), hi(c, m) < lo(d, n)
  PROVE  /\ Misfit(c, d, v)
         /\ FirstFrom(c, Len(c) + 1, lo(d, n)) /\ Fits(d, c, v, F) => Misfit(d, c, v)
         /\ \A p : FirstFrom(c, p, lo(d, n)) /\ Fits(d, c, v, F) =>
              m < p /\ \E G \in Int : /\ Past(c, p, G) /\ Fresh(c, p, G)
                                      /\ Past(d, n, G) /\ Fresh(d, n, G)
                                      /\ Fits(d, c, v, G)
<1>1. /\ Len(c) \in Nat /\ Len(d) \in Nat
      /\ lo(c, m) \in Int /\ hi(c, m) \in Int /\ lo(c, m) <= hi(c, m)
      /\ lo(d, n) \in Int
  BY SegmentEnds
<1>2. F < lo(c, m)
  BY <1>1 DEF Fresh
<1>3. Misfit(c, d, v)
  <2>1. F + 1 < lo(d, n) /\ lo(c, m) < lo(d, n) /\ n \in 1 .. Len(d) + 1
    BY <1>1, <1>2
  <2>2. QED
    BY <2>1, GapMisfit
<1>4. ASSUME NEW p, FirstFrom(c, p, lo(d, n)), Fits(d, c, v, F)
      PROVE  m < p /\ \E G \in Int : /\ Past(c, p, G) /\ Fresh(c, p, G)
                                     /\ Past(d, n, G) /\ Fresh(d, n, G)
                                     /\ Fits(d, c, v, G)
  <2>1. /\ p \in 1 .. Len(c) + 1
        /\ p <= Len(c) => hi(c, p) >= lo(d, n)
        /\ \A j \in 1 .. Len(c) : j < p => hi(c, j) < lo(d, n)
    BY <1>4 DEF FirstFrom
  <2>2. QED
    BY <1>4, <2>1, Skipped
<1>5. ASSUME FirstFrom(c, Len(c) + 1, lo(d, n)), Fits(d, c, v, F)
      PROVE  Misfit(d, c, v)
  <2>1. PICK G \in Int : Past(c, Len(c) + 1, G) /\ Past(d, n, G)
    BY <1>4, <1>5
  <2>2. Len(c) + 1 \in 1 .. Len(c) + 1 /\ ~ (Len(c) + 1 <= Len(c))
    BY <1>1
  <2>3. QED
    BY <2>1, <2>2, GapMisfit
<1>6. QED
  BY <1>3, <1>4, <1>5

\* The positions of a pass that goes on, and its frontier.
LEMMA FrontierFacts ==
  ASSUME ContainersInv, InclusionInv, state # "stop"
  PROVE  /\ Segments(lhs) /\ Segments(rhs) /\ values \in BOOLEAN
         /\ l \in 1 .. Len(lhs) + 1 /\ r \in 1 .. Len(rhs) + 1
         /\ l # Len(lhs) + 1 => l \in 1 .. Len(lhs)
         /\ r # Len(rhs) + 1 => r \in 1 .. Len(rhs)
         /\ result \in SUBSET {"subset", "superset"}
         /\ Len(lhs) \in Nat /\ Len(rhs) \in Nat
         /\ \E F \in Int : /\ Shape(lhs, rhs, l, r, prior_left, prior_right, state, F)
                           /\ Going(lhs, rhs, values, l, r, state, result, F)
<1>1. Segments(lhs) /\ Segments(rhs) /\ values \in BOOLEAN
  BY DEF ContainersInv
<1>2. Len(lhs) \in Nat /\ Len(rhs) \in Nat
  BY <1>1, SegmentEnds
<1>3. l \in 1 .. Len(lhs) + 1 /\ r \in 1 .. Len(rhs) + 1
  BY DEF InclusionInv, Within
<1>4. /\ l # Len(lhs) + 1 => l \in 1 .. Len(lhs)
      /\ r # Len(rhs) + 1 => r \in 1 .. Len(rhs)
  BY <1>2, <1>3
<1>5. QED
  BY <1>1, <1>2, <1>3, <1>4 DEF InclusionInv, Frontier

\* At the end of the left container: its inclusion is decided, and what is left of
\* the right one is not in it.
LEMMA InclusionLeftEnds ==
  ASSUME ContainersInv, InclusionInv, UNCHANGED <<lhs, rhs, values>>, state # "stop",
         l = Len(lhs) + 1, r # Len(rhs) + 1, HaltAt(result \cap {"subset"}, l, r)
  PROVE  InclusionInv'
<1>1. /\ Segments(lhs) /\ Segments(rhs) /\ values \in BOOLEAN
      /\ l \in 1 .. Len(lhs) + 1 /\ r \in 1 .. Len(rhs) + 1
      /\ r \in 1 .. Len(rhs)
      /\ result \in SUBSET {"subset", "superset"}
      /\ Len(lhs) \in Nat /\ Len(rhs) \in Nat
  BY FrontierFacts
<1>2. PICK F \in Int : /\ Shape(lhs, rhs, l, r, prior_left, prior_right, state, F)
                       /\ Going(lhs, rhs, values, l, r, state, result, F)
  BY FrontierFacts
<1>3. Past(lhs, l, F) /\ Past(rhs, r, F)
  BY <1>2 DEF Shape
<1>4. "subset" \in result <=> ~ Misfit(lhs, rhs, values)
  <2>1. ASSUME "subset" \in result
        PROVE  ~ Misfit(lhs, rhs, values)
    <3>1. Fits(lhs, rhs, values, F) /\ l > Len(lhs) /\ l \in Int
      BY <1>1, <1>2, <2>1 DEF Going
    <3>2. QED
      BY <1>1, <1>3, <3>1, AllFits
  <2>2. QED
    BY <2>1 DEF InclusionInv
<1>5. Misfit(rhs, lhs, values)
  <2>1. ~ (l <= Len(lhs))
    BY <1>1
  <2>2. QED
    BY <1>1, <1>3, <2>1, GapMisfit
<1> DEFINE res == result \cap {"subset"}
<1>6. /\ res \in SUBSET {"subset", "superset"}
      /\ "subset" \in res <=> ~ Misfit(lhs, rhs, values)
      /\ "superset" \in res <=> ~ Misfit(rhs, lhs, values)
  BY <1>4, <1>5
<1>7. l <= l /\ r <= r
  BY <1>1
<1> HIDE DEF res
<1>8. HaltAt(res, l, r)
  BY DEF res
<1>9. QED
  BY <1>1, <1>6, <1>7, <1>8, InclusionHalts

\* The same at the end of the right container.
LEMMA InclusionRightEnds ==
  ASSUME ContainersInv, InclusionInv, UNCHANGED <<lhs, rhs, values>>, state # "stop",
         l # Len(lhs) + 1, r = Len(rhs) + 1, HaltAt(result \cap {"superset"}, l, r)
  PROVE  InclusionInv'
<1>1. /\ Segments(lhs) /\ Segments(rhs) /\ values \in BOOLEAN
      /\ l \in 1 .. Len(lhs) + 1 /\ r \in 1 .. Len(rhs) + 1
      /\ l \in 1 .. Len(lhs)
      /\ result \in SUBSET {"subset", "superset"}
      /\ Len(lhs) \in Nat /\ Len(rhs) \in Nat
  BY FrontierFacts
<1>2. PICK F \in Int : /\ Shape(lhs, rhs, l, r, prior_left, prior_right, state, F)
                       /\ Going(lhs, rhs, values, l, r, state, result, F)
  BY FrontierFacts
<1>3. Past(lhs, l, F) /\ Past(rhs, r, F)
  BY <1>2 DEF Shape
<1>4. "superset" \in result <=> ~ Misfit(rhs, lhs, values)
  <2>1. ASSUME "superset" \in result
        PROVE  ~ Misfit(rhs, lhs, values)
    <3>1. Fits(rhs, lhs, values, F) /\ r > Len(rhs) /\ r \in Int
      BY <1>1, <1>2, <2>1 DEF Going
    <3>2. QED
      BY <1>1, <1>3, <3>1, AllFits
  <2>2. QED
    BY <2>1 DEF InclusionInv
<1>5. Misfit(lhs, rhs, values)
  <2>1. ~ (r <= Len(rhs))
    BY <1>1
  <2>2. QED
    BY <1>1, <1>3, <2>1, GapMisfit
<1> DEFINE res == result \cap {"superset"}
<1>6. /\ res \in SUBSET {"subset", "superset"}
      /\ "subset" \in res <=> ~ Misfit(lhs, rhs, values)
      /\ "superset" \in res <=> ~ Misfit(rhs, lhs, values)
  BY <1>4, <1>5
<1>7. l <= l /\ r <= r
  BY <1>1
<1> HIDE DEF res
<1>8. HaltAt(res, l, r)
  BY DEF res
<1>9. QED
  BY <1>1, <1>6, <1>7, <1>8, InclusionHalts

\* At the end of both what is set is proved.
LEMMA InclusionBothEnd ==
  ASSUME ContainersInv, InclusionInv, UNCHANGED <<lhs, rhs, values>>, state # "stop",
         l = Len(lhs) + 1, r = Len(rhs) + 1, HaltAt(result, l, r)
  PROVE  InclusionInv'
<1>1. /\ Segments(lhs) /\ Segments(rhs)
      /\ l \in 1 .. Len(lhs) + 1 /\ r \in 1 .. Len(rhs) + 1
      /\ result \in SUBSET {"subset", "superset"}
      /\ Len(lhs) \in Nat /\ Len(rhs) \in Nat
  BY FrontierFacts
<1>2. PICK F \in Int : /\ Shape(lhs, rhs, l, r, prior_left, prior_right, state, F)
                       /\ Going(lhs, rhs, values, l, r, state, result, F)
  BY FrontierFacts
<1>3. /\ Past(lhs, l, F) /\ Past(rhs, r, F)
      /\ l > Len(lhs) /\ l \in Int /\ r > Len(rhs) /\ r \in Int /\ l <= l /\ r <= r
  BY <1>1, <1>2 DEF Shape
<1>4. "subset" \in result <=> ~ Misfit(lhs, rhs, values)
  <2>1. ASSUME "subset" \in result
        PROVE  ~ Misfit(lhs, rhs, values)
    <3>1. Fits(lhs, rhs, values, F)
      BY <1>2, <2>1 DEF Going
    <3>2. QED
      BY <1>1, <1>3, <3>1, AllFits
  <2>2. QED
    BY <2>1 DEF InclusionInv
<1>5. "superset" \in result <=> ~ Misfit(rhs, lhs, values)
  <2>1. ASSUME "superset" \in result
        PROVE  ~ Misfit(rhs, lhs, values)
    <3>1. Fits(rhs, lhs, values, F)
      BY <1>2, <2>1 DEF Going
    <3>2. QED
      BY <1>1, <1>3, <3>1, AllFits
  <2>2. QED
    BY <2>1 DEF InclusionInv
<1>6. QED
  BY <1>1, <1>3, <1>4, <1>5, InclusionHalts

\* next_both keeps the invariant.
LEMMA InclusionBoth ==
  ASSUME ContainersInv, InclusionInv, UNCHANGED <<lhs, rhs, values>>, state = "nextboth", BothStep
  PROVE  InclusionInv'
<1>1. /\ state # "stop"
      /\ Segments(lhs) /\ Segments(rhs) /\ values \in BOOLEAN
      /\ l \in 1 .. Len(lhs) + 1 /\ r \in 1 .. Len(rhs) + 1
      /\ l # Len(lhs) + 1 => l \in 1 .. Len(lhs)
      /\ r # Len(rhs) + 1 => r \in 1 .. Len(rhs)
      /\ result \in SUBSET {"subset", "superset"}
      /\ Len(lhs) \in Nat /\ Len(rhs) \in Nat
  <2>1. state # "stop"
    OBVIOUS
  <2>2. QED
    BY <2>1, FrontierFacts
<1>2. PICK F \in Int : /\ Shape(lhs, rhs, l, r, prior_left, prior_right, state, F)
                       /\ Going(lhs, rhs, values, l, r, state, result, F)
  BY <1>1, FrontierFacts
<1>3. /\ Past(lhs, l, F) /\ Past(rhs, r, F) /\ Fresh(lhs, l, F) /\ Fresh(rhs, r, F)
      /\ prior_left \in 0 .. l - 1 /\ prior_right \in 0 .. r - 1
  BY <1>2 DEF Shape
<1>4. /\ "subset" \in result => Fits(lhs, rhs, values, F)
      /\ "superset" \in result => Fits(rhs, lhs, values, F)
      /\ "subset" \notin result => Misfit(lhs, rhs, values)
      /\ "superset" \notin result => Misfit(rhs, lhs, values)
  BY <1>2 DEF Going, InclusionInv
<1>5. l <= l /\ r <= r
  BY <1>1
<1>6. CASE l = Len(lhs) + 1 /\ r = Len(rhs) + 1 /\ HaltAt(result, l, r)
  BY <1>1, <1>6, InclusionBothEnd
<1>7. CASE l = Len(lhs) + 1 /\ r # Len(rhs) + 1 /\ HaltAt(result \cap {"subset"}, l, r)
  BY <1>1, <1>7, InclusionLeftEnds
<1>8. CASE l # Len(lhs) + 1 /\ r = Len(rhs) + 1 /\ HaltAt(result \cap {"superset"}, l, r)
  BY <1>1, <1>8, InclusionRightEnds
<1>9. CASE /\ l # Len(lhs) + 1 /\ r # Len(rhs) + 1
           /\ hi(lhs, l) < lo(rhs, r)
           /\ \/ HaltAt({}, l, r) /\ "superset" \notin result
              \/ HaltAt({}, l, r) /\ FirstFrom(lhs, Len(lhs) + 1, lo(rhs, r))
              \/ /\ "superset" \in result /\ result' = {"superset"}
                 /\ l' # Len(lhs) + 1 /\ FirstFrom(lhs, l', lo(rhs, r))
                 /\ UNCHANGED <<r, prior_left, prior_right, state>>
  <2>1. l \in 1 .. Len(lhs) /\ r \in 1 .. Len(rhs)
    BY <1>1, <1>9
  <2>2. /\ Misfit(lhs, rhs, values)
        /\ FirstFrom(lhs, Len(lhs) + 1, lo(rhs, r)) /\ Fits(rhs, lhs, values, F)
             => Misfit(rhs, lhs, values)
        /\ \A p : FirstFrom(lhs, p, lo(rhs, r)) /\ Fits(rhs, lhs, values, F) =>
             l < p /\ \E G \in Int : /\ Past(lhs, p, G) /\ Fresh(lhs, p, G)
                                     /\ Past(rhs, r, G) /\ Fresh(rhs, r, G)
                                     /\ Fits(rhs, lhs, values, G)
    BY <1>1, <1>3, <1>9, <2>1, Joins
  <2>3. CASE HaltAt({}, l, r) /\ "superset" \notin result
    BY <1>1, <1>4, <1>5, <2>2, <2>3, InclusionHalts
  <2>4. CASE HaltAt({}, l, r) /\ FirstFrom(lhs, Len(lhs) + 1, lo(rhs, r))
    <3>1. Misfit(rhs, lhs, values)
      BY <1>4, <2>2, <2>4
    <3>2. QED
      BY <1>1, <1>5, <2>2, <2>4, <3>1, InclusionHalts
  <2>5. CASE /\ "superset" \in result /\ result' = {"superset"}
             /\ l' # Len(lhs) + 1 /\ FirstFrom(lhs, l', lo(rhs, r))
             /\ UNCHANGED <<r, prior_left, prior_right, state>>
    <3>1. l < l' /\ \E G \in Int : /\ Past(lhs, l', G) /\ Fresh(lhs, l', G)
                                   /\ Past(rhs, r, G) /\ Fresh(rhs, r, G)
                                   /\ Fits(rhs, lhs, values, G)
      BY <1>4, <2>2, <2>5
    <3>2. PICK G \in Int : /\ Past(lhs, l', G) /\ Fresh(lhs, l', G)
                           /\ Past(rhs, r, G) /\ Fresh(rhs, r, G)
                           /\ Fits(rhs, lhs, values, G)
      BY <3>1
    <3>3. l' \in 1 .. Len(lhs) + 1
      BY <2>5 DEF FirstFrom
    <3>4. Shape(lhs, rhs, l', r', prior_left', prior_right', state', G)
      <4>1. /\ r' = r /\ prior_left' = prior_left /\ prior_right' = prior_right
            /\ state' = "nextboth"
        BY <2>5
      <4>2. \A p \in 1 .. Len(lhs) + 1 : l < p => prior_left \in 0 .. p - 1
        BY <1>1, <1>3
      <4>3. prior_left \in 0 .. l' - 1
        BY <3>1, <3>3, <4>2
      <4>4. QED
        BY <1>1, <1>3, <3>2, <3>3, <4>1, <4>3 DEF Shape
    <3>5. Going(lhs, rhs, values, l', r', state', result', G)
      BY <2>5, <3>2 DEF Going
    <3>6. QED
      BY <2>2, <2>5, <3>4, <3>5, InclusionGoesOn
  <2>6. QED
    BY <1>9, <2>3, <2>4, <2>5
<1>10. CASE /\ l # Len(lhs) + 1 /\ r # Len(rhs) + 1
            /\ hi(rhs, r) < lo(lhs, l)
            /\ \/ HaltAt({}, l, r) /\ "subset" \notin result
               \/ HaltAt({}, l, r) /\ FirstFrom(rhs, Len(rhs) + 1, lo(lhs, l))
               \/ /\ "subset" \in result /\ result' = {"subset"}
                  /\ r' # Len(rhs) + 1 /\ FirstFrom(rhs, r', lo(lhs, l))
                  /\ UNCHANGED <<l, prior_left, prior_right, state>>
  <2>1. l \in 1 .. Len(lhs) /\ r \in 1 .. Len(rhs)
    BY <1>1, <1>10
  <2>2. /\ Misfit(rhs, lhs, values)
        /\ FirstFrom(rhs, Len(rhs) + 1, lo(lhs, l)) /\ Fits(lhs, rhs, values, F)
             => Misfit(lhs, rhs, values)
        /\ \A p : FirstFrom(rhs, p, lo(lhs, l)) /\ Fits(lhs, rhs, values, F) =>
             r < p /\ \E G \in Int : /\ Past(rhs, p, G) /\ Fresh(rhs, p, G)
                                     /\ Past(lhs, l, G) /\ Fresh(lhs, l, G)
                                     /\ Fits(lhs, rhs, values, G)
    BY <1>1, <1>3, <1>10, <2>1, Joins
  <2>3. CASE HaltAt({}, l, r) /\ "subset" \notin result
    BY <1>1, <1>4, <1>5, <2>2, <2>3, InclusionHalts
  <2>4. CASE HaltAt({}, l, r) /\ FirstFrom(rhs, Len(rhs) + 1, lo(lhs, l))
    <3>1. Misfit(lhs, rhs, values)
      BY <1>4, <2>2, <2>4
    <3>2. QED
      BY <1>1, <1>5, <2>2, <2>4, <3>1, InclusionHalts
  <2>5. CASE /\ "subset" \in result /\ result' = {"subset"}
             /\ r' # Len(rhs) + 1 /\ FirstFrom(rhs, r', lo(lhs, l))
             /\ UNCHANGED <<l, prior_left, prior_right, state>>
    <3>1. r < r' /\ \E G \in Int : /\ Past(rhs, r', G) /\ Fresh(rhs, r', G)
                                   /\ Past(lhs, l, G) /\ Fresh(lhs, l, G)
                                   /\ Fits(lhs, rhs, values, G)
      BY <1>4, <2>2, <2>5
    <3>2. PICK G \in Int : /\ Past(rhs, r', G) /\ Fresh(rhs, r', G)
                           /\ Past(lhs, l, G) /\ Fresh(lhs, l, G)
                           /\ Fits(lhs, rhs, values, G)
      BY <3>1
    <3>3. r' \in 1 .. Len(rhs) + 1
      BY <2>5 DEF FirstFrom
    <3>4. Shape(lhs, rhs, l', r', prior_left', prior_right', state', G)
      <4>1. /\ l' = l /\ prior_left' = prior_left /\ prior_right' = prior_right
            /\ state' = "nextboth"
        BY <2>5
      <4>2. \A p \in 1 .. Len(rhs) + 1 : r < p => prior_right \in 0 .. p - 1
        BY <1>1, <1>3
      <4>3. prior_right \in 0 .. r' - 1
        BY <3>1, <3>3, <4>2
      <4>4. QED
        BY <1>1, <1>3, <3>2, <3>3, <4>1, <4>3 DEF Shape
    <3>5. Going(lhs, rhs, values, l', r', state', result', G)
      BY <2>5, <3>2 DEF Going
    <3>6. QED
      BY <2>2, <2>5, <3>4, <3>5, InclusionGoesOn
  <2>6. QED
    BY <1>10, <2>3, <2>4, <2>5
<1>11. CASE /\ l # Len(lhs) + 1 /\ r # Len(rhs) + 1
            /\ Restricts(lo(rhs, r) <= lo(lhs, l), lo(lhs, l) <= lo(rhs, r))
  <2>1. l \in 1 .. Len(lhs) /\ r \in 1 .. Len(rhs)
    BY <1>1, <1>11
  <2> DEFINE sub == lo(rhs, r) <= lo(lhs, l)
             sup == lo(lhs, l) <= lo(rhs, r)
  <2>2. /\ lo(lhs, l) \in Int /\ lo(rhs, r) \in Int
        /\ F < lo(lhs, l) /\ F < lo(rhs, r)
    <3>1. lo(lhs, l) \in Int /\ lo(rhs, r) \in Int
      BY <1>1, <2>1, SegmentEnds
    <3>2. l \in 1 .. Len(lhs) /\ l >= l /\ r \in 1 .. Len(rhs) /\ r >= r
      BY <1>5, <2>1
    <3>3. QED
      BY <1>3, <3>1, <3>2 DEF Fresh
  <2>3. ASSUME ~ sub
        PROVE  Misfit(lhs, rhs, values)
    <3>1. F + 1 < lo(rhs, r) /\ lo(lhs, l) < lo(rhs, r)
      BY <2>2, <2>3
    <3>2. QED
      BY <1>1, <1>3, <2>1, <3>1, GapMisfit
  <2>4. ASSUME ~ sup
        PROVE  Misfit(rhs, lhs, values)
    <3>1. F + 1 < lo(lhs, l) /\ lo(rhs, r) < lo(lhs, l)
      BY <2>2, <2>4
    <3>2. QED
      BY <1>1, <1>3, <2>1, <3>1, GapMisfit
  <2>5. sub \in BOOLEAN /\ sup \in BOOLEAN
    OBVIOUS
  <2>6. Restricts(sub, sup)
    BY <1>11
  <2>7. /\ "subset" \in result /\ sub => lo(rhs, r) <= F + 1 \/ lo(rhs, r) <= lo(lhs, l)
        /\ "superset" \in result /\ sup => lo(lhs, l) <= F + 1 \/ lo(lhs, l) <= lo(rhs, r)
    OBVIOUS
  <2> HIDE DEF sub, sup
  <2>8. QED
    BY <1>2, <2>1, <2>3, <2>4, <2>5, <2>6, <2>7, InclusionRestricts
<1>12. QED
  BY <1>6, <1>7, <1>8, <1>9, <1>10, <1>11 DEF BothStep

\* next_left keeps it: the gap before a fresh left segment counts when the right
\* one fills it.
LEMMA InclusionLeft ==
  ASSUME ContainersInv, InclusionInv, UNCHANGED <<lhs, rhs, values>>, state = "nextleft", LeftStep
  PROVE  InclusionInv'
<1>1. state # "stop"
  OBVIOUS
<1>2. /\ Segments(lhs) /\ Segments(rhs) /\ values \in BOOLEAN
      /\ l # Len(lhs) + 1 => l \in 1 .. Len(lhs)
      /\ r # Len(rhs) + 1 => r \in 1 .. Len(rhs)
      /\ r \in 1 .. Len(rhs) + 1
      /\ Len(lhs) \in Nat /\ Len(rhs) \in Nat
  BY <1>1, FrontierFacts
<1>3. PICK F \in Int : /\ Shape(lhs, rhs, l, r, prior_left, prior_right, state, F)
                       /\ Going(lhs, rhs, values, l, r, state, result, F)
  BY <1>1, FrontierFacts
<1>4. /\ Past(lhs, l, F) /\ Past(rhs, r, F) /\ hi(lhs, prior_left) = F /\ r <= Len(rhs)
      /\ prior_left = l - 1 /\ prior_left # 0 /\ prior_left \in 0 .. l - 1
      /\ "subset" \in result => lo(rhs, r) <= F
  BY <1>3 DEF Shape, Going
<1>5. r \in 1 .. Len(rhs)
  BY <1>2, <1>4
<1>6. CASE l = Len(lhs) + 1 /\ HaltAt(result \cap {"subset"}, l, r)
  <2>1. r # Len(rhs) + 1
    BY <1>2, <1>4
  <2>2. QED
    BY <1>1, <1>6, <2>1, InclusionLeftEnds
<1>7. CASE /\ l # Len(lhs) + 1
           /\ Restricts(TRUE, lo(lhs, l) = hi(lhs, prior_left) + 1 \/ lo(lhs, l) <= lo(rhs, r))
  <2>1. l \in 1 .. Len(lhs)
    BY <1>2, <1>7
  <2>2. lo(lhs, l) \in Int /\ lo(rhs, r) \in Int
    BY <1>2, <1>5, <2>1, SegmentEnds
  <2>3. F < lo(lhs, l)
    <3>1. prior_left \in 1 .. Len(lhs) /\ prior_left < l
      BY <1>2, <1>4, <2>1
    <3>2. QED
      BY <1>2, <1>4, <2>1, <3>1, SegmentEnds
  <2> DEFINE sup == lo(lhs, l) = hi(lhs, prior_left) + 1 \/ lo(lhs, l) <= lo(rhs, r)
  <2>4. ASSUME ~ sup
        PROVE  Misfit(rhs, lhs, values)
    <3>1. F + 1 < lo(lhs, l) /\ lo(rhs, r) < lo(lhs, l)
      BY <1>4, <2>2, <2>3, <2>4
    <3>2. l \in 1 .. Len(lhs) + 1
      BY <1>2, <2>1
    <3>3. QED
      BY <1>2, <1>4, <1>5, <2>1, <3>1, <3>2, GapMisfit
  <2>5. sup \in BOOLEAN /\ Restricts(TRUE, sup)
    BY <1>7
  <2>6. "superset" \in result /\ sup => lo(lhs, l) <= F + 1 \/ lo(lhs, l) <= lo(rhs, r)
    BY <1>4, <2>2
  <2>7. "subset" \in result /\ TRUE => lo(rhs, r) <= F + 1 \/ lo(rhs, r) <= lo(lhs, l)
    BY <1>4, <2>2
  <2>8. ~ TRUE => Misfit(lhs, rhs, values)
    OBVIOUS
  <2> HIDE DEF sup
  <2>9. QED
    BY <1>3, <1>5, <2>1, <2>4, <2>5, <2>6, <2>7, <2>8, InclusionRestricts
<1>8. QED
  BY <1>6, <1>7 DEF LeftStep

\* next_right keeps it.
LEMMA InclusionRight ==
  ASSUME ContainersInv, InclusionInv, UNCHANGED <<lhs, rhs, values>>, state = "nextright", RightStep
  PROVE  InclusionInv'
<1>1. state # "stop"
  OBVIOUS
<1>2. /\ Segments(lhs) /\ Segments(rhs) /\ values \in BOOLEAN
      /\ l # Len(lhs) + 1 => l \in 1 .. Len(lhs)
      /\ r # Len(rhs) + 1 => r \in 1 .. Len(rhs)
      /\ l \in 1 .. Len(lhs) + 1
      /\ Len(lhs) \in Nat /\ Len(rhs) \in Nat
  BY <1>1, FrontierFacts
<1>3. PICK F \in Int : /\ Shape(lhs, rhs, l, r, prior_left, prior_right, state, F)
                       /\ Going(lhs, rhs, values, l, r, state, result, F)
  BY <1>1, FrontierFacts
<1>4. /\ Past(lhs, l, F) /\ Past(rhs, r, F) /\ hi(rhs, prior_right) = F /\ l <= Len(lhs)
      /\ prior_right = r - 1 /\ prior_right # 0 /\ prior_right \in 0 .. r - 1
      /\ "superset" \in result => lo(lhs, l) <= F
  BY <1>3 DEF Shape, Going
<1>5. l \in 1 .. Len(lhs)
  BY <1>2, <1>4
<1>6. CASE r = Len(rhs) + 1 /\ HaltAt(result \cap {"superset"}, l, r)
  <2>1. l # Len(lhs) + 1
    BY <1>2, <1>4
  <2>2. QED
    BY <1>1, <1>6, <2>1, InclusionRightEnds
<1>7. CASE /\ r # Len(rhs) + 1
           /\ Restricts(lo(rhs, r) = hi(rhs, prior_right) + 1 \/ lo(rhs, r) <= lo(lhs, l), TRUE)
  <2>1. r \in 1 .. Len(rhs)
    BY <1>2, <1>7
  <2>2. lo(lhs, l) \in Int /\ lo(rhs, r) \in Int
    BY <1>2, <1>5, <2>1, SegmentEnds
  <2>3. F < lo(rhs, r)
    <3>1. prior_right \in 1 .. Len(rhs) /\ prior_right < r
      BY <1>2, <1>4, <2>1
    <3>2. QED
      BY <1>2, <1>4, <2>1, <3>1, SegmentEnds
  <2> DEFINE sub == lo(rhs, r) = hi(rhs, prior_right) + 1 \/ lo(rhs, r) <= lo(lhs, l)
  <2>4. ASSUME ~ sub
        PROVE  Misfit(lhs, rhs, values)
    <3>1. F + 1 < lo(rhs, r) /\ lo(lhs, l) < lo(rhs, r)
      BY <1>4, <2>2, <2>3, <2>4
    <3>2. r \in 1 .. Len(rhs) + 1
      BY <1>2, <2>1
    <3>3. QED
      BY <1>2, <1>4, <1>5, <2>1, <3>1, <3>2, GapMisfit
  <2>5. sub \in BOOLEAN /\ Restricts(sub, TRUE)
    BY <1>7
  <2>6. "subset" \in result /\ sub => lo(rhs, r) <= F + 1 \/ lo(rhs, r) <= lo(lhs, l)
    BY <1>4, <2>2
  <2>7. "superset" \in result /\ TRUE => lo(lhs, l) <= F + 1 \/ lo(lhs, l) <= lo(rhs, r)
    BY <1>4, <2>2
  <2>8. ~ TRUE => Misfit(rhs, lhs, values)
    OBVIOUS
  <2> HIDE DEF sub
  <2>9. QED
    BY <1>3, <1>5, <2>1, <2>4, <2>5, <2>6, <2>7, <2>8, InclusionRestricts
<1>8. QED
  BY <1>6, <1>7 DEF RightStep

-----------------------------------------------------------------------------
(***************************************************************************)
(* Containers of single elements.                                          *)
(***************************************************************************)

\* The ends of a segment are the same in the instance ByElements.
LEMMA ByElementsAlgebra ==
  ASSUME NEW x
  PROVE  ByElements!first(x) = first(x)
BY DEF ByElements!first, first, ByElements!is_left_closed, is_left_closed,
       ByElements!RightOpen, ByElements!Closed, RightOpen, Closed

\* A segment of a container of single elements has one key.
LEMMA SingleEnds ==
  ASSUME NEW c, Segments(c), Single(c), NEW k \in 1 .. Len(c)
  PROVE  hi(c, k) = lo(c, k) /\ lo(c, k) \in Int
<1>1. k \in DOMAIN c
  BY DEF Segments
<1>2. QED
  BY <1>1, SegmentEnds DEF Single, hi, lo

\* lower_bound by a key.
LEMMA ElementsLowerBound ==
  ASSUME NEW c, Segments(c), Single(c), NEW x \in Int
  PROVE  FirstFrom(c, ByElements!lower_bound(c, x), x)
<1>1. Len(c) \in Nat /\ DOMAIN c = 1 .. Len(c)
  BY SegmentEnds
<1> DEFINE K == {k \in 1 .. Len(c) : ByElements!first(c[k].itv) >= x}
           p == Min(K \cup {Len(c) + 1})
<1>2. ByElements!lower_bound(c, x) = p
  BY <1>1 DEF ByElements!lower_bound, ByElements!Min, Min
<1>3. \A k \in 1 .. Len(c) : k \in K <=> hi(c, k) >= x
  BY SingleEnds, ByElementsAlgebra DEF lo
<1>4. K \in SUBSET (1 .. Len(c))
  OBVIOUS
<1> HIDE DEF K
<1>5. /\ p \in 1 .. Len(c) + 1
      /\ p <= Len(c) => p \in K
      /\ \A j \in 1 .. Len(c) : j < p => j \notin K
  BY <1>1, <1>4, FirstOf
<1> HIDE DEF p
<1>6. \A j \in 1 .. Len(c) : j < p => hi(c, j) < x
  BY <1>1, <1>3, <1>5, SegmentEnds
<1>7. p <= Len(c) => hi(c, p) >= x
  BY <1>3, <1>5
<1>8. QED
  BY <1>2, <1>5, <1>6, <1>7 DEF FirstFrom

\* Elements at m and n with one key restrict the result by their values, and both
\* are passed.
LEMMA ElementsMatch ==
  ASSUME Segments(lhs), Segments(rhs), Single(lhs), Single(rhs), values \in BOOLEAN,
         NEW m \in 1 .. Len(lhs), NEW n \in 1 .. Len(rhs), lo(lhs, m) = lo(rhs, n),
         NEW res \in SUBSET {"subset", "superset"}, ByElements!Match(res, m, n)
  PROVE  \E now \in SUBSET {"subset", "superset"} :
           /\ "subset" \in now <=> "subset" \in res /\ Alike(lhs, rhs, values, m, n)
           /\ "superset" \in now <=> "superset" \in res /\ Alike(rhs, lhs, values, n, m)
           /\ \/ now = {} /\ HaltAt({}, m, n)
              \/ /\ now # {} /\ result' = now
                 /\ Move(lhs, rhs, m, n, prior_left, prior_right,
                         l', r', prior_left', prior_right', state')
<1>1. /\ hi(lhs, m) = lo(lhs, m) /\ hi(rhs, n) = lo(rhs, n)
      /\ lo(lhs, m) \in Int /\ lo(rhs, n) \in Int
  BY SingleEnds
<1>2. /\ Alike(lhs, rhs, values, m, n) <=> (values => lhs[m].val \subseteq rhs[n].val)
      /\ Alike(rhs, lhs, values, n, m) <=> (values => rhs[n].val \subseteq lhs[m].val)
  BY <1>1 DEF Alike
<1>3. /\ ByElements!co_compare(m, n) \in SUBSET {"subset", "superset"}
      /\ "subset" \in ByElements!co_compare(m, n) <=> (values => lhs[m].val \subseteq rhs[n].val)
      /\ "superset" \in ByElements!co_compare(m, n) <=> (values => rhs[n].val \subseteq lhs[m].val)
  BY DEF ByElements!co_compare, ByElements!equal, ByElements!subset, ByElements!superset
<1> DEFINE now == res \cap ByElements!co_compare(m, n)
<1>4. /\ result' = now
      /\ IF now = {}
         THEN state' = "stop" /\ l' = m /\ r' = n
         ELSE state' = "nextboth" /\ l' = m + 1 /\ r' = n + 1
      /\ UNCHANGED <<prior_left, prior_right>>
  BY DEF ByElements!Match, ByElements!unrelated
<1>5. /\ now \in SUBSET {"subset", "superset"}
      /\ "subset" \in now <=> "subset" \in res /\ Alike(lhs, rhs, values, m, n)
      /\ "superset" \in now <=> "superset" \in res /\ Alike(rhs, lhs, values, n, m)
  BY <1>2, <1>3
<1> HIDE DEF now
<1>6. CASE now = {}
  <2>1. HaltAt({}, m, n)
    BY <1>4, <1>6 DEF HaltAt
  <2>2. QED
    BY <1>5, <1>6, <2>1
<1>7. CASE now # {}
  <2>1. Move(lhs, rhs, m, n, prior_left, prior_right, l', r', prior_left', prior_right', state')
    BY <1>1, <1>4, <1>7 DEF Move
  <2>2. QED
    BY <1>4, <1>5, <1>7, <2>1
<1>8. QED
  BY <1>6, <1>7

\* So a match keeps the invariant, at any positions that the frontier has reached.
LEMMA InclusionMatches ==
  ASSUME ContainersInv, by = "elements", InclusionInv, UNCHANGED <<lhs, rhs, values>>,
         NEW m \in 1 .. Len(lhs), NEW n \in 1 .. Len(rhs), l <= m, r <= n,
         lo(lhs, m) = lo(rhs, n),
         NEW F \in Int, Past(lhs, m, F), Past(rhs, n, F), Fresh(lhs, m, F), Fresh(rhs, n, F),
         NEW res \in SUBSET {"subset", "superset"}, ByElements!Match(res, m, n),
         "subset" \in res => Fits(lhs, rhs, values, F),
         "superset" \in res => Fits(rhs, lhs, values, F),
         "subset" \notin res => Misfit(lhs, rhs, values),
         "superset" \notin res => Misfit(rhs, lhs, values)
  PROVE  InclusionInv'
<1>1. Segments(lhs) /\ Segments(rhs) /\ Single(lhs) /\ Single(rhs) /\ values \in BOOLEAN
  BY DEF ContainersInv
<1>2. PICK now \in SUBSET {"subset", "superset"} :
        /\ "subset" \in now <=> "subset" \in res /\ Alike(lhs, rhs, values, m, n)
        /\ "superset" \in now <=> "superset" \in res /\ Alike(rhs, lhs, values, n, m)
        /\ \/ now = {} /\ HaltAt({}, m, n)
           \/ /\ now # {} /\ result' = now
              /\ Move(lhs, rhs, m, n, prior_left, prior_right,
                      l', r', prior_left', prior_right', state')
  BY <1>1, ElementsMatch
<1>3. "subset" \notin now => Misfit(lhs, rhs, values)
  <2>1. ~ Alike(lhs, rhs, values, m, n) => Misfit(lhs, rhs, values)
    BY <1>1, ValueMisfit
  <2>2. QED
    BY <1>2, <2>1
<1>4. "superset" \notin now => Misfit(rhs, lhs, values)
  <2>1. ~ Alike(rhs, lhs, values, n, m) => Misfit(rhs, lhs, values)
    BY <1>1, ValueMisfit
  <2>2. QED
    BY <1>2, <2>1
<1>5. CASE now = {} /\ HaltAt({}, m, n)
  <2>1. m \in 1 .. Len(lhs) + 1 /\ n \in 1 .. Len(rhs) + 1
    BY <1>1, SegmentEnds
  <2>2. QED
    BY <1>3, <1>4, <1>5, <2>1, InclusionHalts
<1>6. CASE /\ now # {} /\ result' = now
           /\ Move(lhs, rhs, m, n, prior_left, prior_right,
                   l', r', prior_left', prior_right', state')
  <2>1. prior_left \in 0 .. m - 1 /\ prior_right \in 0 .. n - 1
    <3>1. /\ l \in 1 .. Len(lhs) + 1 /\ r \in 1 .. Len(rhs) + 1
          /\ prior_left \in 0 .. l - 1 /\ prior_right \in 0 .. r - 1
      BY DEF InclusionInv, Within
    <3>2. QED
      BY <3>1
  <2>2. lo(lhs, m) <= lo(rhs, n) /\ lo(rhs, n) <= lo(lhs, m)
    BY <1>1, SingleEnds
  <2>3. "subset" \in now => Fits(lhs, rhs, values, F) /\ Agree(lhs, rhs, values, m, n, F)
    BY <1>2, <2>2 DEF Agree
  <2>4. "superset" \in now => Fits(rhs, lhs, values, F) /\ Agree(rhs, lhs, values, n, m, F)
    BY <1>2, <2>2 DEF Agree
  <2>5. PICK G \in Int :
          /\ Shape(lhs, rhs, l', r', prior_left', prior_right', state', G)
          /\ Going(lhs, rhs, values, l', r', state', now, G)
    BY <1>1, <1>6, <2>1, <2>3, <2>4, MoveGoing
  <2>6. QED
    BY <1>3, <1>4, <1>6, <2>5, InclusionGoesOn
<1>7. QED
  BY <1>2, <1>5, <1>6

\* A search that finds nothing, or a later key, shows that d is not included in c.
LEMMA SearchMisses ==
  ASSUME NEW c, NEW d, Segments(c), Segments(d), NEW v, NEW F \in Int,
         NEW m \in 1 .. Len(c), NEW n \in 1 .. Len(d),
         Past(c, m, F), Fresh(c, m, F), Past(d, n, F), Fresh(d, n, F), hi(c, m) < lo(d, n),
         NEW p, FirstFrom(c, p, lo(d, n)), p <= Len(c) => lo(d, n) < lo(c, p),
         Fits(d, c, v, F)
  PROVE  Misfit(d, c, v)
<1>1. PICK G \in Int : /\ Past(c, p, G) /\ Fresh(c, p, G)
                       /\ Past(d, n, G) /\ Fresh(d, n, G)
                       /\ Fits(d, c, v, G)
  BY Joins
<1>2. p \in 1 .. Len(c) + 1 /\ Len(c) \in Nat /\ lo(d, n) \in Int
  BY SegmentEnds DEF FirstFrom
<1>3. G < lo(d, n)
  <2>1. n \in 1 .. Len(d) /\ n >= n
    OBVIOUS
  <2>2. QED
    BY <1>1, <1>2, <2>1 DEF Fresh
<1>4. ASSUME p <= Len(c)
      PROVE  G + 1 < lo(c, p) /\ lo(d, n) < lo(c, p)
  <2>1. p \in 1 .. Len(c)
    BY <1>2, <1>4
  <2>2. lo(c, p) \in Int
    BY <2>1, SegmentEnds
  <2>3. QED
    BY <1>2, <1>3, <1>4, <2>2
<1>5. QED
  BY <1>1, <1>2, <1>4, GapMisfit

\* The search in the left container keeps the invariant.
LEMMA InclusionSearchLeft ==
  ASSUME ContainersInv, by = "elements", InclusionInv, UNCHANGED <<lhs, rhs, values>>,
         state = "nextboth", l \in 1 .. Len(lhs), r \in 1 .. Len(rhs),
         lo(lhs, l) < lo(rhs, r), ByElements!SearchLeft(result \cap {"superset"})
  PROVE  InclusionInv'
<1>1. /\ state # "stop"
      /\ Segments(lhs) /\ Segments(rhs) /\ Single(lhs) /\ Single(rhs)
      /\ result \in SUBSET {"subset", "superset"}
  BY DEF ContainersInv, InclusionInv
<1>2. PICK F \in Int : /\ Shape(lhs, rhs, l, r, prior_left, prior_right, state, F)
                       /\ Going(lhs, rhs, values, l, r, state, result, F)
  BY <1>1, FrontierFacts
<1>3. Past(lhs, l, F) /\ Fresh(lhs, l, F) /\ Past(rhs, r, F) /\ Fresh(rhs, r, F)
  BY <1>2 DEF Shape
<1>4. /\ "superset" \in result => Fits(rhs, lhs, values, F)
      /\ "superset" \notin result => Misfit(rhs, lhs, values)
  BY <1>2 DEF Going, InclusionInv
<1>5. hi(lhs, l) < lo(rhs, r) /\ lo(rhs, r) \in Int
  BY <1>1, SingleEnds
<1>6. Misfit(lhs, rhs, values)
  BY <1>1, <1>3, <1>5, Joins
<1>7. l \in 1 .. Len(lhs) + 1 /\ r \in 1 .. Len(rhs) + 1 /\ l <= l /\ r <= r /\ Len(lhs) \in Nat
  BY <1>1, SegmentEnds
<1> DEFINE joint == ByElements!lower_bound(lhs, lo(rhs, r))
           res == result \cap {"superset"}
           found == joint # Len(lhs) + 1 /\ lo(lhs, joint) = lo(rhs, r)
<1>8. FirstFrom(lhs, joint, lo(rhs, r))
  BY <1>1, <1>5, ElementsLowerBound
<1>9. \/ (res = {} \/ ~ found) /\ ByElements!Stop({})
      \/ res # {} /\ found /\ ByElements!Match(res, joint, r)
  <2>1. ByElements!RightKey = lo(rhs, r) /\ ByElements!first(lhs[joint].itv) = lo(lhs, joint)
    BY ByElementsAlgebra DEF ByElements!RightKey, ByElements!RightItv, lo
  <2>2. QED
    BY <2>1 DEF ByElements!SearchLeft, ByElements!unrelated
<1>10. /\ joint \in 1 .. Len(lhs) + 1
       /\ joint <= Len(lhs) => joint \in 1 .. Len(lhs) /\ hi(lhs, joint) = lo(lhs, joint)
                              /\ lo(lhs, joint) \in Int /\ lo(lhs, joint) >= lo(rhs, r)
  <2>1. joint \in 1 .. Len(lhs) + 1 /\ (joint <= Len(lhs) => hi(lhs, joint) >= lo(rhs, r))
    BY <1>8 DEF FirstFrom
  <2>2. joint <= Len(lhs) => joint \in 1 .. Len(lhs)
    BY <1>7, <2>1
  <2>3. QED
    BY <1>1, <2>1, <2>2, SingleEnds
<1>11. /\ res \in SUBSET {"subset", "superset"} /\ "subset" \notin res
       /\ "superset" \in res <=> "superset" \in result
       /\ res = {} => "superset" \notin result
  BY <1>1
<1> HIDE DEF joint, res
<1>12. CASE (res = {} \/ ~ found) /\ ByElements!Stop({})
  <2>1. HaltAt({}, l, r)
    BY <1>12 DEF ByElements!Stop, ByElements!iterators, HaltAt
  <2>2. Misfit(rhs, lhs, values)
    <3>1. CASE "superset" \notin result
      BY <1>4, <3>1
    <3>2. CASE "superset" \in result
      <4>1. joint <= Len(lhs) => lo(rhs, r) < lo(lhs, joint)
        BY <1>5, <1>7, <1>10, <1>11, <1>12, <3>2
      <4>2. QED
        BY <1>1, <1>3, <1>4, <1>5, <1>8, <3>2, <4>1, SearchMisses
    <3>3. QED
      BY <3>1, <3>2
  <2>3. QED
    BY <1>6, <1>7, <2>1, <2>2, InclusionHalts
<1>13. CASE res # {} /\ found /\ ByElements!Match(res, joint, r)
  <2>1. "superset" \in result /\ Fits(rhs, lhs, values, F)
    BY <1>4, <1>11, <1>13
  <2>2. joint \in 1 .. Len(lhs) /\ lo(lhs, joint) = lo(rhs, r)
    BY <1>7, <1>10, <1>13
  <2>3. l < joint /\ \E G \in Int : /\ Past(lhs, joint, G) /\ Fresh(lhs, joint, G)
                                  /\ Past(rhs, r, G) /\ Fresh(rhs, r, G)
                                  /\ Fits(rhs, lhs, values, G)
    BY <1>1, <1>3, <1>5, <1>8, <2>1, Joins
  <2>4. PICK G \in Int : /\ Past(lhs, joint, G) /\ Fresh(lhs, joint, G)
                         /\ Past(rhs, r, G) /\ Fresh(rhs, r, G)
                         /\ Fits(rhs, lhs, values, G)
    BY <2>3
  <2>5. l <= joint
    BY <1>7, <2>2, <2>3
  <2>6. ByElements!Match(res, joint, r)
    BY <1>13
  <2>7. "subset" \in res => Fits(lhs, rhs, values, G)
    BY <1>11
  <2>8. QED
    BY <1>6, <1>7, <1>11, <2>1, <2>2, <2>4, <2>5, <2>6, <2>7, InclusionMatches
<1>14. QED
  BY <1>9, <1>12, <1>13

\* The search in the right container keeps the invariant.
LEMMA InclusionSearchRight ==
  ASSUME ContainersInv, by = "elements", InclusionInv, UNCHANGED <<lhs, rhs, values>>,
         state = "nextboth", l \in 1 .. Len(lhs), r \in 1 .. Len(rhs),
         lo(rhs, r) < lo(lhs, l), ByElements!SearchRight(result \cap {"subset"})
  PROVE  InclusionInv'
<1>1. /\ state # "stop"
      /\ Segments(lhs) /\ Segments(rhs) /\ Single(lhs) /\ Single(rhs)
      /\ result \in SUBSET {"subset", "superset"}
  BY DEF ContainersInv, InclusionInv
<1>2. PICK F \in Int : /\ Shape(lhs, rhs, l, r, prior_left, prior_right, state, F)
                       /\ Going(lhs, rhs, values, l, r, state, result, F)
  BY <1>1, FrontierFacts
<1>3. Past(rhs, r, F) /\ Fresh(rhs, r, F) /\ Past(lhs, l, F) /\ Fresh(lhs, l, F)
  BY <1>2 DEF Shape
<1>4. /\ "subset" \in result => Fits(lhs, rhs, values, F)
      /\ "subset" \notin result => Misfit(lhs, rhs, values)
  BY <1>2 DEF Going, InclusionInv
<1>5. hi(rhs, r) < lo(lhs, l) /\ lo(lhs, l) \in Int
  BY <1>1, SingleEnds
<1>6. Misfit(rhs, lhs, values)
  BY <1>1, <1>3, <1>5, Joins
<1>7. l \in 1 .. Len(lhs) + 1 /\ r \in 1 .. Len(rhs) + 1 /\ l <= l /\ r <= r /\ Len(rhs) \in Nat
  BY <1>1, SegmentEnds
<1> DEFINE joint == ByElements!lower_bound(rhs, lo(lhs, l))
           res == result \cap {"subset"}
           found == joint # Len(rhs) + 1 /\ lo(rhs, joint) = lo(lhs, l)
<1>8. FirstFrom(rhs, joint, lo(lhs, l))
  BY <1>1, <1>5, ElementsLowerBound
<1>9. \/ (res = {} \/ ~ found) /\ ByElements!Stop({})
      \/ res # {} /\ found /\ ByElements!Match(res, l, joint)
  <2>1. ByElements!LeftKey = lo(lhs, l) /\ ByElements!first(rhs[joint].itv) = lo(rhs, joint)
    BY ByElementsAlgebra DEF ByElements!LeftKey, ByElements!LeftItv, lo
  <2>2. QED
    BY <2>1 DEF ByElements!SearchRight, ByElements!unrelated
<1>10. /\ joint \in 1 .. Len(rhs) + 1
       /\ joint <= Len(rhs) => joint \in 1 .. Len(rhs) /\ hi(rhs, joint) = lo(rhs, joint)
                              /\ lo(rhs, joint) \in Int /\ lo(rhs, joint) >= lo(lhs, l)
  <2>1. joint \in 1 .. Len(rhs) + 1 /\ (joint <= Len(rhs) => hi(rhs, joint) >= lo(lhs, l))
    BY <1>8 DEF FirstFrom
  <2>2. joint <= Len(rhs) => joint \in 1 .. Len(rhs)
    BY <1>7, <2>1
  <2>3. QED
    BY <1>1, <2>1, <2>2, SingleEnds
<1>11. /\ res \in SUBSET {"subset", "superset"} /\ "superset" \notin res
       /\ "subset" \in res <=> "subset" \in result
       /\ res = {} => "subset" \notin result
  BY <1>1
<1> HIDE DEF joint, res
<1>12. CASE (res = {} \/ ~ found) /\ ByElements!Stop({})
  <2>1. HaltAt({}, l, r)
    BY <1>12 DEF ByElements!Stop, ByElements!iterators, HaltAt
  <2>2. Misfit(lhs, rhs, values)
    <3>1. CASE "subset" \notin result
      BY <1>4, <3>1
    <3>2. CASE "subset" \in result
      <4>1. joint <= Len(rhs) => lo(lhs, l) < lo(rhs, joint)
        BY <1>5, <1>7, <1>10, <1>11, <1>12, <3>2
      <4>2. QED
        BY <1>1, <1>3, <1>4, <1>5, <1>8, <3>2, <4>1, SearchMisses
    <3>3. QED
      BY <3>1, <3>2
  <2>3. QED
    BY <1>6, <1>7, <2>1, <2>2, InclusionHalts
<1>13. CASE res # {} /\ found /\ ByElements!Match(res, l, joint)
  <2>1. "subset" \in result /\ Fits(lhs, rhs, values, F)
    BY <1>4, <1>11, <1>13
  <2>2. joint \in 1 .. Len(rhs) /\ lo(rhs, joint) = lo(lhs, l)
    BY <1>7, <1>10, <1>13
  <2>3. r < joint /\ \E G \in Int : /\ Past(rhs, joint, G) /\ Fresh(rhs, joint, G)
                                  /\ Past(lhs, l, G) /\ Fresh(lhs, l, G)
                                  /\ Fits(lhs, rhs, values, G)
    BY <1>1, <1>3, <1>5, <1>8, <2>1, Joins
  <2>4. PICK G \in Int : /\ Past(rhs, joint, G) /\ Fresh(rhs, joint, G)
                         /\ Past(lhs, l, G) /\ Fresh(lhs, l, G)
                         /\ Fits(lhs, rhs, values, G)
    BY <2>3
  <2>5. r <= joint
    BY <1>7, <2>2, <2>3
  <2>6. ByElements!Match(res, l, joint)
    BY <1>13
  <2>7. "superset" \in res => Fits(rhs, lhs, values, G)
    BY <1>11
  <2>8. QED
    BY <1>6, <1>7, <1>11, <2>1, <2>2, <2>4, <2>5, <2>6, <2>7, InclusionMatches
<1>14. QED
  BY <1>9, <1>12, <1>13

\* next_both of the loop over elements keeps the invariant.
LEMMA InclusionElements ==
  ASSUME ContainersInv, by = "elements", InclusionInv, ByElements!next_both
  PROVE  InclusionInv'
<1>1. /\ state = "nextboth" /\ state # "stop" /\ UNCHANGED <<lhs, rhs, values>>
      /\ Segments(lhs) /\ Segments(rhs)
      /\ result \in SUBSET {"subset", "superset"}
  BY DEF ContainersInv, InclusionInv, ByElements!next_both, ByElements!containers
<1>2. /\ l # Len(lhs) + 1 => l \in 1 .. Len(lhs)
      /\ r # Len(rhs) + 1 => r \in 1 .. Len(rhs)
      /\ l \in 1 .. Len(lhs) + 1 /\ r \in 1 .. Len(rhs) + 1
      /\ l <= l /\ r <= r
  <2>1. l \in 1 .. Len(lhs) + 1 /\ r \in 1 .. Len(rhs) + 1
    BY DEF InclusionInv, Within
  <2>2. QED
    BY <1>1, <2>1, FrontierFacts
<1>3. /\ ByElements!subset = {"subset"} /\ ByElements!superset = {"superset"}
      /\ ByElements!LeftEnd <=> l = Len(lhs) + 1
      /\ ByElements!RightEnd <=> r = Len(rhs) + 1
      /\ ByElements!LeftKey = lo(lhs, l) /\ ByElements!RightKey = lo(rhs, r)
  BY ByElementsAlgebra DEF ByElements!subset, ByElements!superset, ByElements!LeftEnd,
     ByElements!RightEnd, ByElements!LeftKey, ByElements!RightKey, ByElements!LeftItv,
     ByElements!RightItv, lo
<1>4. \A res : ByElements!Stop(res) => HaltAt(res, l, r)
  BY DEF ByElements!Stop, ByElements!iterators, HaltAt
<1>5. \/ l = Len(lhs) + 1 /\ r = Len(rhs) + 1 /\ HaltAt(result, l, r)
      \/ l = Len(lhs) + 1 /\ r # Len(rhs) + 1 /\ HaltAt(result \cap {"subset"}, l, r)
      \/ l # Len(lhs) + 1 /\ r = Len(rhs) + 1 /\ HaltAt(result \cap {"superset"}, l, r)
      \/ /\ l # Len(lhs) + 1 /\ r # Len(rhs) + 1
         /\ lo(lhs, l) < lo(rhs, r) /\ ByElements!SearchLeft(result \cap {"superset"})
      \/ /\ l # Len(lhs) + 1 /\ r # Len(rhs) + 1
         /\ lo(rhs, r) < lo(lhs, l) /\ ByElements!SearchRight(result \cap {"subset"})
      \/ /\ l # Len(lhs) + 1 /\ r # Len(rhs) + 1
         /\ lo(lhs, l) = lo(rhs, r) /\ ByElements!Match(result, l, r)
  BY <1>3, <1>4 DEF ByElements!next_both
<1>6. CASE l = Len(lhs) + 1 /\ r = Len(rhs) + 1 /\ HaltAt(result, l, r)
  BY <1>1, <1>6, InclusionBothEnd
<1>7. CASE l = Len(lhs) + 1 /\ r # Len(rhs) + 1 /\ HaltAt(result \cap {"subset"}, l, r)
  BY <1>1, <1>7, InclusionLeftEnds
<1>8. CASE l # Len(lhs) + 1 /\ r = Len(rhs) + 1 /\ HaltAt(result \cap {"superset"}, l, r)
  BY <1>1, <1>8, InclusionRightEnds
<1>9. CASE /\ l # Len(lhs) + 1 /\ r # Len(rhs) + 1
           /\ lo(lhs, l) < lo(rhs, r) /\ ByElements!SearchLeft(result \cap {"superset"})
  BY <1>1, <1>2, <1>9, InclusionSearchLeft
<1>10. CASE /\ l # Len(lhs) + 1 /\ r # Len(rhs) + 1
            /\ lo(rhs, r) < lo(lhs, l) /\ ByElements!SearchRight(result \cap {"subset"})
  BY <1>1, <1>2, <1>10, InclusionSearchRight
<1>11. CASE /\ l # Len(lhs) + 1 /\ r # Len(rhs) + 1
            /\ lo(lhs, l) = lo(rhs, r) /\ ByElements!Match(result, l, r)
  <2>1. PICK F \in Int : /\ Shape(lhs, rhs, l, r, prior_left, prior_right, state, F)
                         /\ Going(lhs, rhs, values, l, r, state, result, F)
    BY <1>1, FrontierFacts
  <2>2. Past(lhs, l, F) /\ Past(rhs, r, F) /\ Fresh(lhs, l, F) /\ Fresh(rhs, r, F)
    BY <1>1, <2>1 DEF Shape
  <2>3. /\ "subset" \in result => Fits(lhs, rhs, values, F)
        /\ "superset" \in result => Fits(rhs, lhs, values, F)
        /\ "subset" \notin result => Misfit(lhs, rhs, values)
        /\ "superset" \notin result => Misfit(rhs, lhs, values)
    BY <2>1 DEF Going, InclusionInv
  <2>4. QED
    BY <1>1, <1>2, <1>11, <2>2, <2>3, InclusionMatches
<1>12. QED
  BY <1>5, <1>6, <1>7, <1>8, <1>9, <1>10, <1>11

\* The loop over segments keeps the invariant.
LEMMA InclusionSegments ==
  ASSUME ContainersInv, InclusionInv, BySegments!Next
  PROVE  InclusionInv'
<1>1. UNCHANGED <<lhs, rhs, values>> /\ state # "stop"
  BY DEF BySegments!Next, BySegments!next_both, BySegments!next_left, BySegments!next_right,
     BySegments!containers
<1>2. /\ Segments(lhs) /\ Segments(rhs) /\ values \in BOOLEAN
      /\ l \in 1 .. Len(lhs) + 1 /\ r \in 1 .. Len(rhs) + 1
      /\ l # Len(lhs) + 1 => l \in 1 .. Len(lhs)
      /\ r # Len(rhs) + 1 => r \in 1 .. Len(rhs)
      /\ result \in SUBSET {"subset", "superset"}
      /\ Len(lhs) \in Nat /\ Len(rhs) \in Nat
  BY <1>1, FrontierFacts
<1>3. PICK F \in Int : Shape(lhs, rhs, l, r, prior_left, prior_right, state, F)
  BY <1>1, FrontierFacts
<1>4. CASE BySegments!next_both
  <2>1. state = "nextboth" /\ BothStep
    BY <1>2, <1>4, SegmentsBoth
  <2>2. QED
    BY <1>1, <2>1, InclusionBoth
<1>5. CASE BySegments!next_left
  <2>1. state = "nextleft"
    BY <1>5 DEF BySegments!next_left
  <2>2. r <= Len(rhs) /\ prior_left = l - 1 /\ prior_left # 0
    BY <1>3, <2>1 DEF Shape
  <2>3. r \in 1 .. Len(rhs) /\ prior_left \in 1 .. Len(lhs)
    BY <1>2, <2>2
  <2>4. LeftStep
    BY <1>2, <1>5, <2>3, SegmentsLeft
  <2>5. QED
    BY <1>1, <2>1, <2>4, InclusionLeft
<1>6. CASE BySegments!next_right
  <2>1. state = "nextright"
    BY <1>6 DEF BySegments!next_right
  <2>2. l <= Len(lhs) /\ prior_right = r - 1 /\ prior_right # 0
    BY <1>3, <2>1 DEF Shape
  <2>3. l \in 1 .. Len(lhs) /\ prior_right \in 1 .. Len(rhs)
    BY <1>2, <2>2
  <2>4. RightStep
    BY <1>2, <1>6, <2>3, SegmentsRight
  <2>5. QED
    BY <1>1, <2>1, <2>4, InclusionRight
<1>7. QED
  BY <1>4, <1>5, <1>6 DEF BySegments!Next

-----------------------------------------------------------------------------
(***************************************************************************)
(* Order.                                                                  *)
(***************************************************************************)

\* At the first key k where they differ, c comes before d: it has ended, or it has
\* the key and d goes on without, or its value is the smaller one.
Precedes(c, d, v) ==
  \E k \in Int :
    /\ Fits(c, d, v, k - 1) /\ Fits(d, c, v, k - 1)
    /\ \/ /\ \E j : Here(d, j, k)
          /\ \A x \in Int : \A i : Here(c, i, x) => x < k
       \/ /\ \E i : Here(c, i, k)
          /\ \A j : ~ Here(d, j, k)
          /\ \E x \in Int : x > k /\ \E j : Here(d, j, x)
       \/ \E i, j : Here(c, i, k) /\ Here(d, j, k) /\ v /\ Before(c[i].val, d[j].val)

\* Before a key that neither container has passed to, both are included in each other.
LEMMA FitsBefore ==
  ASSUME NEW c, NEW d, NEW v, Segments(c), NEW F \in Int, NEW m \in 1 .. Len(c) + 1, Past(c, m, F),
         Fits(c, d, v, F), NEW k \in Int, k = F + 1 \/ (m <= Len(c) => k <= lo(c, m))
  PROVE  Fits(c, d, v, k - 1)
<1>1. CASE k = F + 1
  BY <1>1
<1>2. CASE m <= Len(c) => k <= lo(c, m)
  <2>1. m <= Len(c) => k - 1 < lo(c, m)
    <3>1. SUFFICES ASSUME m <= Len(c)
                   PROVE  k - 1 < lo(c, m)
      OBVIOUS
    <3>2. m \in 1 .. Len(c)
      BY <3>1, SegmentEnds
    <3>3. lo(c, m) \in Int
      BY <3>2, SegmentEnds
    <3>4. QED
      BY <1>2, <3>1, <3>3
  <2>2. k - 1 \in Int
    OBVIOUS
  <2>3. QED
    BY <2>1, <2>2, FitsGap
<1>3. QED
  BY <1>1, <1>2

\* A container that has ended precedes one that has not.
LEMMA PrecedesAtEnd ==
  ASSUME NEW c, NEW d, NEW v, Segments(c), Segments(d), NEW F \in Int,
         Past(c, Len(c) + 1, F), NEW n \in 1 .. Len(d), Past(d, n, F),
         Fits(c, d, v, F), Fits(d, c, v, F)
  PROVE  Precedes(c, d, v)
<1>1. /\ Len(c) \in Nat /\ Len(d) \in Nat
      /\ lo(d, n) \in Int /\ hi(d, n) \in Int /\ lo(d, n) <= hi(d, n)
  BY SegmentEnds
<1>2. F < hi(d, n)
  BY <1>1 DEF Past
<1>3. PICK k \in Int : F < k /\ lo(d, n) <= k /\ k <= hi(d, n) /\ (k = F + 1 \/ k <= lo(d, n))
  <2>1. CASE lo(d, n) <= F
    BY <1>1, <1>2, <2>1
  <2>2. CASE F < lo(d, n)
    BY <1>1, <2>2
  <2>3. QED
    BY <1>1, <2>1, <2>2
<1>4. Here(d, n, k)
  BY <1>3 DEF Here
<1>5. ASSUME NEW x \in Int, NEW i, Here(c, i, x)
      PROVE  x < k
  <2>1. i \in 1 .. Len(c) /\ i < Len(c) + 1 /\ x <= hi(c, i) /\ hi(c, i) \in Int
    BY <1>1, <1>5, SegmentEnds DEF Here
  <2>2. hi(c, i) <= F
    BY <2>1 DEF Past
  <2>3. QED
    BY <1>3, <2>1, <2>2
<1>6. Fits(d, c, v, k - 1)
  <2>1. n \in 1 .. Len(d) + 1
    BY <1>1
  <2>2. QED
    BY <1>3, <2>1, FitsBefore
<1>7. Fits(c, d, v, k - 1)
  <2>1. Len(c) + 1 \in 1 .. Len(c) + 1 /\ ~ (Len(c) + 1 <= Len(c))
    BY <1>1
  <2>2. QED
    BY <1>3, <2>1, FitsBefore
<1>8. QED
  BY <1>4, <1>5, <1>6, <1>7 DEF Precedes

\* A container that has a key where the other one has a gap precedes it.
LEMMA PrecedesAtGap ==
  ASSUME NEW c, NEW d, NEW v, Segments(c), Segments(d), NEW F \in Int,
         NEW m \in 1 .. Len(c), NEW n \in 1 .. Len(d), Past(c, m, F), Past(d, n, F),
         Fits(c, d, v, F), Fits(d, c, v, F), F + 1 < lo(d, n), lo(c, m) < lo(d, n)
  PROVE  Precedes(c, d, v)
<1>1. /\ Len(c) \in Nat /\ Len(d) \in Nat
      /\ lo(c, m) \in Int /\ hi(c, m) \in Int /\ lo(c, m) <= hi(c, m)
      /\ lo(d, n) \in Int /\ hi(d, n) \in Int /\ lo(d, n) <= hi(d, n)
  BY SegmentEnds
<1>2. F < hi(c, m)
  BY <1>1 DEF Past
<1>3. PICK k \in Int : /\ F < k /\ lo(c, m) <= k /\ k <= hi(c, m) /\ k < lo(d, n)
                       /\ k = F + 1 \/ k <= lo(c, m)
  <2>1. CASE lo(c, m) <= F
    BY <1>1, <1>2, <2>1
  <2>2. CASE F < lo(c, m)
    BY <1>1, <2>2
  <2>3. QED
    BY <1>1, <2>1, <2>2
<1>4. m \in 1 .. Len(c) + 1 /\ n \in 1 .. Len(d) + 1
  BY <1>1
<1>5. Here(c, m, k)
  BY <1>3 DEF Here
<1>6. \A j : ~ Here(d, j, k)
  BY <1>3, <1>4, InNone
<1>7. Here(d, n, lo(d, n)) /\ lo(d, n) > k
  BY <1>1, <1>3 DEF Here
<1>8. Fits(c, d, v, k - 1)
  BY <1>3, <1>4, FitsBefore
<1>9. Fits(d, c, v, k - 1)
  <2>1. k <= lo(d, n)
    BY <1>1, <1>3
  <2>2. QED
    BY <1>4, <2>1, FitsBefore
<1>10. QED
  BY <1>1, <1>5, <1>6, <1>7, <1>8, <1>9 DEF Precedes

\* A result of a pass that goes on is equal, and up to the frontier the containers
\* are; when it has stopped they are, or one precedes the other.
OrderInv ==
  /\ Within
  /\ result \in {-1, 0, 1}
  /\ state # "stop" => result = 0 /\ Frontier({"subset", "superset"})
  /\ state = "stop" => /\ result = 0 => ~ Misfit(lhs, rhs, values) /\ ~ Misfit(rhs, lhs, values)
                       /\ result = -1 => Precedes(lhs, rhs, values)
                       /\ result = 1 => Precedes(rhs, lhs, values)

\* A pass may stop with an order that has been found.
LEMMA OrderHalts ==
  ASSUME OrderInv, UNCHANGED <<lhs, rhs, values>>, NEW res \in {-1, 0, 1}, HaltAt(res, l, r),
         res = 0 => ~ Misfit(lhs, rhs, values) /\ ~ Misfit(rhs, lhs, values),
         res = -1 => Precedes(lhs, rhs, values),
         res = 1 => Precedes(rhs, lhs, values)
  PROVE  OrderInv'
<1>1. /\ result' = res /\ state' = "stop" /\ l' = l /\ r' = r
      /\ prior_left' = prior_left /\ prior_right' = prior_right
      /\ lhs' = lhs /\ rhs' = rhs /\ values' = values
  BY DEF HaltAt
<1>2. Within'
  BY <1>1 DEF OrderInv, Within
<1>3. QED
  BY <1>1, <1>2 DEF OrderInv

\* What the values decide.
ValueStep ==
  \/ values /\ Before(rhs[r].val, lhs[l].val) /\ HaltAt(1, l, r)
  \/ values /\ Before(lhs[l].val, rhs[r].val) /\ HaltAt(-1, l, r)
  \/ (values => lhs[l].val = rhs[r].val) /\ result' = result /\ Moves

\* Where both containers have the key k and are equal before, the values decide.
LEMMA OrderValues ==
  ASSUME ContainersInv, OrderInv, UNCHANGED <<lhs, rhs, values>>, state # "stop",
         l \in 1 .. Len(lhs), r \in 1 .. Len(rhs),
         NEW F \in Int, Shape(lhs, rhs, l, r, prior_left, prior_right, state, F),
         Going(lhs, rhs, values, l, r, state, {"subset", "superset"}, F),
         NEW k \in Int, Here(lhs, l, k), Here(rhs, r, k),
         k = F + 1 \/ (k = lo(lhs, l) /\ k = lo(rhs, r)),
         ValueStep
  PROVE  OrderInv'
<1>1. Segments(lhs) /\ Segments(rhs) /\ values \in BOOLEAN
  BY DEF ContainersInv
<1>2. /\ Past(lhs, l, F) /\ Past(rhs, r, F)
      /\ prior_left \in 0 .. l - 1 /\ prior_right \in 0 .. r - 1
  BY DEF Shape
<1>3. Fits(lhs, rhs, values, F) /\ Fits(rhs, lhs, values, F)
  BY DEF Going
<1>4. /\ lo(lhs, l) \in Int /\ lo(rhs, r) \in Int
      /\ lo(lhs, l) <= k /\ lo(rhs, r) <= k
      /\ l \in 1 .. Len(lhs) + 1 /\ r \in 1 .. Len(rhs) + 1
  BY <1>1, SegmentEnds DEF Here
<1>5. Fits(lhs, rhs, values, k - 1) /\ Fits(rhs, lhs, values, k - 1)
  <2>1. k = F + 1 \/ k <= lo(lhs, l)
    BY <1>4
  <2>2. k = F + 1 \/ k <= lo(rhs, r)
    BY <1>4
  <2>3. Fits(lhs, rhs, values, k - 1)
    BY <1>1, <1>2, <1>3, <1>4, <2>1, FitsBefore
  <2>4. Fits(rhs, lhs, values, k - 1)
    BY <1>1, <1>2, <1>3, <1>4, <2>2, FitsBefore
  <2>5. QED
    BY <2>3, <2>4
<1>6. CASE values /\ Before(rhs[r].val, lhs[l].val) /\ HaltAt(1, l, r)
  <2>1. Precedes(rhs, lhs, values)
    BY <1>5, <1>6 DEF Precedes
  <2>2. 1 \in {-1, 0, 1} /\ 1 # 0 /\ 1 # -1
    OBVIOUS
  <2>3. QED
    BY <1>6, <2>1, <2>2, OrderHalts
<1>7. CASE values /\ Before(lhs[l].val, rhs[r].val) /\ HaltAt(-1, l, r)
  <2>1. Precedes(lhs, rhs, values)
    BY <1>5, <1>7 DEF Precedes
  <2>2. -1 \in {-1, 0, 1} /\ -1 # 0 /\ -1 # 1
    OBVIOUS
  <2>3. QED
    BY <1>7, <2>1, <2>2, OrderHalts
<1>8. CASE (values => lhs[l].val = rhs[r].val) /\ result' = result /\ Moves
  <2>1. /\ Agree(lhs, rhs, values, l, r, F)
        /\ Agree(rhs, lhs, values, r, l, F)
    BY <1>4, <1>8 DEF Agree, Alike
  <2>2. Move(lhs, rhs, l, r, prior_left, prior_right, l', r', prior_left', prior_right', state')
    BY <1>8 DEF Moves
  <2>3. PICK G \in Int :
          /\ Shape(lhs, rhs, l', r', prior_left', prior_right', state', G)
          /\ Going(lhs, rhs, values, l', r', state', {"subset", "superset"}, G)
    BY <1>1, <1>2, <1>3, <2>1, <2>2, MoveGoing
  <2>4. lhs' = lhs /\ rhs' = rhs /\ values' = values
    OBVIOUS
  <2>5. Within' /\ state' # "stop"
    BY <2>3, <2>4 DEF Within, Shape
  <2>6. Frontier({"subset", "superset"})'
    BY <2>3, <2>4 DEF Frontier
  <2>7. result' = 0 /\ result' \in {-1, 0, 1}
    BY <1>8 DEF OrderInv
  <2>8. QED
    BY <2>5, <2>6, <2>7 DEF OrderInv
<1>9. QED
  BY <1>6, <1>7, <1>8 DEF ValueStep

\* Stop of the loop over the order.
LEMMA OrderStop ==
  ASSUME NEW res, ByOrder!Stop(res)
  PROVE  HaltAt(res, l, r)
BY DEF ByOrder!Stop, ByOrder!iterators, HaltAt

\* The constants of the loop.
LEMMA OrderConstants ==
  ASSUME Segments(lhs), Segments(rhs)
  PROVE  /\ ByOrder!less = -1 /\ ByOrder!equal = 0 /\ ByOrder!greater = 1
         /\ ByOrder!LeftEnd <=> l = Len(lhs) + 1
         /\ ByOrder!RightEnd <=> r = Len(rhs) + 1
         /\ ByOrder!LeftItv = lhs[l].itv /\ ByOrder!RightItv = rhs[r].itv
BY DEF ByOrder!less, ByOrder!equal, ByOrder!greater, ByOrder!LeftEnd, ByOrder!RightEnd,
       ByOrder!LeftItv, ByOrder!RightItv

\* proceed of the loop over the order.
LEMMA OrderProceeds ==
  ASSUME Segments(lhs), Segments(rhs), ByOrder!proceed
  PROVE  result' = result /\ Moves
<1>1. /\ ByOrder!upper_less(lhs[l].itv, rhs[r].itv) <=> hi(lhs, l) < hi(rhs, r)
      /\ ByOrder!upper_less(rhs[r].itv, lhs[l].itv) <=> hi(rhs, r) < hi(lhs, l)
      /\ ByOrder!upper_equal(lhs[l].itv, rhs[r].itv) <=> hi(lhs, l) = hi(rhs, r)
  BY ByOrderAlgebra DEF hi
<1>2. ByOrder!Advance /\ result' = result
  BY DEF ByOrder!proceed
<1>3. CASE /\ ByOrder!upper_less(lhs[l].itv, rhs[r].itv)
           /\ prior_left' = l /\ l' = l + 1 /\ state' = "nextleft"
           /\ UNCHANGED <<r, prior_right>>
  BY <1>1, <1>2, <1>3 DEF Moves, Move
<1>4. CASE /\ ByOrder!upper_less(rhs[r].itv, lhs[l].itv)
           /\ prior_right' = r /\ r' = r + 1 /\ state' = "nextright"
           /\ UNCHANGED <<l, prior_left>>
  BY <1>1, <1>2, <1>4 DEF Moves, Move
<1>5. CASE /\ ByOrder!upper_equal(lhs[l].itv, rhs[r].itv)
           /\ l' = l + 1 /\ r' = r + 1 /\ state' = "nextboth"
           /\ UNCHANGED <<prior_left, prior_right>>
  BY <1>1, <1>2, <1>5 DEF Moves, Move
<1>6. QED
  BY <1>2, <1>3, <1>4, <1>5 DEF ByOrder!Advance, ByOrder!LeftItv, ByOrder!RightItv

\* The comparison of the values: if neither is less they are equal.
LEMMA OrderCompares ==
  ASSUME ContainersInv, by = "order", l \in 1 .. Len(lhs), r \in 1 .. Len(rhs),
         ByOrder!CompareValues
  PROVE  ValueStep
<1>1. Segments(lhs) /\ Segments(rhs) /\ values \in BOOLEAN
  BY DEF ContainersInv
<1>2. values => /\ ~ (Before(lhs[l].val, rhs[r].val) /\ Before(rhs[r].val, lhs[l].val))
                /\ lhs[l].val = rhs[r].val <=> /\ ~ Before(lhs[l].val, rhs[r].val)
                                               /\ ~ Before(rhs[r].val, lhs[l].val)
  <2>1. l \in DOMAIN lhs /\ r \in DOMAIN rhs
    BY <1>1 DEF Segments
  <2>2. QED
    BY <2>1 DEF ContainersInv, Ordered
<1>3. /\ ByOrder!less = -1 /\ ByOrder!equal = 0 /\ ByOrder!greater = 1
  BY <1>1, OrderConstants
<1>4. \/ ByOrder!Covalues # 0 /\ ByOrder!Stop(ByOrder!Covalues)
      \/ ByOrder!Covalues = 0 /\ ByOrder!proceed
  BY <1>3 DEF ByOrder!CompareValues
<1>5. ByOrder!Covalues = IF ~ values THEN 0
                         ELSE IF Before(rhs[r].val, lhs[l].val) THEN 1
                         ELSE IF Before(lhs[l].val, rhs[r].val) THEN -1 ELSE 0
  BY <1>3 DEF ByOrder!Covalues
<1>6. CASE ByOrder!Covalues # 0 /\ ByOrder!Stop(ByOrder!Covalues)
  <2>1. HaltAt(ByOrder!Covalues, l, r)
    BY <1>6, OrderStop
  <2>2. \/ values /\ Before(rhs[r].val, lhs[l].val) /\ ByOrder!Covalues = 1
        \/ values /\ Before(lhs[l].val, rhs[r].val) /\ ByOrder!Covalues = -1
    BY <1>5, <1>6
  <2>3. QED
    BY <2>1, <2>2 DEF ValueStep
<1>7. CASE ByOrder!Covalues = 0 /\ ByOrder!proceed
  <2>1. result' = result /\ Moves
    BY <1>1, <1>7, OrderProceeds
  <2>2. values => lhs[l].val = rhs[r].val
    BY <1>1, <1>2, <1>5, <1>7
  <2>3. QED
    BY <2>1, <2>2 DEF ValueStep
<1>8. QED
  BY <1>4, <1>6, <1>7

\* The positions of a pass that goes on, its frontier, and what holds up to it.
LEMMA OrderFacts ==
  ASSUME ContainersInv, OrderInv, state # "stop"
  PROVE  /\ Segments(lhs) /\ Segments(rhs)
         /\ l \in 1 .. Len(lhs) + 1 /\ r \in 1 .. Len(rhs) + 1
         /\ l # Len(lhs) + 1 => l \in 1 .. Len(lhs)
         /\ r # Len(rhs) + 1 => r \in 1 .. Len(rhs)
         /\ Len(lhs) \in Nat /\ Len(rhs) \in Nat
         /\ \E F \in Int :
              /\ Shape(lhs, rhs, l, r, prior_left, prior_right, state, F)
              /\ Going(lhs, rhs, values, l, r, state, {"subset", "superset"}, F)
              /\ Past(lhs, l, F) /\ Past(rhs, r, F)
              /\ Fits(lhs, rhs, values, F) /\ Fits(rhs, lhs, values, F)
<1>1. Segments(lhs) /\ Segments(rhs)
  BY DEF ContainersInv
<1>2. Len(lhs) \in Nat /\ Len(rhs) \in Nat
  BY <1>1, SegmentEnds
<1>3. l \in 1 .. Len(lhs) + 1 /\ r \in 1 .. Len(rhs) + 1
  BY DEF OrderInv, Within
<1>4. /\ l # Len(lhs) + 1 => l \in 1 .. Len(lhs)
      /\ r # Len(rhs) + 1 => r \in 1 .. Len(rhs)
  BY <1>2, <1>3
<1>5. PICK F \in Int :
              /\ Shape(lhs, rhs, l, r, prior_left, prior_right, state, F)
              /\ Going(lhs, rhs, values, l, r, state, {"subset", "superset"}, F)
  BY DEF OrderInv, Frontier
<1>6. /\ Past(lhs, l, F) /\ Past(rhs, r, F)
      /\ Fits(lhs, rhs, values, F) /\ Fits(rhs, lhs, values, F)
  BY <1>5 DEF Shape, Going
<1>7. QED
  BY <1>1, <1>2, <1>3, <1>4, <1>5, <1>6

\* At the end of one container that one precedes the other.
LEMMA OrderEnds ==
  ASSUME ContainersInv, OrderInv, UNCHANGED <<lhs, rhs, values>>, state # "stop",
         \/ l = Len(lhs) + 1 /\ r # Len(rhs) + 1 /\ HaltAt(-1, l, r)
         \/ l # Len(lhs) + 1 /\ r = Len(rhs) + 1 /\ HaltAt(1, l, r)
  PROVE  OrderInv'
<1>1. /\ Segments(lhs) /\ Segments(rhs)
      /\ l # Len(lhs) + 1 => l \in 1 .. Len(lhs)
      /\ r # Len(rhs) + 1 => r \in 1 .. Len(rhs)
  BY OrderFacts
<1>2. PICK F \in Int : /\ Past(lhs, l, F) /\ Past(rhs, r, F)
                       /\ Fits(lhs, rhs, values, F) /\ Fits(rhs, lhs, values, F)
  BY OrderFacts
<1>3. /\ -1 \in {-1, 0, 1} /\ -1 # 0 /\ -1 # 1
      /\ 1 \in {-1, 0, 1} /\ 1 # 0 /\ 1 # -1
  OBVIOUS
<1>4. CASE l = Len(lhs) + 1 /\ r # Len(rhs) + 1 /\ HaltAt(-1, l, r)
  <2>1. Past(lhs, Len(lhs) + 1, F) /\ r \in 1 .. Len(rhs)
    BY <1>1, <1>2, <1>4
  <2>2. Precedes(lhs, rhs, values)
    BY <1>1, <1>2, <2>1, PrecedesAtEnd
  <2>3. QED
    BY <1>3, <1>4, <2>2, OrderHalts
<1>5. CASE l # Len(lhs) + 1 /\ r = Len(rhs) + 1 /\ HaltAt(1, l, r)
  <2>1. Past(rhs, Len(rhs) + 1, F) /\ l \in 1 .. Len(lhs)
    BY <1>1, <1>2, <1>5
  <2>2. Precedes(rhs, lhs, values)
    BY <1>1, <1>2, <2>1, PrecedesAtEnd
  <2>3. QED
    BY <1>3, <1>5, <2>2, OrderHalts
<1>6. QED
  BY <1>4, <1>5

\* next_both keeps the invariant.
LEMMA OrderBoth ==
  ASSUME ContainersInv, by = "order", OrderInv, ByOrder!next_both
  PROVE  OrderInv'
<1>1. state = "nextboth" /\ state # "stop" /\ UNCHANGED <<lhs, rhs, values>>
  BY DEF ByOrder!next_both, ByOrder!containers
<1>2. /\ Segments(lhs) /\ Segments(rhs)
      /\ l \in 1 .. Len(lhs) + 1 /\ r \in 1 .. Len(rhs) + 1
      /\ l # Len(lhs) + 1 => l \in 1 .. Len(lhs)
      /\ r # Len(rhs) + 1 => r \in 1 .. Len(rhs)
      /\ Len(lhs) \in Nat /\ Len(rhs) \in Nat
  BY <1>1, OrderFacts
<1>3. PICK F \in Int :
              /\ Shape(lhs, rhs, l, r, prior_left, prior_right, state, F)
              /\ Going(lhs, rhs, values, l, r, state, {"subset", "superset"}, F)
              /\ Past(lhs, l, F) /\ Past(rhs, r, F)
              /\ Fits(lhs, rhs, values, F) /\ Fits(rhs, lhs, values, F)
  BY <1>1, OrderFacts
<1>4. Fresh(lhs, l, F) /\ Fresh(rhs, r, F)
  BY <1>1, <1>3 DEF Shape
<1>5. /\ -1 \in {-1, 0, 1} /\ -1 # 0 /\ -1 # 1
      /\ 1 \in {-1, 0, 1} /\ 1 # 0 /\ 1 # -1
      /\ 0 \in {-1, 0, 1} /\ 0 # 1 /\ 0 # -1
  OBVIOUS
<1>6. /\ ByOrder!less = -1 /\ ByOrder!equal = 0 /\ ByOrder!greater = 1
      /\ ByOrder!LeftEnd <=> l = Len(lhs) + 1
      /\ ByOrder!RightEnd <=> r = Len(rhs) + 1
      /\ ByOrder!LeftItv = lhs[l].itv /\ ByOrder!RightItv = rhs[r].itv
      /\ ByOrder!lower_less(lhs[l].itv, rhs[r].itv) <=> lo(lhs, l) < lo(rhs, r)
      /\ ByOrder!lower_less(rhs[r].itv, lhs[l].itv) <=> lo(rhs, r) < lo(lhs, l)
      /\ ByOrder!lower_equal(lhs[l].itv, rhs[r].itv) <=> lo(lhs, l) = lo(rhs, r)
  BY <1>2, OrderConstants, ByOrderAlgebra DEF lo
<1>7. \/ l = Len(lhs) + 1 /\ r = Len(rhs) + 1 /\ ByOrder!Stop(0)
      \/ l = Len(lhs) + 1 /\ r # Len(rhs) + 1 /\ ByOrder!Stop(-1)
      \/ l # Len(lhs) + 1 /\ r = Len(rhs) + 1 /\ ByOrder!Stop(1)
      \/ /\ l # Len(lhs) + 1 /\ r # Len(rhs) + 1
         /\ lo(lhs, l) < lo(rhs, r) /\ ByOrder!Stop(-1)
      \/ /\ l # Len(lhs) + 1 /\ r # Len(rhs) + 1
         /\ lo(rhs, r) < lo(lhs, l) /\ ByOrder!Stop(1)
      \/ /\ l # Len(lhs) + 1 /\ r # Len(rhs) + 1
         /\ lo(lhs, l) = lo(rhs, r) /\ ByOrder!CompareValues
  BY <1>6 DEF ByOrder!next_both
<1>8. CASE l = Len(lhs) + 1 /\ r = Len(rhs) + 1 /\ ByOrder!Stop(0)
  <2>1. l > Len(lhs) /\ l \in Int /\ r > Len(rhs) /\ r \in Int
    BY <1>2, <1>8
  <2>2. ~ Misfit(lhs, rhs, values) /\ ~ Misfit(rhs, lhs, values)
    BY <1>2, <1>3, <2>1, AllFits
  <2>3. HaltAt(0, l, r)
    BY <1>8, OrderStop
  <2>4. QED
    BY <1>1, <1>5, <2>2, <2>3, OrderHalts
<1>9. CASE l = Len(lhs) + 1 /\ r # Len(rhs) + 1 /\ ByOrder!Stop(-1)
  BY <1>1, <1>9, OrderStop, OrderEnds
<1>10. CASE l # Len(lhs) + 1 /\ r = Len(rhs) + 1 /\ ByOrder!Stop(1)
  BY <1>1, <1>10, OrderStop, OrderEnds
<1>11. ASSUME l # Len(lhs) + 1, r # Len(rhs) + 1
       PROVE  /\ l \in 1 .. Len(lhs) /\ r \in 1 .. Len(rhs)
              /\ lo(lhs, l) \in Int /\ lo(rhs, r) \in Int
              /\ F < lo(lhs, l) /\ F < lo(rhs, r)
  <2>1. l \in 1 .. Len(lhs) /\ r \in 1 .. Len(rhs) /\ l >= l /\ r >= r
    BY <1>2, <1>11
  <2>2. lo(lhs, l) \in Int /\ lo(rhs, r) \in Int
    BY <1>2, <2>1, SegmentEnds
  <2>3. QED
    BY <1>4, <2>1, <2>2 DEF Fresh
<1>12. CASE /\ l # Len(lhs) + 1 /\ r # Len(rhs) + 1
            /\ lo(lhs, l) < lo(rhs, r) /\ ByOrder!Stop(-1)
  <2>1. F + 1 < lo(rhs, r)
    BY <1>11, <1>12
  <2>2. Precedes(lhs, rhs, values)
    BY <1>2, <1>3, <1>11, <1>12, <2>1, PrecedesAtGap
  <2>3. HaltAt(-1, l, r)
    BY <1>12, OrderStop
  <2>4. QED
    BY <1>1, <1>5, <2>2, <2>3, OrderHalts
<1>13. CASE /\ l # Len(lhs) + 1 /\ r # Len(rhs) + 1
            /\ lo(rhs, r) < lo(lhs, l) /\ ByOrder!Stop(1)
  <2>1. F + 1 < lo(lhs, l)
    BY <1>11, <1>13
  <2>2. Precedes(rhs, lhs, values)
    BY <1>2, <1>3, <1>11, <1>13, <2>1, PrecedesAtGap
  <2>3. HaltAt(1, l, r)
    BY <1>13, OrderStop
  <2>4. QED
    BY <1>1, <1>5, <2>2, <2>3, OrderHalts
<1>14. CASE /\ l # Len(lhs) + 1 /\ r # Len(rhs) + 1
            /\ lo(lhs, l) = lo(rhs, r) /\ ByOrder!CompareValues
  <2>1. l \in 1 .. Len(lhs) /\ r \in 1 .. Len(rhs) /\ lo(lhs, l) \in Int
    BY <1>11, <1>14
  <2>2. Here(lhs, l, lo(lhs, l)) /\ Here(rhs, r, lo(lhs, l))
    BY <1>2, <1>14, <2>1, SegmentEnds DEF Here
  <2>3. ValueStep
    BY <1>14, <2>1, OrderCompares
  <2>4. QED
    BY <1>1, <1>3, <1>14, <2>1, <2>2, <2>3, OrderValues
<1>15. QED
  BY <1>7, <1>8, <1>9, <1>10, <1>12, <1>13, <1>14

\* next_left keeps it.
LEMMA OrderLeft ==
  ASSUME ContainersInv, by = "order", OrderInv, ByOrder!next_left
  PROVE  OrderInv'
<1>1. state = "nextleft" /\ state # "stop" /\ UNCHANGED <<lhs, rhs, values>>
  BY DEF ByOrder!next_left, ByOrder!containers
<1>2. /\ Segments(lhs) /\ Segments(rhs)
      /\ l \in 1 .. Len(lhs) + 1 /\ r \in 1 .. Len(rhs) + 1
      /\ l # Len(lhs) + 1 => l \in 1 .. Len(lhs)
      /\ r # Len(rhs) + 1 => r \in 1 .. Len(rhs)
      /\ Len(lhs) \in Nat /\ Len(rhs) \in Nat
  BY <1>1, OrderFacts
<1>3. PICK F \in Int :
              /\ Shape(lhs, rhs, l, r, prior_left, prior_right, state, F)
              /\ Going(lhs, rhs, values, l, r, state, {"subset", "superset"}, F)
              /\ Past(lhs, l, F) /\ Past(rhs, r, F)
              /\ Fits(lhs, rhs, values, F) /\ Fits(rhs, lhs, values, F)
  BY <1>1, OrderFacts
<1>4. /\ hi(lhs, prior_left) = F /\ prior_left = l - 1 /\ prior_left # 0
      /\ prior_left \in 0 .. l - 1 /\ r <= Len(rhs) /\ lo(rhs, r) <= F
  BY <1>1, <1>3 DEF Shape, Going
<1>5. r \in 1 .. Len(rhs) /\ r # Len(rhs) + 1
  BY <1>2, <1>4
<1>6. \/ l = Len(lhs) + 1 /\ HaltAt(-1, l, r)
      \/ l # Len(lhs) + 1 /\ ~ (F + 1 = lo(lhs, l)) /\ HaltAt(1, l, r)
      \/ l # Len(lhs) + 1 /\ F + 1 = lo(lhs, l) /\ ByOrder!CompareValues
  <2>1. ByOrder!touches(lhs[prior_left].itv, lhs[l].itv) <=> F + 1 = lo(lhs, l)
    BY <1>4, ByOrderAlgebra DEF lo, hi
  <2>2. QED
    BY <1>2, <2>1, OrderConstants, OrderStop DEF ByOrder!next_left
<1>7. CASE l = Len(lhs) + 1 /\ HaltAt(-1, l, r)
  BY <1>1, <1>5, <1>7, OrderEnds
<1>8. ASSUME l # Len(lhs) + 1
      PROVE  /\ l \in 1 .. Len(lhs) /\ lo(lhs, l) \in Int /\ F < lo(lhs, l)
             /\ lo(rhs, r) \in Int /\ hi(rhs, r) \in Int /\ F < hi(rhs, r)
             /\ hi(lhs, l) \in Int /\ F < hi(lhs, l)
  <2>1. l \in 1 .. Len(lhs)
    BY <1>2, <1>8
  <2>2. prior_left \in 1 .. Len(lhs) /\ prior_left < l
    BY <1>2, <1>4, <2>1
  <2>3. /\ lo(lhs, l) \in Int /\ hi(lhs, l) \in Int /\ lo(lhs, l) <= hi(lhs, l)
        /\ lo(rhs, r) \in Int /\ hi(rhs, r) \in Int
    BY <1>2, <1>5, <2>1, SegmentEnds
  <2>4. F < lo(lhs, l)
    BY <1>2, <1>4, <2>1, <2>2, SegmentEnds
  <2>5. r \in 1 .. Len(rhs) /\ r >= r
    BY <1>5
  <2>6. F < hi(rhs, r)
    BY <1>3, <2>3, <2>5 DEF Past
  <2>7. QED
    BY <2>1, <2>3, <2>4, <2>6
<1>9. CASE l # Len(lhs) + 1 /\ ~ (F + 1 = lo(lhs, l)) /\ HaltAt(1, l, r)
  <2>1. F + 1 < lo(lhs, l) /\ lo(rhs, r) < lo(lhs, l)
    BY <1>4, <1>8, <1>9
  <2>2. Precedes(rhs, lhs, values)
    BY <1>2, <1>3, <1>5, <1>8, <1>9, <2>1, PrecedesAtGap
  <2>3. 1 \in {-1, 0, 1} /\ 1 # 0 /\ 1 # -1
    OBVIOUS
  <2>4. QED
    BY <1>1, <1>9, <2>2, <2>3, OrderHalts
<1>10. CASE l # Len(lhs) + 1 /\ F + 1 = lo(lhs, l) /\ ByOrder!CompareValues
  <2>1. Here(lhs, l, F + 1) /\ Here(rhs, r, F + 1) /\ F + 1 \in Int
    BY <1>4, <1>5, <1>8, <1>10 DEF Here
  <2>2. ValueStep
    BY <1>5, <1>8, <1>10, OrderCompares
  <2>3. QED
    BY <1>1, <1>3, <1>5, <1>8, <1>10, <2>1, <2>2, OrderValues
<1>11. QED
  BY <1>6, <1>7, <1>9, <1>10

\* next_right keeps it.
LEMMA OrderRight ==
  ASSUME ContainersInv, by = "order", OrderInv, ByOrder!next_right
  PROVE  OrderInv'
<1>1. state = "nextright" /\ state # "stop" /\ UNCHANGED <<lhs, rhs, values>>
  BY DEF ByOrder!next_right, ByOrder!containers
<1>2. /\ Segments(lhs) /\ Segments(rhs)
      /\ l \in 1 .. Len(lhs) + 1 /\ r \in 1 .. Len(rhs) + 1
      /\ l # Len(lhs) + 1 => l \in 1 .. Len(lhs)
      /\ r # Len(rhs) + 1 => r \in 1 .. Len(rhs)
      /\ Len(lhs) \in Nat /\ Len(rhs) \in Nat
  BY <1>1, OrderFacts
<1>3. PICK F \in Int :
              /\ Shape(lhs, rhs, l, r, prior_left, prior_right, state, F)
              /\ Going(lhs, rhs, values, l, r, state, {"subset", "superset"}, F)
              /\ Past(lhs, l, F) /\ Past(rhs, r, F)
              /\ Fits(lhs, rhs, values, F) /\ Fits(rhs, lhs, values, F)
  BY <1>1, OrderFacts
<1>4. /\ hi(rhs, prior_right) = F /\ prior_right = r - 1 /\ prior_right # 0
      /\ prior_right \in 0 .. r - 1 /\ l <= Len(lhs) /\ lo(lhs, l) <= F
  BY <1>1, <1>3 DEF Shape, Going
<1>5. l \in 1 .. Len(lhs) /\ l # Len(lhs) + 1
  BY <1>2, <1>4
<1>6. \/ r = Len(rhs) + 1 /\ HaltAt(1, l, r)
      \/ r # Len(rhs) + 1 /\ ~ (F + 1 = lo(rhs, r)) /\ HaltAt(-1, l, r)
      \/ r # Len(rhs) + 1 /\ F + 1 = lo(rhs, r) /\ ByOrder!CompareValues
  <2>1. ByOrder!touches(rhs[prior_right].itv, rhs[r].itv) <=> F + 1 = lo(rhs, r)
    BY <1>4, ByOrderAlgebra DEF lo, hi
  <2>2. QED
    BY <1>2, <2>1, OrderConstants, OrderStop DEF ByOrder!next_right
<1>7. CASE r = Len(rhs) + 1 /\ HaltAt(1, l, r)
  BY <1>1, <1>5, <1>7, OrderEnds
<1>8. ASSUME r # Len(rhs) + 1
      PROVE  /\ r \in 1 .. Len(rhs) /\ lo(rhs, r) \in Int /\ F < lo(rhs, r)
             /\ lo(lhs, l) \in Int /\ hi(lhs, l) \in Int /\ F < hi(lhs, l)
             /\ hi(rhs, r) \in Int /\ F < hi(rhs, r)
  <2>1. r \in 1 .. Len(rhs)
    BY <1>2, <1>8
  <2>2. prior_right \in 1 .. Len(rhs) /\ prior_right < r
    BY <1>2, <1>4, <2>1
  <2>3. /\ lo(rhs, r) \in Int /\ hi(rhs, r) \in Int /\ lo(rhs, r) <= hi(rhs, r)
        /\ lo(lhs, l) \in Int /\ hi(lhs, l) \in Int
    BY <1>2, <1>5, <2>1, SegmentEnds
  <2>4. F < lo(rhs, r)
    BY <1>2, <1>4, <2>1, <2>2, SegmentEnds
  <2>5. l \in 1 .. Len(lhs) /\ l >= l
    BY <1>5
  <2>6. F < hi(lhs, l)
    BY <1>3, <2>3, <2>5 DEF Past
  <2>7. QED
    BY <2>1, <2>3, <2>4, <2>6
<1>9. CASE r # Len(rhs) + 1 /\ ~ (F + 1 = lo(rhs, r)) /\ HaltAt(-1, l, r)
  <2>1. F + 1 < lo(rhs, r) /\ lo(lhs, l) < lo(rhs, r)
    BY <1>4, <1>8, <1>9
  <2>2. Precedes(lhs, rhs, values)
    BY <1>2, <1>3, <1>5, <1>8, <1>9, <2>1, PrecedesAtGap
  <2>3. -1 \in {-1, 0, 1} /\ -1 # 0 /\ -1 # 1
    OBVIOUS
  <2>4. QED
    BY <1>1, <1>9, <2>2, <2>3, OrderHalts
<1>10. CASE r # Len(rhs) + 1 /\ F + 1 = lo(rhs, r) /\ ByOrder!CompareValues
  <2>1. Here(lhs, l, F + 1) /\ Here(rhs, r, F + 1) /\ F + 1 \in Int
    BY <1>4, <1>5, <1>8, <1>10 DEF Here
  <2>2. ValueStep
    BY <1>5, <1>8, <1>10, OrderCompares
  <2>3. QED
    BY <1>1, <1>3, <1>5, <1>8, <1>10, <2>1, <2>2, OrderValues
<1>11. QED
  BY <1>6, <1>7, <1>9, <1>10

-----------------------------------------------------------------------------
(***************************************************************************)
(* The invariant.                                                          *)
(***************************************************************************)

\* The containers are as the caller gave them, and the pass is at a frontier.
ComparisonInv ==
  /\ ContainersInv
  /\ by # "order" => InclusionInv
  /\ by = "order" => OrderInv

\* Before its first segment a container has nothing.
LEMMA StartsAfter ==
  ASSUME NEW c, Segments(c)
  PROVE  \E F \in Int : \A G \in Int : G <= F => Past(c, 1, G) /\ Fresh(c, 1, G)
<1>1. Len(c) \in Nat
  BY SegmentEnds
<1>2. CASE Len(c) = 0
  <2>1. \A G \in Int : Past(c, 1, G) /\ Fresh(c, 1, G)
    BY <1>2 DEF Past, Fresh
  <2>2. QED
    BY <2>1
<1>3. CASE Len(c) # 0
  <2>1. 1 \in 1 .. Len(c)
    BY <1>1, <1>3
  <2>2. lo(c, 1) \in Int
    BY <2>1, SegmentEnds
  <2>3. \A j \in 1 .. Len(c) : lo(c, j) >= lo(c, 1) /\ hi(c, j) >= lo(c, 1)
    <3>1. SUFFICES ASSUME NEW j \in 1 .. Len(c)
                   PROVE  lo(c, j) >= lo(c, 1) /\ hi(c, j) >= lo(c, 1)
      OBVIOUS
    <3>2. /\ lo(c, j) \in Int /\ hi(c, j) \in Int /\ lo(c, j) <= hi(c, j)
          /\ hi(c, 1) \in Int /\ lo(c, 1) <= hi(c, 1)
      BY <2>1, SegmentEnds
    <3>3. CASE j = 1
      BY <2>2, <3>2, <3>3
    <3>4. CASE 1 < j
      <4>1. hi(c, 1) < lo(c, j)
        BY <2>1, <3>4, SegmentEnds
      <4>2. QED
        BY <2>2, <3>2, <4>1
    <3>5. QED
      BY <3>1, <3>3, <3>4
  <2>4. \A j \in 1 .. Len(c) : lo(c, j) \in Int /\ hi(c, j) \in Int
    BY SegmentEnds
  <2> DEFINE F == lo(c, 1) - 1
  <2>5. ASSUME NEW G \in Int, G <= F
        PROVE  Past(c, 1, G) /\ Fresh(c, 1, G)
    <3>1. \A j \in 1 .. Len(c) : lo(c, j) > G /\ hi(c, j) > G
      BY <2>2, <2>3, <2>4, <2>5
    <3>2. \A j \in 1 .. Len(c) : ~ (j < 1)
      BY <1>1
    <3>3. QED
      BY <3>1, <3>2 DEF Past, Fresh
  <2>6. F \in Int
    BY <2>2
  <2>7. QED
    BY <2>5, <2>6
<1>4. QED
  BY <1>2, <1>3

\* A pass begins before everything.
LEMMA PassStarts ==
  ASSUME Segments(lhs), Segments(rhs), l = 1, r = 1, prior_left = 0, prior_right = 0,
         state = "nextboth", NEW res
  PROVE  Within /\ Frontier(res)
<1>1. Len(lhs) \in Nat /\ Len(rhs) \in Nat
  BY SegmentEnds
<1>2. Within
  BY <1>1 DEF Within
<1>3. PICK F1 \in Int : \A G \in Int : G <= F1 => Past(lhs, 1, G) /\ Fresh(lhs, 1, G)
  BY StartsAfter
<1>4. PICK F2 \in Int : \A G \in Int : G <= F2 => Past(rhs, 1, G) /\ Fresh(rhs, 1, G)
  BY StartsAfter
<1>5. PICK F \in Int : F <= F1 /\ F <= F2
  <2>1. CASE F1 <= F2
    BY <2>1
  <2>2. CASE F2 <= F1
    BY <2>2
  <2>3. QED
    BY <2>1, <2>2
<1>6. Past(lhs, 1, F) /\ Fresh(lhs, 1, F) /\ Past(rhs, 1, F) /\ Fresh(rhs, 1, F)
  BY <1>3, <1>4, <1>5
<1>7. Shape(lhs, rhs, l, r, prior_left, prior_right, state, F)
  BY <1>1, <1>6 DEF Shape
<1>8. ASSUME NEW c, NEW d, Segments(c), Fresh(c, 1, F)
      PROVE  Fits(c, d, values, F)
  <2>1. SUFFICES ASSUME NEW k \in Int, k <= F, NEW i, Here(c, i, k)
                 PROVE  FALSE
    BY DEF Fits, Good
  <2>2. i \in 1 .. Len(c) /\ i >= 1 /\ lo(c, i) <= k /\ lo(c, i) \in Int
    BY <1>8, <2>1, SegmentEnds DEF Here
  <2>3. lo(c, i) > F
    BY <1>8, <2>2 DEF Fresh
  <2>4. QED
    BY <2>1, <2>2, <2>3
<1>9. Fits(lhs, rhs, values, F) /\ Fits(rhs, lhs, values, F)
  BY <1>6, <1>8
<1>10. Going(lhs, rhs, values, l, r, state, res, F)
  BY <1>9 DEF Going
<1>11. QED
  BY <1>2, <1>7, <1>10 DEF Frontier

\* The first state of each loop is at a frontier.
LEMMA ComparisonInit ==
  ASSUME Init
  PROVE  ComparisonInv
<1>1. PICK c \in Comparisons : by = c.by /\ lhs = c.lhs /\ rhs = c.rhs /\ values = c.values
  BY DEF Init
<1>2. ContainersInv
  BY <1>1, ComparisonsAssumption DEF ContainersInv
<1>3. Segments(lhs) /\ Segments(rhs)
  BY <1>2 DEF ContainersInv
<1>4. CASE by = "segments" /\ BySegments!Init
  <2>1. /\ l = 1 /\ r = 1 /\ prior_left = 0 /\ prior_right = 0 /\ state = "nextboth"
        /\ result = {"subset", "superset"}
    BY <1>4 DEF BySegments!Init, BySegments!PassInit, BySegments!equal, BySegments!subset,
       BySegments!superset
  <2>2. Within /\ Frontier(result)
    BY <1>3, <2>1, PassStarts
  <2>3. InclusionInv
    BY <2>1, <2>2 DEF InclusionInv
  <2>4. QED
    BY <1>2, <1>4, <2>3 DEF ComparisonInv
<1>5. CASE by = "order" /\ ByOrder!Init
  <2>1. /\ l = 1 /\ r = 1 /\ prior_left = 0 /\ prior_right = 0 /\ state = "nextboth"
        /\ result = 0
    BY <1>5 DEF ByOrder!Init, ByOrder!PassInit, ByOrder!equal
  <2>2. Within /\ Frontier({"subset", "superset"})
    BY <1>3, <2>1, PassStarts
  <2>3. OrderInv
    BY <2>1, <2>2 DEF OrderInv
  <2>4. QED
    BY <1>2, <1>5, <2>3 DEF ComparisonInv
<1>6. CASE by = "elements" /\ ByElements!Init
  <2>1. /\ l = 1 /\ r = 1 /\ prior_left = 0 /\ prior_right = 0 /\ state = "nextboth"
        /\ result = {"subset", "superset"}
    BY <1>6 DEF ByElements!Init, ByElements!PassInit, ByElements!equal, ByElements!subset,
       ByElements!superset
  <2>2. Within /\ Frontier(result)
    BY <1>3, <2>1, PassStarts
  <2>3. InclusionInv
    BY <2>1, <2>2 DEF InclusionInv
  <2>4. QED
    BY <1>2, <1>6, <2>3 DEF ComparisonInv
<1>7. QED
  BY <1>4, <1>5, <1>6 DEF Init

\* Every step of a loop keeps the containers, and so the invariant of its pass.
LEMMA ComparisonNext ==
  ASSUME ComparisonInv, Next
  PROVE  ComparisonInv' /\ UNCHANGED <<by, lhs, rhs, values>> /\ state # "stop"
<1>1. by' = by
  BY DEF Next
<1>2. UNCHANGED <<lhs, rhs, values>> /\ state # "stop"
  <2>1. CASE by = "segments" /\ BySegments!Next
    BY <2>1 DEF BySegments!Next, BySegments!next_both, BySegments!next_left,
       BySegments!next_right, BySegments!containers
  <2>2. CASE by = "order" /\ ByOrder!Next
    BY <2>2 DEF ByOrder!Next, ByOrder!next_both, ByOrder!next_left, ByOrder!next_right,
       ByOrder!containers
  <2>3. CASE by = "elements" /\ ByElements!next_both
    BY <2>3 DEF ByElements!next_both, ByElements!containers
  <2>4. QED
    BY <2>1, <2>2, <2>3 DEF Next
<1>3. ContainersInv
  BY DEF ComparisonInv
<1>4. ContainersInv'
  BY <1>1, <1>2, <1>3 DEF ContainersInv
<1>5. CASE by = "segments" /\ BySegments!Next
  <2>1. InclusionInv'
    BY <1>3, <1>5, InclusionSegments DEF ComparisonInv
  <2>2. QED
    BY <1>1, <1>2, <1>4, <1>5, <2>1 DEF ComparisonInv
<1>6. CASE by = "order" /\ ByOrder!Next
  <2>1. OrderInv'
    BY <1>3, <1>6, OrderBoth, OrderLeft, OrderRight DEF ComparisonInv, ByOrder!Next
  <2>2. QED
    BY <1>1, <1>2, <1>4, <1>6, <2>1 DEF ComparisonInv
<1>7. CASE by = "elements" /\ ByElements!next_both
  <2>1. InclusionInv'
    BY <1>3, <1>7, InclusionElements DEF ComparisonInv
  <2>2. QED
    BY <1>1, <1>2, <1>4, <1>7, <2>1 DEF ComparisonInv
<1>8. QED
  BY <1>5, <1>6, <1>7 DEF Next

\* A step that changes nothing keeps it.
LEMMA ComparisonStutters ==
  ASSUME ComparisonInv, UNCHANGED vars
  PROVE  ComparisonInv'
<1>1. /\ by' = by /\ lhs' = lhs /\ rhs' = rhs /\ values' = values /\ l' = l /\ r' = r
      /\ prior_left' = prior_left /\ prior_right' = prior_right
      /\ result' = result /\ state' = state
  BY DEF vars, passVars, containers, iterators
<1>2. ContainersInv'
  BY <1>1 DEF ComparisonInv, ContainersInv
<1>3. by # "order" => InclusionInv'
  BY <1>1 DEF ComparisonInv, InclusionInv, Within, Frontier
<1>4. by = "order" => OrderInv'
  BY <1>1 DEF ComparisonInv, OrderInv, Within, Frontier
<1>5. QED
  BY <1>1, <1>2, <1>3, <1>4 DEF ComparisonInv

\* The inductive invariant of the comparisons: up to a frontier between what the
\* pass has left behind and what it has not, the result has been decided.
THEOREM ComparisonInvariant == Spec => []ComparisonInv
<1>1. Init => ComparisonInv
  BY ComparisonInit
<1>2. ComparisonInv /\ [Next]_vars => ComparisonInv'
  BY ComparisonNext, ComparisonStutters
<1>3. QED
  BY <1>1, <1>2, PTL DEF Spec

\* Iterators with a frontier, or of a pass that has stopped, are in their containers.
LEMMA IteratorsWithin ==
  ASSUME ContainersInv, Within, NEW res, state # "stop" => Frontier(res)
  PROVE  IteratorsOK
<1>1. Len(lhs) \in Nat /\ Len(rhs) \in Nat
  BY SegmentEnds DEF ContainersInv
<1>2. CASE state = "stop"
  BY <1>2 DEF Within, IteratorsOK
<1>3. CASE state # "stop"
  <2>1. PICK F \in Int : Shape(lhs, rhs, l, r, prior_left, prior_right, state, F)
    BY <1>3 DEF Frontier
  <2>2. state = "nextleft" => ~ RightEnd /\ prior_left # 0
    BY <1>1, <2>1 DEF Shape, RightEnd
  <2>3. state = "nextright" => ~ LeftEnd /\ prior_right # 0
    BY <1>1, <2>1 DEF Shape, LeftEnd
  <2>4. QED
    BY <2>2, <2>3 DEF Within, IteratorsOK
<1>4. QED
  BY <1>2, <1>3

\* No step reads past the end of a container or a prior segment that is not there,
\* and a result that nothing can change any more has ended the pass.
THEOREM PassesStayWithin == Spec => []TypeOK
<1>1. ComparisonInv => TypeOK
  <2>1. SUFFICES ASSUME ComparisonInv
                 PROVE  TypeOK
    OBVIOUS
  <2>2. ContainersInv
    BY <2>1 DEF ComparisonInv
  <2>3. CASE by # "order"
    <3>1. InclusionInv
      BY <2>1, <2>3 DEF ComparisonInv
    <3>2. IteratorsOK
      BY <2>2, <3>1, IteratorsWithin DEF InclusionInv
    <3>3. BySegments!TypeOK
      <4>1. BySegments!IteratorsOK
        BY <3>2 DEF IteratorsOK, BySegments!IteratorsOK, LeftEnd, RightEnd,
           BySegments!LeftEnd, BySegments!RightEnd
      <4>2. QED
        BY <3>1, <4>1 DEF BySegments!TypeOK, InclusionInv, BySegments!equal, BySegments!subset,
           BySegments!superset, BySegments!unrelated
    <3>4. QED
      BY <2>3, <3>2, <3>3 DEF TypeOK
  <2>4. CASE by = "order"
    <3>1. OrderInv
      BY <2>1, <2>4 DEF ComparisonInv
    <3>2. IteratorsOK
      BY <2>2, <3>1, IteratorsWithin DEF OrderInv
    <3>3. ByOrder!TypeOK
      <4>1. ByOrder!IteratorsOK
        BY <3>2 DEF IteratorsOK, ByOrder!IteratorsOK, LeftEnd, RightEnd,
           ByOrder!LeftEnd, ByOrder!RightEnd
      <4>2. QED
        BY <3>1, <4>1 DEF ByOrder!TypeOK, OrderInv, ByOrder!less, ByOrder!equal, ByOrder!greater
    <3>4. QED
      BY <2>4, <3>2, <3>3 DEF TypeOK
  <2>5. QED
    BY <2>3, <2>4
<1>2. QED
  BY <1>1, ComparisonInvariant, PTL

-----------------------------------------------------------------------------
(***************************************************************************)
(* The promise: ICLInclusion by the same key by key conditions.            *)
(***************************************************************************)

\* The elements of an interval, as ICLInclusion has them.
LEMMA PromisedElements ==
  ASSUME NEW i \in Interval, NEW k
  PROVE  k \in Promised!Elements(i) <=> k \in Int /\ first(i) <= k /\ k <= last(i)
<1>1. Promised!Elements(i) = Elements(i)
  BY DEF Promised!Elements, Elements, Promised!RightOpen, Promised!LeftOpen, Promised!Closed,
     RightOpen, LeftOpen, Closed
<1>2. QED
  BY <1>1, ElementsAre

\* What a container has at a key is the segment it is in.
LEMMA PromisedAt ==
  ASSUME NEW c, Segments(c), NEW k \in Int, NEW s
  PROVE  s \in Promised!At(c, k) <=> \E i : Here(c, i, k) /\ s = c[i]
<1>1. DOMAIN c = 1 .. Len(c) /\ \A i \in 1 .. Len(c) : c[i].itv \in Interval
  BY DEF Segments
<1>2. \A i \in 1 .. Len(c) : k \in Promised!Elements(c[i].itv) <=> Here(c, i, k)
  BY <1>1, PromisedElements DEF Here, lo, hi
<1>3. s \in Promised!At(c, k) <=> \E i \in 1 .. Len(c) : s = c[i] /\ k \in Promised!Elements(s.itv)
  BY <1>1 DEF Promised!At, Promised!ToSet
<1>4. ASSUME NEW i, Here(c, i, k)
      PROVE  i \in 1 .. Len(c)
  BY <1>4 DEF Here
<1>5. QED
  BY <1>2, <1>3, <1>4

\* Its keys are those that are somewhere in it.
LEMMA PromisedKeys ==
  ASSUME NEW c, Segments(c), NEW k
  PROVE  k \in Promised!KeysIn(c) <=> k \in Int /\ \E i : Here(c, i, k)
<1>1. DOMAIN c = 1 .. Len(c) /\ \A i \in 1 .. Len(c) : c[i].itv \in Interval
  BY DEF Segments
<1>2. \A i \in 1 .. Len(c) : k \in Promised!Elements(c[i].itv) <=> k \in Int /\ Here(c, i, k)
  BY <1>1, PromisedElements DEF Here, lo, hi
<1>3. k \in Promised!KeysIn(c) <=> \E i \in 1 .. Len(c) : k \in Promised!Elements(c[i].itv)
  BY <1>1 DEF Promised!KeysIn, Promised!ToSet
<1>4. ASSUME NEW i, Here(c, i, k)
      PROVE  i \in 1 .. Len(c)
  BY <1>4 DEF Here
<1>5. QED
  BY <1>2, <1>3, <1>4

\* Inclusion is the absence of a misfit.
LEMMA PromisedIncluded ==
  ASSUME NEW c, NEW d, Segments(c), Segments(d)
  PROVE  Promised!Included(c, d) <=> ~ Misfit(c, d, values)
<1>1. ASSUME Promised!Included(c, d), NEW k \in Int
      PROVE  Good(c, d, values, k)
  <2>1. SUFFICES ASSUME NEW i, Here(c, i, k)
                 PROVE  \E j : Here(d, j, k) /\ (values => c[i].val \subseteq d[j].val)
    BY DEF Good
  <2>2. k \in Promised!KeysIn(c)
    BY <2>1, PromisedKeys
  <2>3. k \in Promised!KeysIn(d)
    BY <1>1, <2>2 DEF Promised!Included
  <2>4. PICK j : Here(d, j, k)
    BY <2>3, PromisedKeys
  <2>5. c[i] \in Promised!At(c, k) /\ d[j] \in Promised!At(d, k)
    BY <2>1, <2>4, PromisedAt
  <2>6. values => c[i].val \subseteq d[j].val
    BY <1>1, <2>2, <2>5 DEF Promised!Included
  <2>7. QED
    BY <2>4, <2>6
<1>2. ASSUME \A k \in Int : Good(c, d, values, k)
      PROVE  Promised!Included(c, d)
  <2>1. ASSUME NEW k \in Promised!KeysIn(c)
        PROVE  k \in Promised!KeysIn(d)
    <3>1. k \in Int /\ \E i : Here(c, i, k)
      BY <2>1, PromisedKeys
    <3>2. \E j : Here(d, j, k)
      BY <1>2, <3>1 DEF Good
    <3>3. QED
      BY <3>1, <3>2, PromisedKeys
  <2>2. ASSUME values, NEW k \in Promised!KeysIn(c),
               NEW s \in Promised!At(c, k), NEW t \in Promised!At(d, k)
        PROVE  s.val \subseteq t.val
    <3>1. k \in Int
      BY <2>2, PromisedKeys
    <3>2. PICK i : Here(c, i, k) /\ s = c[i]
      BY <3>1, <2>2, PromisedAt
    <3>3. PICK j : Here(d, j, k) /\ t = d[j]
      BY <3>1, <2>2, PromisedAt
    <3>4. PICK n : Here(d, n, k) /\ (values => c[i].val \subseteq d[n].val)
      BY <1>2, <3>1, <3>2 DEF Good
    <3>5. n = j
      BY <3>1, <3>3, <3>4, OneHere
    <3>6. QED
      BY <2>2, <3>2, <3>3, <3>4, <3>5
  <2>3. QED
    BY <2>1, <2>2 DEF Promised!Included
<1>3. QED
  BY <1>1, <1>2 DEF Misfit

\* The containers differ where one of them has what the other one has not.
LEMMA PromisedDifferences ==
  ASSUME Segments(lhs), Segments(rhs), NEW k
  PROVE  k \in Promised!Differences
           <=> k \in Int /\ ~ (Good(lhs, rhs, values, k) /\ Good(rhs, lhs, values, k))
<1>1. k \in Promised!KeysIn(lhs) <=> k \in Int /\ \E i : Here(lhs, i, k)
  BY PromisedKeys
<1>2. k \in Promised!KeysIn(rhs) <=> k \in Int /\ \E i : Here(rhs, i, k)
  BY PromisedKeys
<1>3. k \in Promised!Differences <=>
        /\ k \in Promised!KeysIn(lhs) \/ k \in Promised!KeysIn(rhs)
        /\ \/ k \notin Promised!KeysIn(lhs) \/ k \notin Promised!KeysIn(rhs)
           \/ values /\ \E s \in Promised!At(lhs, k), t \in Promised!At(rhs, k) : s.val # t.val
  BY DEF Promised!Differences
<1>4. CASE k \notin Int
  BY <1>1, <1>2, <1>3, <1>4
<1>5. CASE k \in Int /\ ~ \E i : Here(lhs, i, k)
  BY <1>1, <1>2, <1>3, <1>5 DEF Good
<1>6. CASE k \in Int /\ ~ \E i : Here(rhs, i, k)
  BY <1>1, <1>2, <1>3, <1>6 DEF Good
<1>7. CASE k \in Int /\ (\E i : Here(lhs, i, k)) /\ (\E i : Here(rhs, i, k))
  <2>1. PICK i, j : Here(lhs, i, k) /\ Here(rhs, j, k)
    BY <1>7
  <2>2. \A s : s \in Promised!At(lhs, k) <=> s = lhs[i]
    BY <1>7, <2>1, PromisedAt, OneHere
  <2>3. \A t : t \in Promised!At(rhs, k) <=> t = rhs[j]
    BY <1>7, <2>1, PromisedAt, OneHere
  <2>4. k \in Promised!Differences <=> values /\ lhs[i].val # rhs[j].val
    BY <1>1, <1>2, <1>3, <1>7, <2>2, <2>3
  <2>5. Good(lhs, rhs, values, k) <=> (values => lhs[i].val \subseteq rhs[j].val)
    <3>1. \A n : Here(lhs, n, k) <=> n = i
      BY <1>7, <2>1, OneHere
    <3>2. \A n : Here(rhs, n, k) <=> n = j
      BY <1>7, <2>1, OneHere
    <3>3. QED
      BY <3>1, <3>2 DEF Good
  <2>6. Good(rhs, lhs, values, k) <=> (values => rhs[j].val \subseteq lhs[i].val)
    <3>1. \A n : Here(lhs, n, k) <=> n = i
      BY <1>7, <2>1, OneHere
    <3>2. \A n : Here(rhs, n, k) <=> n = j
      BY <1>7, <2>1, OneHere
    <3>3. QED
      BY <3>1, <3>2 DEF Good
  <2>7. lhs[i].val # rhs[j].val
          <=> ~ (lhs[i].val \subseteq rhs[j].val /\ rhs[j].val \subseteq lhs[i].val)
    OBVIOUS
  <2>8. QED
    BY <1>7, <2>4, <2>5, <2>6, <2>7
<1>8. QED
  BY <1>4, <1>5, <1>6, <1>7

\* Who precedes at the first difference is smaller, and the other one is not.
LEMMA PromisedSmaller ==
  ASSUME Segments(lhs), Segments(rhs), values => Ordered(lhs, rhs), NEW c, NEW d,
         (c = lhs /\ d = rhs) \/ (c = rhs /\ d = lhs), Precedes(c, d, values)
  PROVE  Promised!Smaller(c, d) /\ ~ Promised!Smaller(d, c)
<1>1. Segments(c) /\ Segments(d)
  OBVIOUS
<1>2. PICK k \in Int :
        /\ Fits(c, d, values, k - 1) /\ Fits(d, c, values, k - 1)
        /\ \/ /\ \E j : Here(d, j, k)
              /\ \A x \in Int : \A i : Here(c, i, x) => x < k
           \/ /\ \E i : Here(c, i, k)
              /\ \A j : ~ Here(d, j, k)
              /\ \E x \in Int : x > k /\ \E j : Here(d, j, x)
           \/ \E i, j : Here(c, i, k) /\ Here(d, j, k) /\ values /\ Before(c[i].val, d[j].val)
  BY DEF Precedes
<1>3. ASSUME NEW i, NEW j, Here(c, i, k), Here(d, j, k), values
      PROVE  /\ ~ (Before(c[i].val, d[j].val) /\ Before(d[j].val, c[i].val))
             /\ Before(c[i].val, d[j].val) => c[i].val # d[j].val
  <2>1. i \in DOMAIN c /\ j \in DOMAIN d
    BY <1>1, <1>3, SegmentEnds DEF Here
  <2>2. CASE c = lhs /\ d = rhs
    BY <1>3, <2>1, <2>2 DEF Ordered
  <2>3. CASE c = rhs /\ d = lhs
    <3>1. /\ ~ (Before(d[j].val, c[i].val) /\ Before(c[i].val, d[j].val))
          /\ d[j].val = c[i].val <=> ~ Before(d[j].val, c[i].val) /\ ~ Before(c[i].val, d[j].val)
      BY <1>3, <2>1, <2>3 DEF Ordered
    <3>2. QED
      BY <3>1
  <2>4. QED
    BY <2>2, <2>3
<1>4. \A x \in Int : x < k => Good(c, d, values, x) /\ Good(d, c, values, x)
  BY <1>2 DEF Fits
<1>5. ~ (Good(c, d, values, k) /\ Good(d, c, values, k))
  <2>1. CASE (\E j : Here(d, j, k)) /\ (\A x \in Int : \A i : Here(c, i, x) => x < k)
    <3>1. \A i : ~ Here(c, i, k)
      BY <2>1
    <3>2. ~ Good(d, c, values, k)
      BY <2>1, <3>1 DEF Good
    <3>3. QED
      BY <3>2
  <2>2. CASE (\E i : Here(c, i, k)) /\ (\A j : ~ Here(d, j, k))
    BY <2>2 DEF Good
  <2>3. CASE \E i, j : Here(c, i, k) /\ Here(d, j, k) /\ values /\ Before(c[i].val, d[j].val)
    <3>1. PICK i, j : Here(c, i, k) /\ Here(d, j, k) /\ values /\ Before(c[i].val, d[j].val)
      BY <2>3
    <3>2. c[i].val # d[j].val
      BY <1>3, <3>1
    <3>3. \A n : Here(c, n, k) <=> n = i
      BY <1>1, <3>1, OneHere
    <3>4. \A n : Here(d, n, k) <=> n = j
      BY <1>1, <3>1, OneHere
    <3>5. Good(c, d, values, k) <=> c[i].val \subseteq d[j].val
      BY <3>1, <3>3, <3>4 DEF Good
    <3>6. Good(d, c, values, k) <=> d[j].val \subseteq c[i].val
      BY <3>1, <3>3, <3>4 DEF Good
    <3>7. ~ (c[i].val \subseteq d[j].val /\ d[j].val \subseteq c[i].val)
      BY <3>2
    <3>8. QED
      BY <3>5, <3>6, <3>7
  <2>4. QED
    BY <1>2, <2>1, <2>2, <2>3
<1>6. \A x : x \in Promised!Differences
               <=> x \in Int /\ ~ (Good(c, d, values, x) /\ Good(d, c, values, x))
  BY PromisedDifferences
<1>7. k \in Promised!Differences /\ \A x \in Promised!Differences : k <= x
  <2>1. ASSUME NEW x \in Promised!Differences
        PROVE  k <= x
    <3>1. x \in Int /\ ~ (x < k)
      BY <1>4, <1>6, <2>1
    <3>2. QED
      BY <3>1
  <2>2. QED
    BY <1>5, <1>6, <2>1
<1>8. Promised!Min(Promised!Differences) = k /\ Promised!Differences # {}
  <2>1. \A x \in Promised!Differences : x \in Int
    BY <1>6
  <2> DEFINE D == Promised!Differences
  <2>2. Promised!Min(D) = CHOOSE x \in D : \A y \in D : x <= y
    BY DEF Promised!Min
  <2>3. k \in D /\ (\A x \in D : k <= x) /\ (\A x \in D : x \in Int)
    BY <1>7, <2>1
  <2> HIDE DEF D
  <2> DEFINE m == CHOOSE x \in D : \A y \in D : x <= y
  <2>4. m \in D /\ \A y \in D : m <= y
    BY <2>3
  <2>5. Promised!Min(D) = k
    <3>1. Promised!Min(D) = m
      BY <2>2
    <3> HIDE DEF m
    <3>2. m \in Int /\ k \in Int /\ m <= k /\ k <= m
      BY <2>3, <2>4
    <3>3. m = k
      BY <3>2
    <3>4. QED
      BY <3>1, <3>3
  <2>6. QED
    BY <2>3, <2>5 DEF D
<1>9. \A e : Segments(e) =>
        (Promised!EndsBefore(e, k) <=> \A x \in Int : \A i : Here(e, i, x) => x < k)
  BY PromisedKeys DEF Promised!EndsBefore
<1>10. /\ Promised!EndsBefore(c, k) <=> \A x \in Int : \A i : Here(c, i, x) => x < k
       /\ Promised!EndsBefore(d, k) <=> \A x \in Int : \A i : Here(d, i, x) => x < k
       /\ k \in Promised!KeysIn(c) <=> \E i : Here(c, i, k)
       /\ k \in Promised!KeysIn(d) <=> \E i : Here(d, i, k)
  BY <1>1, <1>9, PromisedKeys
<1>11. /\ \A s : s \in Promised!At(c, k) <=> \E i : Here(c, i, k) /\ s = c[i]
       /\ \A t : t \in Promised!At(d, k) <=> \E j : Here(d, j, k) /\ t = d[j]
  BY <1>1, PromisedAt
<1>12. Promised!Smaller(c, d) <=>
         \/ Promised!EndsBefore(c, k)
         \/ k \in Promised!KeysIn(c) /\ k \notin Promised!KeysIn(d) /\ ~ Promised!EndsBefore(d, k)
         \/ \E s \in Promised!At(c, k), t \in Promised!At(d, k) : Before(s.val, t.val)
  BY <1>8 DEF Promised!Smaller
<1>13. Promised!Smaller(d, c) <=>
         \/ Promised!EndsBefore(d, k)
         \/ k \in Promised!KeysIn(d) /\ k \notin Promised!KeysIn(c) /\ ~ Promised!EndsBefore(c, k)
         \/ \E s \in Promised!At(d, k), t \in Promised!At(c, k) : Before(s.val, t.val)
  BY <1>8 DEF Promised!Smaller
<1>14. CASE (\E j : Here(d, j, k)) /\ (\A x \in Int : \A i : Here(c, i, x) => x < k)
  <2>1. Promised!EndsBefore(c, k) /\ ~ Promised!EndsBefore(d, k)
    BY <1>10, <1>14
  <2>2. \A t : t \notin Promised!At(c, k)
    BY <1>11, <1>14
  <2>3. QED
    BY <1>12, <1>13, <2>1, <2>2
<1>15. CASE /\ \E i : Here(c, i, k)
            /\ \A j : ~ Here(d, j, k)
            /\ \E x \in Int : x > k /\ \E j : Here(d, j, x)
  <2>1. ~ Promised!EndsBefore(d, k)
    BY <1>10, <1>15
  <2>2. k \in Promised!KeysIn(c) /\ k \notin Promised!KeysIn(d)
    BY <1>10, <1>15
  <2>3. \A t : t \notin Promised!At(d, k)
    BY <1>11, <1>15
  <2>4. QED
    BY <1>12, <1>13, <2>1, <2>2, <2>3
<1>16. CASE \E i, j : Here(c, i, k) /\ Here(d, j, k) /\ values /\ Before(c[i].val, d[j].val)
  <2>1. PICK i, j : Here(c, i, k) /\ Here(d, j, k) /\ values /\ Before(c[i].val, d[j].val)
    BY <1>16
  <2>2. c[i] \in Promised!At(c, k) /\ d[j] \in Promised!At(d, k)
    BY <1>11, <2>1
  <2>3. ~ Promised!EndsBefore(d, k) /\ k \in Promised!KeysIn(c)
    BY <1>10, <2>1
  <2>4. ~ Before(d[j].val, c[i].val)
    BY <1>3, <2>1
  <2>5. \A s : s \in Promised!At(c, k) <=> s = c[i]
    BY <1>1, <1>11, <2>1, OneHere
  <2>6. \A t : t \in Promised!At(d, k) <=> t = d[j]
    BY <1>1, <1>11, <2>1, OneHere
  <2>7. Promised!Smaller(c, d)
    BY <1>12, <2>1, <2>2
  <2>8. ~ \E s \in Promised!At(d, k), t \in Promised!At(c, k) : Before(s.val, t.val)
    BY <2>4, <2>5, <2>6
  <2>9. QED
    BY <1>13, <2>3, <2>7, <2>8
<1>17. QED
  BY <1>2, <1>14, <1>15, <1>16

\* What ICLInclusion answers.
PromisedAnswer ==
  IF by = "order"
  THEN <<Promised!Smaller(lhs, rhs), Promised!Smaller(rhs, lhs)>>
  ELSE <<Promised!Differences = {}, Promised!Included(lhs, rhs), Promised!Included(rhs, lhs)>>

\* The caller is told that answer.
Answered == state = "stop" => Told = PromisedAnswer

\* There is no difference where nothing is missing on either side.
LEMMA PromisedEqual ==
  ASSUME Segments(lhs), Segments(rhs)
  PROVE  Promised!Differences = {} <=> ~ Misfit(lhs, rhs, values) /\ ~ Misfit(rhs, lhs, values)
<1>1. \A k : k \in Promised!Differences
               <=> k \in Int /\ ~ (Good(lhs, rhs, values, k) /\ Good(rhs, lhs, values, k))
  BY PromisedDifferences
<1>2. Promised!Differences = {} <=> \A k : k \notin Promised!Differences
  OBVIOUS
<1>3. QED
  BY <1>1, <1>2 DEF Misfit

\* Equal bits: the containers are equal, and each bit is an inclusion.
LEMMA InclusionAnswered ==
  ASSUME ComparisonInv, by # "order", state = "stop"
  PROVE  Told = PromisedAnswer
<1>1. Segments(lhs) /\ Segments(rhs) /\ by \in {"segments", "order", "elements"}
  BY DEF ComparisonInv, ContainersInv
<1>2. /\ result \in SUBSET {"subset", "superset"}
      /\ "subset" \in result <=> ~ Misfit(lhs, rhs, values)
      /\ "superset" \in result <=> ~ Misfit(rhs, lhs, values)
  BY DEF ComparisonInv, InclusionInv
<1>3. /\ (result = {"subset", "superset"}) <=> (Promised!Differences = {})
      /\ ("subset" \in result) <=> Promised!Included(lhs, rhs)
      /\ ("superset" \in result) <=> Promised!Included(rhs, lhs)
  <2>1. (result = {"subset", "superset"}) <=> "subset" \in result /\ "superset" \in result
    BY <1>2
  <2>2. QED
    BY <1>1, <1>2, <2>1, PromisedEqual, PromisedIncluded
<1>4. PromisedAnswer = <<Promised!Differences = {}, Promised!Included(lhs, rhs),
                         Promised!Included(rhs, lhs)>>
  BY DEF PromisedAnswer
<1>5. Promised!Included(lhs, rhs) \in BOOLEAN /\ Promised!Included(rhs, lhs) \in BOOLEAN
  BY DEF Promised!Included
<1>6. CASE by = "segments"
  <2>1. /\ BySegments!is_element_equal <=> (result = {"subset", "superset"})
        /\ BySegments!within <=> "subset" \in result
        /\ BySegments!contains_all <=> "superset" \in result
    BY <1>2 DEF BySegments!is_element_equal, BySegments!within, BySegments!contains_all,
       BySegments!equal, BySegments!subset, BySegments!superset
  <2>2. /\ BySegments!is_element_equal = (Promised!Differences = {})
        /\ BySegments!within = Promised!Included(lhs, rhs)
        /\ BySegments!contains_all = Promised!Included(rhs, lhs)
    <3>1. /\ BySegments!is_element_equal \in BOOLEAN /\ BySegments!within \in BOOLEAN
          /\ BySegments!contains_all \in BOOLEAN
      BY DEF BySegments!is_element_equal, BySegments!within, BySegments!contains_all
    <3>2. QED
      BY <1>3, <1>5, <2>1, <3>1
  <2>3. Told = <<BySegments!is_element_equal, BySegments!within, BySegments!contains_all>>
    BY <1>6 DEF Told
  <2>4. QED
    BY <1>4, <2>2, <2>3
<1>7. CASE by = "elements"
  <2>1. /\ (result = ByElements!equal) = (Promised!Differences = {})
        /\ ("subset" \in result) = Promised!Included(lhs, rhs)
        /\ ("superset" \in result) = Promised!Included(rhs, lhs)
    BY <1>3, <1>5 DEF ByElements!equal, ByElements!subset, ByElements!superset
  <2>2. Told = <<result = ByElements!equal, "subset" \in result, "superset" \in result>>
    BY <1>7 DEF Told
  <2>3. QED
    BY <1>4, <2>1, <2>2
<1>8. QED
  BY <1>1, <1>6, <1>7

\* The order of equal containers, or of the first difference.
LEMMA OrderAnswered ==
  ASSUME ComparisonInv, by = "order", state = "stop"
  PROVE  Told = PromisedAnswer
<1>1. Segments(lhs) /\ Segments(rhs) /\ (values => Ordered(lhs, rhs))
  BY DEF ComparisonInv, ContainersInv
<1>2. /\ result \in {-1, 0, 1}
      /\ result = 0 => ~ Misfit(lhs, rhs, values) /\ ~ Misfit(rhs, lhs, values)
      /\ result = -1 => Precedes(lhs, rhs, values)
      /\ result = 1 => Precedes(rhs, lhs, values)
  BY DEF ComparisonInv, OrderInv
<1>3. /\ result = -1 <=> Promised!Smaller(lhs, rhs)
      /\ result = 1 <=> Promised!Smaller(rhs, lhs)
  <2>1. CASE result = 0
    <3>1. Promised!Differences = {}
      BY <1>1, <1>2, <2>1, PromisedEqual
    <3>2. ~ Promised!Smaller(lhs, rhs) /\ ~ Promised!Smaller(rhs, lhs)
      BY <3>1 DEF Promised!Smaller
    <3>3. QED
      BY <2>1, <3>2
  <2>2. CASE result = -1
    BY <1>1, <1>2, <2>2, PromisedSmaller
  <2>3. CASE result = 1
    BY <1>1, <1>2, <2>3, PromisedSmaller
  <2>4. QED
    BY <1>2, <2>1, <2>2, <2>3
<1>4. Promised!Smaller(lhs, rhs) \in BOOLEAN /\ Promised!Smaller(rhs, lhs) \in BOOLEAN
  BY DEF Promised!Smaller
<1>5. /\ ByOrder!is_element_less = Promised!Smaller(lhs, rhs)
      /\ ByOrder!is_element_greater = Promised!Smaller(rhs, lhs)
  BY <1>3, <1>4 DEF ByOrder!is_element_less, ByOrder!is_element_greater, ByOrder!less,
     ByOrder!greater
<1>6. Told = <<ByOrder!is_element_less, ByOrder!is_element_greater>>
  BY DEF Told
<1>7. PromisedAnswer = <<Promised!Smaller(lhs, rhs), Promised!Smaller(rhs, lhs)>>
  BY DEF PromisedAnswer
<1>8. QED
  BY <1>5, <1>6, <1>7

\* Whichever loop the caller ran, and however the containers are cut into segments,
\* what it is told when the loop has stopped is the relation of the elements.
THEOREM AnswersAreRelations == Spec => []Answered
<1>1. ComparisonInv => Answered
  BY InclusionAnswered, OrderAnswered DEF Answered
<1>2. QED
  BY <1>1, ComparisonInvariant, PTL

\* The loops implement ICLInclusion: nothing is told at first, and a step tells the
\* promised answer, once, or nothing.
THEOREM ComparisonsAnswerAsPromised ==
  Spec => Promised!Init /\ [][Promised!Answer]_(Promised!vars)
<1>1. Init => Promised!Init
  <2>1. ASSUME Init
        PROVE  state = "nextboth"
    BY <2>1 DEF Init, BySegments!Init, ByOrder!Init, ByElements!Init, BySegments!PassInit,
       ByOrder!PassInit, ByElements!PassInit
  <2>2. QED
    BY <2>1 DEF Promised!Init
<1>2. ASSUME ComparisonInv, Answered', Next
      PROVE  Promised!Answer \/ UNCHANGED Promised!vars
  <2>1. UNCHANGED <<by, lhs, rhs, values>> /\ state # "stop"
    BY <1>2, ComparisonNext
  <2>2. CASE state' = "stop"
    <3>1. PromisedAnswer' = PromisedAnswer
      BY <2>1 DEF PromisedAnswer, Promised!Smaller, Promised!Differences, Promised!Included
    <3>2. Told' = PromisedAnswer
      BY <1>2, <2>2, <3>1 DEF Answered
    <3>3. QED
      BY <2>1, <2>2, <3>2 DEF Promised!Answer, PromisedAnswer
  <2>3. CASE state' # "stop"
    BY <2>1, <2>3 DEF Promised!vars
  <2>4. QED
    BY <2>2, <2>3
<1>3. ASSUME UNCHANGED vars
      PROVE  UNCHANGED Promised!vars
  BY <1>3 DEF vars, passVars, containers, iterators, Promised!vars, Told,
     BySegments!is_element_equal, BySegments!within, BySegments!contains_all,
     BySegments!equal, BySegments!subset, BySegments!superset,
     ByOrder!is_element_less, ByOrder!is_element_greater, ByOrder!less, ByOrder!greater,
     ByElements!equal, ByElements!subset, ByElements!superset
<1>4. ComparisonInv /\ Answered' /\ [Next]_vars => [Promised!Answer]_(Promised!vars)
  BY <1>2, <1>3
<1>5. QED
  BY <1>1, <1>4, ComparisonInvariant, AnswersAreRelations, PTL DEF Spec
============================================================================
