---------------------------- MODULE ICLMapProofs ----------------------------
(***************************************************************************)
(* Proofs about the operators of ICLIntervalMap, for maps of any size:     *)
(* what each of them does to the value of each key (ValueAt).  They are    *)
(* lemmas, which the theorems of ICLContainerProofs rest on.               *)
(*                                                                         *)
(* The module extends ICLContainers for its values: the caller's Values,   *)
(* and NoValue for what is not in a map.                                   *)
(***************************************************************************)
EXTENDS ICLContainers, ICLSetProofs

-----------------------------------------------------------------------------
(***************************************************************************)
(* Segments and maps.                                                      *)
(***************************************************************************)

\* The first and the last key of a segment.
Lo(s) == first(s.itv)
Hi(s) == last(s.itv)

\* The segments that a map may have.
SegmentType == [itv : Interval, val : SUBSET Values]

\* One is whole when its interval is proper.
Whole(s) == s \in SegmentType /\ Proper(s.itv)
Wholes == {s \in SegmentType : Proper(s.itv)}

\* One segment lies before the other.
ClearOf(s, t) == Hi(s) < Lo(t) \/ Hi(t) < Lo(s)

\* A map: its segments are not empty and do not overlap.
Mapped(M) ==
  /\ IsFiniteSet(M)
  /\ \A s \in M : Whole(s)
  /\ \A s, t \in M : s = t \/ ClearOf(s, t)

\* The value of a key.
ValueAt(M, k) ==
  IF \E s \in M : Lo(s) <= k /\ k <= Hi(s)
  THEN (CHOOSE s \in M : Lo(s) <= k /\ k <= Hi(s)).val ELSE NoValue

\* A key at which two segments meet that could be one.
Seam(M, k) == \E s, t \in M : Hi(s) + 1 = k /\ Lo(t) = k /\ s.val = t.val

\* What the type of a map asks of its segments.
MapFit(tr, M) ==
  /\ Mapped(M)
  /\ tr.joins => \A k \in Int : ~ Seam(M, k)
  /\ tr.absorbs => \A s \in M : s.val # {}

\* The parts of a segment.
LEMMA WholeIs ==
  ASSUME NEW s, Whole(s)
  PROVE  /\ s.itv \in Interval /\ Proper(s.itv) /\ s.val \in SUBSET Values
         /\ Lo(s) \in Int /\ Hi(s) \in Int /\ Lo(s) <= Hi(s) /\ s \in SegmentType
         /\ s.val # NoValue
BY ProperEnds, ContainersAssumption DEF Whole, SegmentType, Lo, Hi

\* A segment is made of an interval and a value.
LEMMA SegIs ==
  ASSUME NEW i, Proper(i), NEW v \in SUBSET Values
  PROVE  /\ Whole(seg(i, v)) /\ seg(i, v).itv = i /\ seg(i, v).val = v
         /\ Lo(seg(i, v)) = first(i) /\ Hi(seg(i, v)) = last(i)
BY ProperEnds DEF Whole, SegmentType, Lo, Hi, seg

\* A segment of an interval that may be empty.
LEMMA SegTyped ==
  ASSUME NEW i \in Interval, NEW v \in SUBSET Values
  PROVE  seg(i, v) \in SegmentType /\ seg(i, v).itv = i /\ seg(i, v).val = v
BY DEF SegmentType, seg

\* The segments of a map.
LEMMA MapEnds ==
  ASSUME NEW M, Mapped(M), NEW s \in M
  PROVE  /\ Whole(s) /\ s.itv \in Interval /\ Proper(s.itv) /\ s.val \in SUBSET Values
         /\ Lo(s) \in Int /\ Hi(s) \in Int /\ Lo(s) <= Hi(s)
         /\ s.val # NoValue
BY WholeIs DEF Mapped

\* A segment gives each of its keys its value.
LEMMA ValueIn ==
  ASSUME NEW M, Mapped(M), NEW s \in M, NEW k \in Int, Lo(s) <= k, k <= Hi(s)
  PROVE  ValueAt(M, k) = s.val
<1>1. \A t \in M : Lo(t) <= k /\ k <= Hi(t) => t = s
  <2> SUFFICES ASSUME NEW t \in M, Lo(t) <= k, k <= Hi(t)
               PROVE  t = s
    OBVIOUS
  <2>1. t = s \/ Hi(s) < Lo(t) \/ Hi(t) < Lo(s)
    BY DEF Mapped, ClearOf
  <2> QED BY <2>1, MapEnds
<1> DEFINE X == {t \in M : Lo(t) <= k /\ k <= Hi(t)}
<1>2. (CHOOSE t \in M : Lo(t) <= k /\ k <= Hi(t)) = s
  BY <1>1
<1> QED BY <1>2 DEF ValueAt

\* A key that is in no segment has no value.
LEMMA ValueOut ==
  ASSUME NEW M, NEW k, \A s \in M : ~ (Lo(s) <= k /\ k <= Hi(s))
  PROVE  ValueAt(M, k) = NoValue
BY DEF ValueAt

\* The value of a key is that of a segment, or there is none.
LEMMA ValueIs ==
  ASSUME NEW M, Mapped(M), NEW k \in Int
  PROVE  /\ ValueAt(M, k) \in (SUBSET Values) \cup {NoValue}
         /\ ValueAt(M, k) = NoValue <=> \A s \in M : ~ (Lo(s) <= k /\ k <= Hi(s))
         /\ ValueAt(M, k) # NoValue =>
              \E s \in M : Lo(s) <= k /\ k <= Hi(s) /\ ValueAt(M, k) = s.val
<1>1. CASE \E s \in M : Lo(s) <= k /\ k <= Hi(s)
  <2>1. PICK s \in M : Lo(s) <= k /\ k <= Hi(s)
    BY <1>1
  <2>2. ValueAt(M, k) = s.val
    BY <2>1, ValueIn
  <2>3. s.val \in SUBSET Values /\ s.val # NoValue
    BY MapEnds
  <2> HIDE DEF ValueAt
  <2> QED BY <2>1, <2>2, <2>3
<1>2. CASE \A s \in M : ~ (Lo(s) <= k /\ k <= Hi(s))
  BY <1>2, ValueOut
<1> QED BY <1>1, <1>2

\* New segments that are clear of each other and of those that stay.
LEMMA SegmentsReplaced ==
  ASSUME NEW M, Mapped(M), NEW E, NEW N, IsFiniteSet(N),
         \A n \in N : Whole(n),
         \A m, n \in N : m = n \/ ClearOf(m, n),
         \A s \in M \ E, n \in N : ClearOf(s, n)
  PROVE  Mapped((M \ E) \cup N)
<1>1. IsFiniteSet((M \ E) \cup N)
  <2>1. IsFiniteSet(M \ E)
    BY FS_Subset DEF Mapped
  <2> QED BY <2>1, FS_Union
<1>2. \A s \in (M \ E) \cup N : Whole(s)
  BY DEF Mapped
<1>3. \A s, t \in (M \ E) \cup N : s = t \/ ClearOf(s, t)
  BY DEF Mapped, ClearOf
<1> QED BY <1>1, <1>2, <1>3 DEF Mapped

\* A part of a map is a map.
LEMMA MapPart ==
  ASSUME NEW M, Mapped(M), NEW T \in SUBSET M
  PROVE  Mapped(T) /\ \A k : Seam(T, k) => Seam(M, k)
BY FS_Subset DEF Mapped, Seam

\* At most two new segments.
LEMMA FewAreFinite ==
  ASSUME NEW s, NEW t
  PROVE  IsFiniteSet({s}) /\ IsFiniteSet({s, t})
<1>1. IsFiniteSet({s}) /\ IsFiniteSet({t})
  BY FS_Singleton
<1>2. {s, t} = {s} \cup {t}
  OBVIOUS
<1> QED BY <1>1, <1>2, FS_Union

\* contains of two intervals that are not empty.
LEMMA ContainsIs ==
  ASSUME NEW i, NEW j, Proper(i), Proper(j)
  PROVE  contains(i, j) <=> first(i) <= first(j) /\ last(j) <= last(i)
BY ProperEnds DEF contains, lower_less_equal, upper_less_equal, lower_less, upper_less,
                  lower_equal, upper_equal

-----------------------------------------------------------------------------
(***************************************************************************)
(* Joining.                                                                *)
(***************************************************************************)

\* joinable, by the keys.
LEMMA JoinableIs ==
  ASSUME NEW r, NEW s
  PROVE  joinable(r, s) <=> Hi(r) + 1 = Lo(s) /\ r.val = s.val
BY DEF joinable, touches, Lo, Hi

\* J has the values of M.
SameValues(J, M) == \A k \in Int : ValueAt(J, k) = ValueAt(M, k)

\* Two joinable segments become one.
LEMMA Merged ==
  ASSUME NEW M, Mapped(M), NEW r \in M, NEW s \in M, joinable(r, s)
  PROVE  LET h == seg(hull_of(r.itv, s.itv), s.val)
             J == (M \ {r, s}) \cup {h}
         IN /\ Mapped(J) /\ SameValues(J, M)
            /\ Whole(h) /\ Lo(h) = Lo(r) /\ Hi(h) = Hi(s) /\ h.val = s.val
            /\ \A k \in Int : Seam(J, k) => Seam(M, k) /\ k # Lo(s)
<1> DEFINE h == seg(hull_of(r.itv, s.itv), s.val)
           J == (M \ {r, s}) \cup {h}
<1>s. \A t \in M : /\ Whole(t) /\ Proper(t.itv) /\ t.val \in SUBSET Values
                   /\ Lo(t) \in Int /\ Hi(t) \in Int /\ Lo(t) <= Hi(t)
  BY MapEnds
<1>1. Hi(r) + 1 = Lo(s) /\ r.val = s.val
  BY JoinableIs
<1>2. Whole(h) /\ Lo(h) = Lo(r) /\ Hi(h) = Hi(s) /\ h.val = s.val
  <2> DEFINE u == hull_of(r.itv, s.itv)
  <2>1. /\ Proper(u)
        /\ first(u) = IF Lo(r) < Lo(s) THEN Lo(r) ELSE Lo(s)
        /\ last(u) = IF Hi(r) < Hi(s) THEN Hi(s) ELSE Hi(r)
    BY <1>s, HullIs DEF Lo, Hi
  <2> HIDE DEF u
  <2>2. first(u) = Lo(r) /\ last(u) = Hi(s)
    BY <1>s, <1>1, <2>1
  <2>3. Whole(seg(u, s.val)) /\ Lo(seg(u, s.val)) = first(u)
        /\ Hi(seg(u, s.val)) = last(u) /\ seg(u, s.val).val = s.val
    BY <1>s, <2>1, SegIs
  <2> QED BY <2>2, <2>3 DEF u
<1> HIDE DEF h
<1>3. \A t \in M \ {r, s} : ClearOf(t, h)
  <2> SUFFICES ASSUME NEW t \in M \ {r, s}
               PROVE  ClearOf(t, h)
    OBVIOUS
  <2>1. ClearOf(t, r) /\ ClearOf(t, s)
    BY DEF Mapped
  <2> QED BY <1>s, <1>1, <1>2, <2>1 DEF ClearOf
<1>4. Mapped(J)
  <2>1. IsFiniteSet({h})
    BY FewAreFinite
  <2> QED BY <1>2, <1>3, <2>1, SegmentsReplaced, ZenonT(40)
<1>5. SameValues(J, M)
  <2> SUFFICES ASSUME NEW k \in Int
               PROVE  ValueAt(J, k) = ValueAt(M, k)
    BY DEF SameValues
  <2>1. CASE Lo(h) <= k /\ k <= Hi(h)
    <3>1. ValueAt(J, k) = s.val
      BY <1>2, <1>4, <2>1, ValueIn
    <3>2. (Lo(r) <= k /\ k <= Hi(r)) \/ (Lo(s) <= k /\ k <= Hi(s))
      BY <1>s, <1>1, <1>2, <2>1
    <3>3. ValueAt(M, k) = s.val
      BY <1>1, <3>2, ValueIn
    <3> QED BY <3>1, <3>3
  <2>2. CASE ~ (Lo(h) <= k /\ k <= Hi(h)) /\ \E t \in M : Lo(t) <= k /\ k <= Hi(t)
    <3>1. PICK t \in M : Lo(t) <= k /\ k <= Hi(t)
      BY <2>2
    <3>2. t # r /\ t # s
      BY <1>s, <1>1, <1>2, <2>2, <3>1
    <3> QED BY <1>4, <3>1, <3>2, ValueIn
  <2>3. CASE ~ (Lo(h) <= k /\ k <= Hi(h)) /\ \A t \in M : ~ (Lo(t) <= k /\ k <= Hi(t))
    BY <2>3, ValueOut
  <2> QED BY <2>1, <2>2, <2>3
<1>6. ASSUME NEW k \in Int, Seam(J, k)
      PROVE  Seam(M, k) /\ k # Lo(s)
  <2>1. PICK a \in J, b \in J : Hi(a) + 1 = k /\ Lo(b) = k /\ a.val = b.val
    BY <1>6 DEF Seam
  <2>2. Seam(M, k)
    <3>1. \E c \in M : Hi(c) = Hi(a) /\ c.val = a.val
      BY <1>2
    <3>2. \E c \in M : Lo(c) = Lo(b) /\ c.val = b.val
      BY <1>1, <1>2
    <3> QED BY <2>1, <3>1, <3>2 DEF Seam
  <2>3. ASSUME k = Lo(s)
        PROVE  FALSE
    <3>1. CASE b = h
      <4>1. Lo(r) \in Int /\ Hi(r) \in Int /\ Lo(r) <= Hi(r)
        BY <1>s
      <4>2. Lo(r) = Hi(r) + 1
        BY <1>1, <1>2, <2>1, <2>3, <3>1
      <4> QED BY <4>1, <4>2
    <3>2. CASE b \in M /\ b # s
      <4>1. ClearOf(b, s)
        BY <3>2 DEF Mapped
      <4> QED BY <1>s, <2>1, <2>3, <3>2, <4>1 DEF ClearOf
    <3> QED BY <1>1, <2>1, <3>1, <3>2
  <2> QED BY <2>2, <2>3
<1> QED BY <1>2, <1>4, <1>5, <1>6 DEF h

\* join_left: the values stay, and no seam is left where s begins.
LEMMA JoinLeftIs ==
  ASSUME NEW M, Mapped(M), NEW s \in M
  PROVE  LET J == join_left(M, s)
         IN /\ Mapped(J) /\ SameValues(J, M)
            /\ \A k \in Int : Seam(J, k) => Seam(M, k) /\ k # Lo(s)
            /\ \E u \in J : /\ u.val = s.val /\ Hi(u) = Hi(s) /\ Lo(u) <= Lo(s)
                            /\ \A t \in J : t = u \/ t \in M
            /\ \A t \in M : Hi(s) < Lo(t) => t \in J
<1> DEFINE P == {p \in M : joinable(p, s)}
           J == join_left(M, s)
<1>s. \A t \in M : /\ Whole(t) /\ Proper(t.itv) /\ t.val \in SUBSET Values
                   /\ Lo(t) \in Int /\ Hi(t) \in Int /\ Lo(t) <= Hi(t)
  BY MapEnds
<1>1. CASE P = {}
  <2>1. J = M
    BY <1>1 DEF join_left
  <2>2. ASSUME NEW k \in Int, Seam(M, k), k = Lo(s)
        PROVE  FALSE
    <3>1. PICK a \in M, b \in M : Hi(a) + 1 = k /\ Lo(b) = k /\ a.val = b.val
      BY <2>2 DEF Seam
    <3>2. b = s
      BY <1>s, <2>2, <3>1 DEF Mapped, ClearOf
    <3> QED BY <1>1, <2>2, <3>1, <3>2, JoinableIs
  <2>3. SameValues(M, M)
    BY DEF SameValues
  <2> QED BY <1>s, <2>1, <2>2, <2>3
<1>2. CASE P # {}
  <2> DEFINE p == CHOOSE q \in P : TRUE
             h == seg(hull_of(p.itv, s.itv), s.val)
  <2>1. p \in M /\ joinable(p, s)
    BY <1>2
  <2>2. J = (M \ {p, s}) \cup {h}
    BY <1>2, Zenon DEF join_left
  <2> HIDE DEF p, J
  <2>3. /\ Mapped(J) /\ SameValues(J, M)
        /\ Whole(h) /\ Lo(h) = Lo(p) /\ Hi(h) = Hi(s) /\ h.val = s.val
        /\ \A k \in Int : Seam(J, k) => Seam(M, k) /\ k # Lo(s)
    BY <2>1, <2>2, Merged
  <2> HIDE DEF h
  <2>4. Hi(p) + 1 = Lo(s)
    BY <2>1, JoinableIs
  <2>5. Lo(h) <= Lo(s)
    BY <1>s, <2>1, <2>3, <2>4
  <2>6. \A t \in M : Hi(s) < Lo(t) => t # p /\ t # s
    BY <1>s, <2>1, <2>4
  <2>7. h \in J /\ \A t \in J : t = h \/ t \in M
    BY <2>2
  <2>8. \A t \in M : Hi(s) < Lo(t) => t \in J
    BY <2>2, <2>6
  <2>9. \E u \in J : /\ u.val = s.val /\ Hi(u) = Hi(s) /\ Lo(u) <= Lo(s)
                     /\ \A t \in J : t = u \/ t \in M
    BY <2>3, <2>5, <2>7
  <2> QED BY <2>3, <2>8, <2>9 DEF J
<1> QED BY <1>1, <1>2

\* join_right: the values stay, and no seam is left where s ends.
LEMMA JoinRightIs ==
  ASSUME NEW M, Mapped(M), NEW s \in M
  PROVE  LET J == join_right(M, s)
         IN /\ Mapped(J) /\ SameValues(J, M)
            /\ \A k \in Int : Seam(J, k) => Seam(M, k) /\ k # Hi(s) + 1
            /\ \A t \in M : Hi(t) < Lo(s) => t \in J
            /\ (\A t \in M : ~ joinable(s, t)) => J = M
<1> DEFINE P == {n \in M : joinable(s, n)}
           J == join_right(M, s)
<1>s. \A t \in M : /\ Whole(t) /\ Proper(t.itv) /\ t.val \in SUBSET Values
                   /\ Lo(t) \in Int /\ Hi(t) \in Int /\ Lo(t) <= Hi(t)
  BY MapEnds
<1>1. CASE P = {}
  <2>1. J = M
    BY <1>1 DEF join_right
  <2>2. ASSUME NEW k \in Int, Seam(M, k), k = Hi(s) + 1
        PROVE  FALSE
    <3>1. PICK a \in M, b \in M : Hi(a) + 1 = k /\ Lo(b) = k /\ a.val = b.val
      BY <2>2 DEF Seam
    <3>2. a = s
      BY <1>s, <2>2, <3>1 DEF Mapped, ClearOf
    <3> QED BY <1>1, <2>2, <3>1, <3>2, JoinableIs
  <2>3. SameValues(M, M)
    BY DEF SameValues
  <2> QED BY <2>1, <2>2, <2>3
<1>2. CASE P # {}
  <2> DEFINE n == CHOOSE q \in P : TRUE
             h == seg(hull_of(s.itv, n.itv), s.val)
  <2>1. n \in M /\ joinable(s, n)
    BY <1>2
  <2>2. J = (M \ {n, s}) \cup {h}
    BY <1>2, Zenon DEF join_right
  <2> HIDE DEF n, J
  <2>4. Hi(s) + 1 = Lo(n) /\ s.val = n.val
    BY <2>1, JoinableIs
  <2>5. h = seg(hull_of(s.itv, n.itv), n.val) /\ J = (M \ {s, n}) \cup {h}
    BY <2>2, <2>4
  <2> HIDE DEF h
  <2>3. /\ Mapped(J) /\ SameValues(J, M)
        /\ \A k \in Int : Seam(J, k) => Seam(M, k) /\ k # Lo(n)
    BY <2>1, <2>5, Merged
  <2>6. \A t \in M : Hi(t) < Lo(s) => t # n /\ t # s
    BY <1>s, <2>1, <2>4
  <2>8. \A t \in M : Hi(t) < Lo(s) => t \in J
    BY <2>2, <2>6
  <2> QED BY <2>1, <2>3, <2>4, <2>8 DEF J
<1> QED BY <1>1, <1>2

\* join_both: no seam is left at either end of s.
LEMMA JoinBothIs ==
  ASSUME NEW M, Mapped(M), NEW s \in M
  PROVE  LET J == join_both(M, s)
         IN /\ Mapped(J) /\ SameValues(J, M)
            /\ \A k \in Int : Seam(J, k) => Seam(M, k) /\ k # Lo(s) /\ k # Hi(s) + 1
<1> DEFINE L == join_left(M, s)
           r == CHOOSE x \in L : contains(x.itv, s.itv)
           J == join_right(L, r)
<1>s. /\ Whole(s) /\ Proper(s.itv) /\ s.itv \in Interval
      /\ Lo(s) \in Int /\ Hi(s) \in Int /\ Lo(s) <= Hi(s)
  BY MapEnds
<1>1. /\ Mapped(L) /\ SameValues(L, M)
      /\ \A k \in Int : Seam(L, k) => Seam(M, k) /\ k # Lo(s)
      /\ \E u \in L : /\ u.val = s.val /\ Hi(u) = Hi(s) /\ Lo(u) <= Lo(s)
                      /\ \A t \in L : t = u \/ t \in M
  BY JoinLeftIs
<1>2. join_both(M, s) = J
  BY DEF join_both, join_right_of
<1> HIDE DEF L
<1>3. PICK u \in L : u.val = s.val /\ Hi(u) = Hi(s) /\ Lo(u) <= Lo(s)
  BY <1>1
<1>e. \A t \in L : /\ Whole(t) /\ Proper(t.itv) /\ t.itv \in Interval
                   /\ Lo(t) \in Int /\ Hi(t) \in Int /\ Lo(t) <= Hi(t)
  BY <1>1, MapEnds
<1>4. \A x \in L : contains(x.itv, s.itv) <=> x = u
  <2> SUFFICES ASSUME NEW x \in L
               PROVE  contains(x.itv, s.itv) <=> x = u
    OBVIOUS
  <2>1. contains(x.itv, s.itv) <=> Lo(x) <= Lo(s) /\ Hi(s) <= Hi(x)
    BY <1>s, <1>e, ContainsIs DEF Lo, Hi
  <2>2. x = u \/ ClearOf(x, u)
    BY <1>1 DEF Mapped
  <2> QED BY <1>s, <1>e, <1>3, <2>1, <2>2 DEF ClearOf
<1>5. r = u
  BY <1>4
<1> HIDE DEF r
<1>6. /\ Mapped(J) /\ SameValues(J, L)
      /\ \A k \in Int : Seam(J, k) => Seam(L, k) /\ k # Hi(u) + 1
  BY <1>1, <1>5, JoinRightIs
<1> QED BY <1>1, <1>2, <1>3, <1>6 DEF SameValues

-----------------------------------------------------------------------------
(***************************************************************************)
(* One segment changed.                                                    *)
(***************************************************************************)

\* A key of a segment.
Within(k, s) == Lo(s) <= k /\ k <= Hi(s)

\* How to show what the values of a map are.
LEMMA ValuesFrom ==
  ASSUME NEW J, Mapped(J), NEW k \in Int, NEW v,
         \/ v = NoValue /\ \A s \in J : ~ Within(k, s)
         \/ \E s \in J : Within(k, s) /\ v = s.val
  PROVE  ValueAt(J, k) = v
BY ValueIn, ValueOut DEF Within

\* The value of a key, or the segment that has it.
LEMMA ValueCases ==
  ASSUME NEW M, Mapped(M), NEW k \in Int
  PROVE  \/ ValueAt(M, k) = NoValue /\ \A s \in M : ~ Within(k, s)
         \/ \E s \in M : /\ Within(k, s) /\ ValueAt(M, k) = s.val
                         /\ \A t \in M : Within(k, t) => t = s
<1>1. CASE \A s \in M : ~ Within(k, s)
  BY <1>1, ValueOut DEF Within
<1>2. CASE \E s \in M : Within(k, s)
  <2>1. PICK s \in M : Within(k, s)
    BY <1>2
  <2>2. ASSUME NEW t \in M, Within(k, t)
        PROVE  t = s
    <3>1. t = s \/ ClearOf(t, s)
      BY DEF Mapped
    <3> QED BY <2>1, <2>2, <3>1, MapEnds DEF Within, ClearOf
  <2>3. ValueAt(M, k) = s.val
    BY <2>1, ValueIn DEF Within
  <2> QED BY <2>1, <2>2, <2>3
<1> QED BY <1>1, <1>2

\* A segment gets another value.
LEMMA Revalued ==
  ASSUME NEW M, Mapped(M), NEW s \in M, NEW w \in SUBSET Values
  PROVE  LET n == seg(s.itv, w)
             J == (M \ {s}) \cup {n}
         IN /\ Mapped(J) /\ Whole(n) /\ Lo(n) = Lo(s) /\ Hi(n) = Hi(s) /\ n.val = w
            /\ \A k \in Int : ValueAt(J, k) = IF Within(k, s) THEN w ELSE ValueAt(M, k)
            /\ \A k \in Int : Seam(J, k) => Seam(M, k) \/ k = Lo(s) \/ k = Hi(s) + 1
<1> DEFINE n == seg(s.itv, w)
           J == (M \ {s}) \cup {n}
<1>1. Whole(n) /\ Lo(n) = Lo(s) /\ Hi(n) = Hi(s) /\ n.val = w
  BY MapEnds, SegIs DEF Lo, Hi
<1> HIDE DEF n
<1>2. \A t \in M \ {s} : ClearOf(t, n)
  BY <1>1 DEF Mapped, ClearOf
<1>3. Mapped(J)
  BY <1>1, <1>2, FewAreFinite, SegmentsReplaced, ZenonT(40)
<1>4. ASSUME NEW k \in Int
      PROVE  ValueAt(J, k) = IF Within(k, s) THEN w ELSE ValueAt(M, k)
  <2>1. CASE Within(k, s)
    BY <1>1, <1>3, <2>1, ValuesFrom DEF Within
  <2>2. CASE ~ Within(k, s) /\ ValueAt(M, k) = NoValue /\ \A t \in M : ~ Within(k, t)
    <3>1. \A t \in J : ~ Within(k, t)
      BY <1>1, <2>2 DEF Within
    <3> QED BY <1>3, <2>2, <3>1, ValuesFrom
  <2>3. CASE ~ Within(k, s) /\ \E t \in M : Within(k, t) /\ ValueAt(M, k) = t.val
    <3>1. PICK t \in M : Within(k, t) /\ ValueAt(M, k) = t.val
      BY <2>3
    <3>2. t \in J
      BY <2>3, <3>1
    <3> QED BY <1>3, <2>3, <3>1, <3>2, ValuesFrom
  <2> QED BY <2>1, <2>2, <2>3, ValueCases
<1>5. ASSUME NEW k \in Int, Seam(J, k)
      PROVE  Seam(M, k) \/ k = Lo(s) \/ k = Hi(s) + 1
  BY <1>1, <1>5 DEF Seam
<1> QED BY <1>1, <1>3, <1>4, <1>5 DEF n

\* A segment is taken out.
LEMMA Removed ==
  ASSUME NEW M, Mapped(M), NEW s \in M
  PROVE  LET J == M \ {s}
         IN /\ Mapped(J)
            /\ \A k \in Int :
                 ValueAt(J, k) = IF Within(k, s) THEN NoValue ELSE ValueAt(M, k)
            /\ \A k \in Int : Seam(J, k) => Seam(M, k) /\ k # Lo(s) /\ k # Hi(s) + 1
<1> DEFINE J == M \ {s}
<1>s. \A t \in M : Lo(t) \in Int /\ Hi(t) \in Int /\ Lo(t) <= Hi(t)
  BY MapEnds
<1>1. Mapped(J)
  BY MapPart
<1>2. \A t \in J : ClearOf(t, s)
  BY DEF Mapped
<1>4. ASSUME NEW k \in Int
      PROVE  ValueAt(J, k) = IF Within(k, s) THEN NoValue ELSE ValueAt(M, k)
  <2>1. CASE Within(k, s)
    <3>1. \A t \in J : ~ Within(k, t)
      BY <1>s, <1>2, <2>1 DEF Within, ClearOf
    <3> QED BY <1>1, <2>1, <3>1, ValuesFrom
  <2>2. CASE ~ Within(k, s) /\ ValueAt(M, k) = NoValue /\ \A t \in M : ~ Within(k, t)
    BY <1>1, <2>2, ValuesFrom
  <2>3. CASE ~ Within(k, s) /\ \E t \in M : Within(k, t) /\ ValueAt(M, k) = t.val
    <3>1. PICK t \in M : Within(k, t) /\ ValueAt(M, k) = t.val
      BY <2>3
    <3>2. t \in J
      BY <2>3, <3>1
    <3> QED BY <1>1, <2>3, <3>1, <3>2, ValuesFrom
  <2> QED BY <2>1, <2>2, <2>3, ValueCases
<1>5. ASSUME NEW k \in Int, Seam(J, k)
      PROVE  Seam(M, k) /\ k # Lo(s) /\ k # Hi(s) + 1
  <2>1. PICK a \in J, b \in J : Hi(a) + 1 = k /\ Lo(b) = k /\ a.val = b.val
    BY <1>5 DEF Seam
  <2>2. ClearOf(a, s) /\ ClearOf(b, s)
    BY <1>2
  <2>3. k # Lo(s) /\ k # Hi(s) + 1
    BY <1>s, <2>1, <2>2 DEF ClearOf
  <2>4. a \in M /\ b \in M
    OBVIOUS
  <2> QED BY <2>1, <2>3, <2>4 DEF Seam
<1> QED BY <1>1, <1>4, <1>5

\* A segment is put where there is none.
LEMMA Added ==
  ASSUME NEW M, Mapped(M), NEW i, Proper(i), NEW v \in SUBSET Values,
         \A s \in M : last(i) < Lo(s) \/ Hi(s) < first(i)
  PROVE  LET g == seg(i, v)
             J == M \cup {g}
         IN /\ Mapped(J)
            /\ \A k \in Int : ValueAt(J, k) = IF In(k, i) THEN v ELSE ValueAt(M, k)
            /\ \A k \in Int : Seam(J, k) =>
                 \/ Seam(M, k)
                 \/ k = first(i) /\ \E s \in M : Hi(s) + 1 = first(i)
                 \/ k = last(i) + 1
<1> DEFINE g == seg(i, v)
           J == M \cup {g}
<1>1. Whole(g) /\ g.itv = i /\ g.val = v /\ Lo(g) = first(i) /\ Hi(g) = last(i)
  BY SegIs
<1>0. first(i) \in Int /\ last(i) \in Int /\ first(i) <= last(i)
  BY ProperEnds
<1> HIDE DEF g
<1>2. \A s \in M \ {} : ClearOf(s, g)
  BY <1>1 DEF ClearOf
<1>3. Mapped(J)
  <2>1. Mapped((M \ {}) \cup {g})
    BY <1>1, <1>2, FewAreFinite, SegmentsReplaced
  <2> QED BY <2>1
<1>4. ASSUME NEW k \in Int
      PROVE  ValueAt(J, k) = IF In(k, i) THEN v ELSE ValueAt(M, k)
  <2>1. CASE In(k, i)
    <3>1. Within(k, g) /\ g \in J
      BY <1>1, <2>1 DEF Within, In
    <3> QED BY <1>1, <1>3, <2>1, <3>1, ValuesFrom
  <2>2. CASE ~ In(k, i) /\ ValueAt(M, k) = NoValue /\ \A t \in M : ~ Within(k, t)
    <3>1. \A t \in J : ~ Within(k, t)
      BY <1>1, <2>2 DEF Within, In
    <3> QED BY <1>3, <2>2, <3>1, ValuesFrom
  <2>3. CASE ~ In(k, i) /\ \E t \in M : Within(k, t) /\ ValueAt(M, k) = t.val
    BY <1>3, <2>3, ValuesFrom
  <2> QED BY <2>1, <2>2, <2>3, ValueCases
<1>5. ASSUME NEW k \in Int, Seam(J, k), ~ Seam(M, k), k # last(i) + 1
      PROVE  k = first(i) /\ \E s \in M : Hi(s) + 1 = first(i)
  <2>1. PICK a \in J, b \in J : Hi(a) + 1 = k /\ Lo(b) = k /\ a.val = b.val
    BY <1>5 DEF Seam
  <2>2. a # g
    BY <1>1, <1>5, <2>1
  <2>3. b = g
    BY <1>5, <2>1, <2>2 DEF Seam
  <2> QED BY <1>1, <2>1, <2>2, <2>3
<1> QED BY <1>3, <1>4, <1>5 DEF g

\* A segment is cut in two, of which the first may get another value.
LEMMA Cut ==
  ASSUME NEW M, Mapped(M), NEW s \in M, NEW w \in SUBSET Values,
         NEW i, Proper(i), NEW j, Proper(j),
         first(i) = Lo(s), last(i) + 1 = first(j), last(j) = Hi(s)
  PROVE  LET a == seg(i, w)
             b == seg(j, s.val)
             J == (M \ {s}) \cup {a, b}
         IN /\ Mapped(J) /\ a # b
            /\ \A k \in Int : ValueAt(J, k) = IF In(k, i) THEN w ELSE ValueAt(M, k)
            /\ \A k \in Int : Seam(J, k) => Seam(M, k) \/ k = Lo(s) \/ k = first(j)
            /\ w = s.val => \A k \in Int : Seam(J, k) => Seam(M, k) \/ k = first(j)
<1> DEFINE a == seg(i, w)
           b == seg(j, s.val)
           J == (M \ {s}) \cup {a, b}
<1>s. \A t \in M : Lo(t) \in Int /\ Hi(t) \in Int /\ Lo(t) <= Hi(t)
  BY MapEnds
<1>0. /\ first(i) \in Int /\ last(i) \in Int /\ first(i) <= last(i)
      /\ first(j) \in Int /\ last(j) \in Int /\ first(j) <= last(j)
  BY ProperEnds
<1>1. /\ Whole(a) /\ a.val = w /\ Lo(a) = first(i) /\ Hi(a) = last(i)
      /\ Whole(b) /\ b.val = s.val /\ Lo(b) = first(j) /\ Hi(b) = last(j)
  BY SegIs, MapEnds
<1> HIDE DEF a, b
<1>2. \A t \in M \ {s}, n \in {a, b} : ClearOf(t, n)
  <2> SUFFICES ASSUME NEW t \in M \ {s}
               PROVE  ClearOf(t, a) /\ ClearOf(t, b)
    OBVIOUS
  <2>1. ClearOf(t, s)
    BY DEF Mapped
  <2> QED BY <1>s, <1>0, <1>1, <2>1 DEF ClearOf
<1>3. a # b /\ ClearOf(a, b) /\ ClearOf(b, a)
  BY <1>0, <1>1 DEF ClearOf
<1>4. Mapped(J)
  <2>1. \A m, n \in {a, b} : m = n \/ ClearOf(m, n)
    BY <1>3
  <2>2. IsFiniteSet({a, b}) /\ \A n \in {a, b} : Whole(n)
    BY <1>1, FewAreFinite
  <2> QED BY <1>2, <2>1, <2>2, SegmentsReplaced
<1>5. ASSUME NEW k \in Int
      PROVE  ValueAt(J, k) = IF In(k, i) THEN w ELSE ValueAt(M, k)
  <2>1. CASE In(k, i)
    <3>1. Within(k, a) /\ a \in J
      BY <1>1, <2>1 DEF Within, In
    <3> QED BY <1>1, <1>4, <2>1, <3>1, ValuesFrom
  <2>2. CASE ~ In(k, i) /\ Within(k, s)
    <3>1. Within(k, b) /\ b \in J
      BY <1>0, <1>1, <2>2, <1>s DEF Within, In
    <3>2. ValueAt(J, k) = s.val
      BY <1>1, <1>4, <3>1, ValuesFrom
    <3>3. ValueAt(M, k) = s.val
      BY <2>2, ValuesFrom
    <3> QED BY <2>2, <3>2, <3>3
  <2>3. CASE ~ In(k, i) /\ ~ Within(k, s) /\ ValueAt(M, k) = NoValue
             /\ \A t \in M : ~ Within(k, t)
    <3>1. ~ Within(k, a) /\ ~ Within(k, b)
      BY <1>s, <1>0, <1>1, <2>3 DEF Within, In
    <3>2. \A t \in J : ~ Within(k, t)
      BY <2>3, <3>1
    <3> QED BY <1>4, <2>3, <3>2, ValuesFrom
  <2>4. CASE ~ In(k, i) /\ ~ Within(k, s) /\ \E t \in M : Within(k, t) /\ ValueAt(M, k) = t.val
    <3>1. PICK t \in M : Within(k, t) /\ ValueAt(M, k) = t.val
      BY <2>4
    <3>2. t \in J
      BY <2>4, <3>1
    <3> QED BY <1>4, <2>4, <3>1, <3>2, ValuesFrom
  <2> QED BY <2>1, <2>2, <2>3, <2>4, ValueCases
<1>6. ASSUME NEW k \in Int, Seam(J, k), k # first(j)
      PROVE  /\ Seam(M, k) \/ k = Lo(s)
             /\ w = s.val => Seam(M, k)
  <2>1. PICK c \in J, d \in J : Hi(c) + 1 = k /\ Lo(d) = k /\ c.val = d.val
    BY <1>6 DEF Seam
  <2>2. c # a /\ d # b
    BY <1>1, <1>6, <2>1
  <2>3. \E e \in M : Hi(e) = Hi(c) /\ e.val = c.val
    BY <1>1, <2>2
  <2>4. d = a \/ d \in M
    BY <2>2
  <2>5. Lo(a) = Lo(s)
    BY <1>1
  <2>6. w = s.val => \E e \in M : Lo(e) = Lo(d) /\ e.val = d.val
    BY <1>1, <2>4
  <2>7. w = s.val => Seam(M, k)
    BY <2>1, <2>3, <2>6 DEF Seam
  <2>8. d \in M => Seam(M, k)
    BY <2>1, <2>3 DEF Seam
  <2> QED BY <2>1, <2>4, <2>5, <2>7, <2>8
<1> QED BY <1>3, <1>4, <1>5, <1>6 DEF a, b

-----------------------------------------------------------------------------
(***************************************************************************)
(* The handlers by which the two types of map differ.                      *)
(***************************************************************************)

\* What is left of the keys of s if its value is absorbed.
LeftAfter(tr, M, s, k) ==
  IF is_absorbable(tr, s.val) /\ Within(k, s) THEN NoValue ELSE ValueAt(M, k)

\* handle_inserted joins the segment with both neighbours.
LEMMA InsertedIs ==
  ASSUME NEW tr, NEW M, Mapped(M), NEW s \in M
  PROVE  LET H == handle_inserted(tr, M, s)
         IN /\ Mapped(H) /\ SameValues(H, M)
            /\ tr.joins => \A k \in Int :
                 Seam(H, k) => Seam(M, k) /\ k # Lo(s) /\ k # Hi(s) + 1
<1>1. SameValues(M, M)
  BY DEF SameValues
<1> QED BY <1>1, JoinBothIs DEF handle_inserted

\* handle_inserted(prior_, it_) joins the segment with its left neighbour.
LEMMA GapInsertedIs ==
  ASSUME NEW tr, NEW M, Mapped(M), NEW s \in M
  PROVE  LET H == handle_gap_inserted(tr, M, s)
         IN /\ Mapped(H) /\ SameValues(H, M)
            /\ tr.joins => \A k \in Int : Seam(H, k) => Seam(M, k) /\ k # Lo(s)
            /\ \A t \in M : Hi(s) < Lo(t) => t \in H
            /\ \A t \in H : t \in M \/ Hi(t) = Hi(s)
<1>s. Lo(s) \in Int /\ Hi(s) \in Int /\ Lo(s) <= Hi(s)
  BY MapEnds
<1>1. SameValues(M, M)
  BY DEF SameValues
<1>2. CASE tr.joins
  <2>1. handle_gap_inserted(tr, M, s) = join_left(M, s)
    BY <1>2 DEF handle_gap_inserted
  <2> QED BY <2>1, JoinLeftIs
<1>3. CASE ~ tr.joins
  <2>1. handle_gap_inserted(tr, M, s) = M
    BY <1>3 DEF handle_gap_inserted
  <2> QED BY <1>1, <1>3, <2>1
<1> QED BY <1>2, <1>3

\* handle_left_combined absorbs the segment or joins it with its left neighbour.
LEMMA LeftCombinedIs ==
  ASSUME NEW tr, NEW M, Mapped(M), NEW s \in M
  PROVE  LET H == handle_left_combined(tr, M, s)
         IN /\ Mapped(H) /\ \A k \in Int : ValueAt(H, k) = LeftAfter(tr, M, s, k)
            /\ tr.joins => \A k \in Int : Seam(H, k) => Seam(M, k) /\ k # Lo(s)
            /\ \A t \in M : Hi(s) < Lo(t) => t \in H
            /\ \A t \in H : t \in M \/ Hi(t) = Hi(s)
<1>s. Lo(s) \in Int /\ Hi(s) \in Int /\ Lo(s) <= Hi(s)
  BY MapEnds
<1>1. CASE is_absorbable(tr, s.val)
  <2>1. handle_left_combined(tr, M, s) = M \ {s}
    BY <1>1 DEF handle_left_combined
  <2>2. /\ Mapped(M \ {s})
        /\ \A k \in Int : ValueAt(M \ {s}, k) = LeftAfter(tr, M, s, k)
        /\ \A k \in Int : Seam(M \ {s}, k) => Seam(M, k) /\ k # Lo(s)
    BY <1>1, Removed DEF LeftAfter
  <2>3. \A t \in M : Hi(s) < Lo(t) => t # s
    BY <1>s
  <2> QED BY <2>1, <2>2, <2>3
<1>2. CASE ~ is_absorbable(tr, s.val)
  <2>1. handle_left_combined(tr, M, s) = handle_gap_inserted(tr, M, s)
    BY <1>2 DEF handle_left_combined, handle_gap_inserted
  <2> QED BY <1>2, <2>1, GapInsertedIs DEF SameValues, LeftAfter
<1> QED BY <1>1, <1>2

\* handle_combined absorbs the segment or joins it with both neighbours.
LEMMA CombinedIs ==
  ASSUME NEW tr, NEW M, Mapped(M), NEW s \in M
  PROVE  LET H == handle_combined(tr, M, s)
         IN /\ Mapped(H) /\ \A k \in Int : ValueAt(H, k) = LeftAfter(tr, M, s, k)
            /\ tr.joins => \A k \in Int :
                 Seam(H, k) => Seam(M, k) /\ k # Lo(s) /\ k # Hi(s) + 1
<1>1. CASE is_absorbable(tr, s.val)
  <2>1. handle_combined(tr, M, s) = M \ {s}
    BY <1>1 DEF handle_combined
  <2>2. /\ Mapped(M \ {s})
        /\ \A k \in Int : ValueAt(M \ {s}, k) = LeftAfter(tr, M, s, k)
        /\ \A k \in Int : Seam(M \ {s}, k) => Seam(M, k) /\ k # Lo(s) /\ k # Hi(s) + 1
    BY <1>1, Removed DEF LeftAfter
  <2> QED BY <2>1, <2>2
<1>2. CASE ~ is_absorbable(tr, s.val)
  <2>1. handle_combined(tr, M, s) = handle_inserted(tr, M, s)
    BY <1>2 DEF handle_combined, handle_inserted
  <2> QED BY <1>2, <2>1, InsertedIs DEF SameValues, LeftAfter
<1> QED BY <1>1, <1>2

\* handle_succeeded_combined: the same with the segment that follows.
LEMMA SucceededIs ==
  ASSUME NEW tr, NEW M, Mapped(M), NEW s \in M, NEW n \in M, Hi(s) + 1 = Lo(n)
  PROVE  LET H == handle_succeeded_combined(tr, M, s, n)
         IN /\ Mapped(H) /\ \A k \in Int : ValueAt(H, k) = LeftAfter(tr, M, s, k)
            /\ tr.joins => \A k \in Int :
                 Seam(H, k) => Seam(M, k) /\ k # Lo(s) /\ k # Lo(n) /\ k # Hi(n) + 1
<1> DEFINE H == handle_succeeded_combined(tr, M, s, n)
<1>s. /\ Lo(s) \in Int /\ Hi(s) \in Int /\ Lo(s) <= Hi(s)
      /\ Lo(n) \in Int /\ Hi(n) \in Int /\ Lo(n) <= Hi(n)
  BY MapEnds
<1>1. CASE is_absorbable(tr, s.val)
  <2> DEFINE R == M \ {s}
  <2>1. /\ Mapped(R)
        /\ \A k \in Int : ValueAt(R, k) = LeftAfter(tr, M, s, k)
        /\ \A k \in Int : Seam(R, k) => Seam(M, k) /\ k # Lo(s) /\ k # Lo(n)
    BY <1>1, Removed DEF LeftAfter
  <2>2. n \in R
    BY <1>s
  <2>3. CASE ~ tr.joins
    <3>1. H = R
      BY <1>1, <2>3 DEF handle_succeeded_combined
    <3> QED BY <2>1, <2>3, <3>1
  <2>4. CASE tr.joins
    <3>1. H = join_right(R, n)
      BY <1>1, <2>4 DEF handle_succeeded_combined
    <3> HIDE DEF R, H
    <3>2. /\ Mapped(H) /\ SameValues(H, R)
          /\ \A k \in Int : Seam(H, k) => Seam(R, k) /\ k # Hi(n) + 1
      BY <2>1, <2>2, <3>1, JoinRightIs
    <3> QED BY <2>1, <3>2 DEF H, SameValues
  <2> QED BY <2>3, <2>4
<1>2. CASE ~ is_absorbable(tr, s.val) /\ ~ tr.joins
  <2>1. H = M
    BY <1>2 DEF handle_succeeded_combined
  <2> QED BY <1>2, <2>1 DEF LeftAfter
<1>3. CASE ~ is_absorbable(tr, s.val) /\ tr.joins
  <2> DEFINE L == join_left(M, s)
  <2>1. H = join_both(L, n)
    BY <1>3 DEF handle_succeeded_combined
  <2>2. /\ Mapped(L) /\ SameValues(L, M) /\ n \in L
        /\ \A k \in Int : Seam(L, k) => Seam(M, k) /\ k # Lo(s)
    <3>1. Hi(s) < Lo(n)
      BY <1>s
    <3> QED BY <3>1, JoinLeftIs
  <2> HIDE DEF L, H
  <2>3. /\ Mapped(H) /\ SameValues(H, L)
        /\ \A k \in Int : Seam(H, k) => Seam(L, k) /\ k # Lo(n) /\ k # Hi(n) + 1
    BY <2>1, <2>2, JoinBothIs
  <2> QED BY <1>3, <2>2, <2>3 DEF H, SameValues, LeftAfter
<1> QED BY <1>1, <1>2, <1>3

\* gap_insert_at: the last segment was combined, and the gap behind it is filled.
LEMMA GapAtIs ==
  ASSUME NEW tr, NEW M, Mapped(M), NEW s \in M, NEW i, Proper(i), NEW v \in SUBSET Values,
         first(i) = Hi(s) + 1, \A t \in M : last(i) < Lo(t) \/ Hi(t) < first(i)
  PROVE  LET H == gap_insert_at(tr, M, s, i, v)
         IN /\ Mapped(H)
            /\ \A k \in Int : ValueAt(H, k) = IF In(k, i) THEN v ELSE LeftAfter(tr, M, s, k)
            /\ tr.joins => \A k \in Int :
                 Seam(H, k) => Seam(M, k) /\ k # Lo(s) /\ k # Hi(s) + 1 /\ k # last(i) + 1
<1> DEFINE H == gap_insert_at(tr, M, s, i, v)
           g == seg(i, v)
<1>s. \A t \in M : Lo(t) \in Int /\ Hi(t) \in Int /\ Lo(t) <= Hi(t)
  BY MapEnds
<1>0. /\ Whole(g) /\ Lo(g) = first(i) /\ Hi(g) = last(i)
      /\ first(i) \in Int /\ last(i) \in Int /\ first(i) <= last(i)
  BY SegIs, ProperEnds
<1>1. CASE is_absorbable(tr, s.val)
  <2> DEFINE R == M \ {s}
             G == R \cup {g}
  <2>1. /\ Mapped(R)
        /\ \A k \in Int : ValueAt(R, k) = LeftAfter(tr, M, s, k)
        /\ \A k \in Int : Seam(R, k) => Seam(M, k) /\ k # Lo(s) /\ k # Hi(s) + 1
    BY <1>1, Removed DEF LeftAfter
  <2>2. \A t \in R : Hi(t) + 1 # first(i)
    <3> SUFFICES ASSUME NEW t \in R
                 PROVE  Hi(t) + 1 # Hi(s) + 1
      OBVIOUS
    <3>1. ClearOf(t, s)
      BY DEF Mapped
    <3>2. t \in M
      OBVIOUS
    <3> QED BY <1>s, <3>1, <3>2 DEF ClearOf
  <2>3. \A t \in R : last(i) < Lo(t) \/ Hi(t) < first(i)
    OBVIOUS
  <2> HIDE DEF R
  <2>4. /\ Mapped(G)
        /\ \A k \in Int : ValueAt(G, k) = IF In(k, i) THEN v ELSE ValueAt(R, k)
        /\ \A k \in Int : Seam(G, k) =>
             \/ Seam(R, k)
             \/ k = first(i) /\ \E t \in R : Hi(t) + 1 = first(i)
             \/ k = last(i) + 1
    BY <2>1, <2>3, Added
  <2>5. \A k \in Int : Seam(G, k) => Seam(R, k) \/ k = last(i) + 1
    BY <2>2, <2>4
  <2>6. g \in G
    OBVIOUS
  <2>7. CASE ~ tr.joins
    <3>1. H = G
      BY <1>1, <2>7 DEF gap_insert_at, R
    <3> QED BY <2>1, <2>4, <2>7, <3>1
  <2>8. CASE tr.joins
    <3>1. H = join_right(G, g)
      BY <1>1, <2>8 DEF gap_insert_at, R
    <3> HIDE DEF G, H, g
    <3>2. /\ Mapped(H) /\ SameValues(H, G)
          /\ \A k \in Int : Seam(H, k) => Seam(G, k) /\ k # Hi(g) + 1
      BY <2>4, <2>6, <3>1, JoinRightIs
    <3>3. \A k \in Int : ValueAt(H, k) = IF In(k, i) THEN v ELSE LeftAfter(tr, M, s, k)
      BY <2>1, <2>4, <3>2 DEF SameValues
    <3> QED BY <1>0, <2>1, <2>5, <3>2, <3>3 DEF H
  <2> QED BY <2>7, <2>8
<1>2. CASE ~ is_absorbable(tr, s.val) /\ ~ tr.joins
  <2>1. H = M \cup {g}
    BY <1>2 DEF gap_insert_at
  <2> HIDE DEF g
  <2>2. Mapped(M \cup {g}) /\ \A k \in Int : ValueAt(M \cup {g}, k) = IF In(k, i) THEN v ELSE ValueAt(M, k)
    BY Added DEF g
  <2> QED BY <1>2, <2>1, <2>2 DEF LeftAfter
<1>3. CASE ~ is_absorbable(tr, s.val) /\ tr.joins
  <2> DEFINE L == join_left(M, s)
             G == L \cup {g}
  <2>1. H = join_both(G, g)
    BY <1>3 DEF gap_insert_at
  <2>2. /\ Mapped(L) /\ SameValues(L, M)
        /\ \A k \in Int : Seam(L, k) => Seam(M, k) /\ k # Lo(s)
        /\ \E u \in L : /\ u.val = s.val /\ Hi(u) = Hi(s) /\ Lo(u) <= Lo(s)
                        /\ \A t \in L : t = u \/ t \in M
    BY JoinLeftIs
  <2> HIDE DEF L
  <2>3. \A t \in L : last(i) < Lo(t) \/ Hi(t) < first(i)
    BY <1>s, <2>2
  <2>4. /\ Mapped(G)
        /\ \A k \in Int : ValueAt(G, k) = IF In(k, i) THEN v ELSE ValueAt(L, k)
        /\ \A k \in Int : Seam(G, k) =>
             \/ Seam(L, k)
             \/ k = first(i) /\ \E t \in L : Hi(t) + 1 = first(i)
             \/ k = last(i) + 1
    BY <2>2, <2>3, Added
  <2>5. g \in G
    OBVIOUS
  <2> HIDE DEF G, H, g
  <2>6. /\ Mapped(H) /\ SameValues(H, G)
        /\ \A k \in Int : Seam(H, k) => Seam(G, k) /\ k # Lo(g) /\ k # Hi(g) + 1
    BY <2>1, <2>4, <2>5, JoinBothIs
  <2>7. \A k \in Int : ValueAt(H, k) = IF In(k, i) THEN v ELSE LeftAfter(tr, M, s, k)
    BY <1>3, <2>2, <2>4, <2>6 DEF SameValues, LeftAfter
  <2> QED BY <1>0, <2>2, <2>4, <2>6, <2>7 DEF H
<1> QED BY <1>1, <1>2, <1>3

-----------------------------------------------------------------------------
(***************************************************************************)
(* Look-up and iteration.                                                  *)
(***************************************************************************)

\* The segments of the map in the order of iteration are a list of its members,
\* each before the next.
LEMMA SegmentsIterated ==
  ASSUME NEW S, Mapped(S)
  PROVE  /\ SegmentsInOrder(S) \in Seq(S) /\ Len(SegmentsInOrder(S)) = Cardinality(S)
         /\ Cardinality(S) \in Nat
         /\ \A j, k \in 1 .. Len(SegmentsInOrder(S)) :
              j < k <=> Hi(SegmentsInOrder(S)[j]) < Lo(SegmentsInOrder(S)[k])
         /\ \A s \in S : \E k \in 1 .. Len(SegmentsInOrder(S)) : SegmentsInOrder(S)[k] = s
<1> DEFINE R == {p \in S \X S : exclusive_less(p[1].itv, p[2].itv)}
           q == SegmentsInOrder(S)
<1>1. \A r, s \in S : <<r, s>> \in R <=> Hi(r) < Lo(s)
  <2> SUFFICES ASSUME NEW r \in S, NEW s \in S
               PROVE  <<r, s>> \in R <=> Hi(r) < Lo(s)
    OBVIOUS
  <2>1. exclusive_less(r.itv, s.itv) <=> Hi(r) < Lo(s)
    BY LessIs, MapEnds DEF Lo, Hi
  <2> QED BY <2>1
<1>2. \A s \in S : {r \in S \ {s} : <<r, s>> \in R} = {r \in S \ {s} : exclusive_less(r.itv, s.itv)}
  OBVIOUS
<1> HIDE DEF R
<1>3. \A r \in S : <<r, r>> \notin R
  BY <1>1, MapEnds
<1>4. \A r, s \in S : r # s => <<r, s>> \in R \/ <<s, r>> \in R
  BY <1>1 DEF Mapped, ClearOf
<1>5. \A r, s, t \in S : <<r, s>> \in R /\ <<s, t>> \in R => <<r, t>> \in R
  <2> SUFFICES ASSUME NEW r \in S, NEW s \in S, NEW t \in S,
                      <<r, s>> \in R, <<s, t>> \in R
               PROVE  <<r, t>> \in R
    OBVIOUS
  <2>1. Hi(r) < Lo(s) /\ Hi(s) < Lo(t)
    BY <1>1
  <2>2. Hi(r) < Lo(t)
    BY <2>1, MapEnds
  <2> QED BY <1>1, <2>2
<1>6. Orders(R, S)
  BY <1>3, <1>4, <1>5 DEF Orders
<1>7. Ranks(q, R, S)
  <2>1. \A k \in 1 .. Cardinality(S) :
          q[k] = CHOOSE s \in S : Cardinality({r \in S \ {s} : exclusive_less(r.itv, s.itv)}) = k - 1
    BY Zenon DEF SegmentsInOrder
  <2>2. q = [k \in 1 .. Cardinality(S) |->
               CHOOSE s \in S : Cardinality({r \in S \ {s} : exclusive_less(r.itv, s.itv)}) = k - 1]
    BY Zenon DEF SegmentsInOrder
  <2> HIDE DEF q
  <2>3. q = [k \in 1 .. Cardinality(S) |-> q[k]]
    BY <2>1, <2>2, Zenon
  <2>4. ASSUME NEW k \in 1 .. Cardinality(S), NEW s \in S, RankIn(R, S, s) = k - 1
        PROVE  q[k] \in S /\ RankIn(R, S, q[k]) = k - 1
    <3>1. Cardinality({r \in S \ {s} : exclusive_less(r.itv, s.itv)}) = k - 1
      BY <1>2, <2>4 DEF RankIn
    <3>2. q[k] \in S /\ Cardinality({r \in S \ {q[k]} : exclusive_less(r.itv, q[k].itv)}) = k - 1
      BY <2>1, <3>1, Zenon
    <3> QED BY <1>2, <3>2 DEF RankIn
  <2> QED BY <2>3, <2>4, Zenon DEF Ranks
<1>0. IsFiniteSet(S) /\ Cardinality(S) \in Nat
  BY FS_CardinalityType DEF Mapped
<1> HIDE DEF q
<1>8. /\ q \in Seq(S) /\ Len(q) = Cardinality(S)
      /\ \A j, k \in 1 .. Len(q) : j < k <=> <<q[j], q[k]>> \in R
      /\ \A s \in S : \E k \in 1 .. Len(q) : q[k] = s
  BY <1>0, <1>6, <1>7, Listed
<1>9. \A j, k \in 1 .. Len(q) : j < k <=> Hi(q[j]) < Lo(q[k])
  <2>1. \A k \in 1 .. Len(q) : q[k] \in S
    BY <1>8
  <2> QED BY <1>1, <1>8, <2>1, Zenon
<1> QED BY <1>0, <1>8, <1>9 DEF q

\* mbegin and mlast are the first and the last segment.
LEMMA FirstAndLastSegment ==
  ASSUME NEW S, Mapped(S), S # {}
  PROVE  /\ mbegin(S) \in S /\ mlast(S) \in S
         /\ \A r \in S : r = mbegin(S) \/ Hi(mbegin(S)) < Lo(r)
         /\ \A r \in S : r = mlast(S) \/ Hi(r) < Lo(mlast(S))
<1> DEFINE q == SegmentsInOrder(S)
           n == Cardinality(S)
<1>1. /\ q \in Seq(S) /\ Len(q) = n /\ n \in Nat
      /\ \A j, k \in 1 .. Len(q) : j < k <=> Hi(q[j]) < Lo(q[k])
      /\ \A s \in S : \E k \in 1 .. Len(q) : q[k] = s
  BY SegmentsIterated
<1>2. n # 0
  BY FS_EmptySet DEF Mapped
<1> HIDE DEF q, n
<1>3. /\ 1 \in 1 .. Len(q) /\ n \in 1 .. Len(q)
      /\ \A k \in 1 .. Len(q) : (k = 1 \/ 1 < k) /\ (k = n \/ k < n)
  BY <1>1, <1>2
<1>4. q[1] \in S /\ q[n] \in S
  BY <1>1, <1>3
<1>5. \A r \in S : r = q[1] \/ Hi(q[1]) < Lo(r)
  BY <1>1, <1>3
<1>6. \A r \in S : r = q[n] \/ Hi(r) < Lo(q[n])
  BY <1>1, <1>3
<1>7. mbegin(S) \in S /\ \A r \in S \ {mbegin(S)} : exclusive_less(mbegin(S).itv, r.itv)
  <2>1. \A r \in S \ {q[1]} : exclusive_less(q[1].itv, r.itv)
    BY <1>4, <1>5, MapEnds, LessIs DEF Lo, Hi
  <2> QED BY <1>4, <2>1 DEF mbegin
<1>8. mlast(S) \in S /\ \A r \in S \ {mlast(S)} : exclusive_less(r.itv, mlast(S).itv)
  <2>1. \A r \in S \ {q[n]} : exclusive_less(r.itv, q[n].itv)
    BY <1>4, <1>6, MapEnds, LessIs DEF Lo, Hi
  <2> QED BY <1>4, <2>1 DEF mlast
<1> QED BY <1>7, <1>8, MapEnds, LessIs DEF Lo, Hi

\* overlap: the segments that share a key with i.
LEMMA OverlapIs ==
  ASSUME NEW S, Mapped(S), NEW i, Proper(i)
  PROVE  /\ overlap(S, i) \in SUBSET S
         /\ \A s \in S : s \in overlap(S, i) <=>
                           Lo(s) <= last(i) /\ first(i) <= Hi(s)
         /\ Mapped(overlap(S, i))
<1>1. \A s \in S : s \in overlap(S, i) <=>
                     Lo(s) <= last(i) /\ first(i) <= Hi(s)
  <2> SUFFICES ASSUME NEW s \in S
               PROVE  s \in overlap(S, i) <=>
                        Lo(s) <= last(i) /\ first(i) <= Hi(s)
    OBVIOUS
  <2>1. /\ exclusive_less(s.itv, i) <=> Hi(s) < first(i)
        /\ exclusive_less(i, s.itv) <=> last(i) < Lo(s)
    BY LessIs, MapEnds DEF Lo, Hi
  <2> QED BY <2>1, MapEnds, ProperEnds DEF overlap
<1>2. overlap(S, i) \in SUBSET S
  BY DEF overlap
<1> QED BY <1>1, <1>2, MapPart

\* A loop passes the segments one by one, each before those still to come.
LEMMA SegmentsRest ==
  ASSUME NEW E, Mapped(E), NEW q, q = SegmentsInOrder(E)
  PROVE  /\ Rest(q, 0) = E /\ Rest(q, Len(q)) = {}
         /\ \A k \in 1 .. Len(q) :
              /\ q[k] \in Rest(q, k - 1) /\ Rest(q, k) = Rest(q, k - 1) \ {q[k]}
              /\ \A u \in Rest(q, k - 1) : u = q[k] \/ Hi(q[k]) < Lo(u)
<1> DEFINE n == Len(q)
<1>1. /\ q \in Seq(E) /\ n \in Nat
      /\ \A j, k \in 1 .. n : j < k <=> Hi(q[j]) < Lo(q[k])
      /\ \A s \in E : \E k \in 1 .. n : q[k] = s
  BY SegmentsIterated
<1>2. \A k \in 1 .. n : q[k] \in E /\ Lo(q[k]) <= Hi(q[k]) /\ Lo(q[k]) \in Int /\ Hi(q[k]) \in Int
  BY <1>1, MapEnds
<1> HIDE DEF n
<1>3. Rest(q, 0) = E
  <2>1. 0 + 1 .. n = 1 .. n
    OBVIOUS
  <2>2. Rest(q, 0) = {q[j] : j \in 1 .. n}
    BY <2>1 DEF Rest, n
  <2>3. {q[j] : j \in 1 .. n} = E
    BY <1>1, <1>2
  <2> QED BY <2>2, <2>3
<1>4. Rest(q, n) = {}
  BY <1>1 DEF Rest, n
<1>5. ASSUME NEW k \in 1 .. n
      PROVE  /\ q[k] \in Rest(q, k - 1) /\ Rest(q, k) = Rest(q, k - 1) \ {q[k]}
             /\ \A u \in Rest(q, k - 1) : u = q[k] \/ Hi(q[k]) < Lo(u)
  <2>1. \A j \in k + 1 .. n : j \in 1 .. n /\ j \in (k - 1) + 1 .. n /\ k < j
    BY <1>1
  <2>2. \A j \in k + 1 .. n : Hi(q[k]) < Lo(q[j])
    BY <1>1, <2>1
  <2>3. \A j \in k + 1 .. n : q[j] # q[k]
    BY <1>2, <2>1, <2>2
  <2>4. k \in (k - 1) + 1 .. n /\ \A j \in (k - 1) + 1 .. n : j = k \/ j \in k + 1 .. n
    BY <1>1
  <2>5. q[k] \in Rest(q, k - 1)
    BY <2>4 DEF Rest, n
  <2>6. \A u \in Rest(q, k - 1) : u = q[k] \/ Hi(q[k]) < Lo(u)
    BY <2>2, <2>4 DEF Rest, n
  <2>7. \A u \in Rest(q, k) : u \in Rest(q, k - 1) /\ u # q[k]
    BY <2>1, <2>3 DEF Rest, n
  <2>8. \A u \in Rest(q, k - 1) : u = q[k] \/ u \in Rest(q, k)
    BY <2>4 DEF Rest, n
  <2> QED BY <2>5, <2>6, <2>7, <2>8
<1> QED BY <1>3, <1>4, <1>5 DEF n

-----------------------------------------------------------------------------
(***************************************************************************)
(* Addition.                                                               *)
(***************************************************************************)

\* split_front: the segment that begins before i is cut where i begins.
LEMMA SplitFrontIs ==
  ASSUME NEW M, Mapped(M), NEW i, Proper(i), overlap(M, i) # {}
  PROVE  LET F == split_front(M, i)
         IN /\ Mapped(F) /\ SameValues(F, M)
            /\ \A k \in Int : Seam(F, k) => Seam(M, k) \/ k = first(i)
            /\ Mapped(overlap(F, i)) /\ overlap(F, i) # {}
            /\ overlap(F, i) \in SUBSET F
            /\ \A s \in F : s \in overlap(F, i) <=> first(i) <= Lo(s) /\ Lo(s) <= last(i)
            /\ \A s \in F : s \in overlap(F, i) \/ Hi(s) < first(i) \/ last(i) < Lo(s)
<1> DEFINE E == overlap(M, i)
           f == mbegin(E)
           resid == left_over_of(f.itv, i)
           r == right_over_of(f.itv, resid)
           F == split_front(M, i)
<1>s. \A t \in M : /\ Whole(t) /\ Proper(t.itv) /\ t.val \in SUBSET Values
                   /\ Lo(t) \in Int /\ Hi(t) \in Int /\ Lo(t) <= Hi(t)
  BY MapEnds
<1>0. i \in Interval /\ first(i) \in Int /\ last(i) \in Int /\ first(i) <= last(i)
  BY ProperEnds
<1>1. /\ E \in SUBSET M /\ Mapped(E)
      /\ \A s \in M : s \in E <=> Lo(s) <= last(i) /\ first(i) <= Hi(s)
  BY OverlapIs
<1>2. f \in E /\ \A s \in E : s = f \/ Hi(f) < Lo(s)
  BY <1>1, FirstAndLastSegment
<1>3. f \in M /\ Lo(f) <= last(i) /\ first(i) <= Hi(f)
  BY <1>1, <1>2
<1>4. /\ resid \in Interval
      /\ Proper(resid) <=> Lo(f) < first(i)
      /\ Proper(resid) => first(resid) = Lo(f) /\ last(resid) = first(i) - 1
  <2>1. /\ resid \in Interval
        /\ Proper(resid) <=> Lo(f) < first(i)
        /\ Proper(resid) =>
             /\ first(resid) = Lo(f)
             /\ last(resid) = IF Hi(f) < first(i) THEN Hi(f) ELSE first(i) - 1
    BY <1>s, <1>3, LeftOver DEF Lo, Hi
  <2>2. ~ (Hi(f) < first(i))
    BY <1>s, <1>0, <1>3
  <2> QED BY <2>1, <2>2
<1>5. F = IF is_empty(resid) THEN M
          ELSE (M \ {f}) \cup {seg(r, f.val), seg(resid, f.val)}
  BY DEF split_front
<1>6. is_empty(resid) <=> ~ Proper(resid)
  BY <1>4, ProperIs
<1> HIDE DEF F, resid, f, E
<1>7. CASE ~ Proper(resid)
  <2>1. F = M
    BY <1>5, <1>6, <1>7
  <2>2. \A s \in M : s \in E <=> first(i) <= Lo(s) /\ Lo(s) <= last(i)
    <3> SUFFICES ASSUME NEW s \in M
                 PROVE  s \in E <=> first(i) <= Lo(s) /\ Lo(s) <= last(i)
      OBVIOUS
    <3>1. first(i) <= Lo(f)
      BY <1>s, <1>0, <1>3, <1>4, <1>7
    <3>2. s \in E => first(i) <= Lo(s)
      BY <1>s, <1>0, <1>2, <1>3, <3>1
    <3> QED BY <1>s, <1>0, <1>1, <3>2
  <2>3. \A s \in M : s \in E \/ Hi(s) < first(i) \/ last(i) < Lo(s)
    BY <1>s, <1>0, <1>1
  <2>4. SameValues(M, M)
    BY DEF SameValues
  <2> QED BY <1>1, <2>1, <2>2, <2>3, <2>4 DEF F, E
<1>8. CASE Proper(resid)
  <2>1. F = (M \ {f}) \cup {seg(resid, f.val), seg(r, f.val)}
    BY <1>5, <1>6, <1>8
  <2>2. Proper(r) /\ first(r) = first(i) /\ last(r) = Hi(f)
    <3>1. /\ Proper(r) <=> last(resid) < Hi(f)
          /\ Proper(r) =>
               /\ first(r) = IF last(resid) < Lo(f) THEN Lo(f) ELSE last(resid) + 1
               /\ last(r) = Hi(f)
      BY <1>s, <1>3, <1>8, RightOver DEF Lo, Hi
    <3>2. last(resid) < Hi(f) /\ ~ (last(resid) < Lo(f)) /\ last(resid) + 1 = first(i)
      BY <1>s, <1>0, <1>3, <1>4, <1>8
    <3> QED BY <3>1, <3>2
  <2> HIDE DEF r
  <2>3. first(resid) = Lo(f) /\ last(resid) + 1 = first(r) /\ last(r) = Hi(f)
    BY <1>0, <1>4, <1>8, <2>2
  <2>4. /\ Mapped(F)
        /\ \A k \in Int : ValueAt(F, k) = IF In(k, resid) THEN f.val ELSE ValueAt(M, k)
        /\ \A k \in Int : Seam(F, k) => Seam(M, k) \/ k = first(r)
    <3>1. f \in M /\ f.val \in SUBSET Values
      BY <1>s, <1>3
    <3>2. LET J == (M \ {f}) \cup {seg(resid, f.val), seg(r, f.val)}
          IN /\ Mapped(J)
             /\ \A k \in Int : ValueAt(J, k) = IF In(k, resid) THEN f.val ELSE ValueAt(M, k)
             /\ \A k \in Int : Seam(J, k) => Seam(M, k) \/ k = first(r)
      BY <1>8, <2>2, <2>3, <3>1, Cut, ZenonT(40)
    <3> QED BY <2>1, <3>2
  <2>5. SameValues(F, M)
    <3>1. \A k \in Int : In(k, resid) => Within(k, f)
      BY <1>s, <1>0, <1>3, <1>4, <1>8 DEF In, Within
    <3>2. \A k \in Int : In(k, resid) => ValueAt(M, k) = f.val
      BY <1>3, <3>1, ValuesFrom
    <3> QED BY <2>4, <3>2 DEF SameValues
  <2>6. /\ Lo(seg(resid, f.val)) = Lo(f) /\ Hi(seg(resid, f.val)) = first(i) - 1
        /\ Lo(seg(r, f.val)) = first(i) /\ Hi(seg(r, f.val)) = Hi(f)
    BY <1>s, <1>3, <1>4, <1>8, <2>2, SegIs
  <2>7. /\ overlap(F, i) \in SUBSET F /\ Mapped(overlap(F, i))
        /\ \A s \in F : s \in overlap(F, i) <=> Lo(s) <= last(i) /\ first(i) <= Hi(s)
    BY <2>4, OverlapIs
  <2>t. \A t \in F : Lo(t) \in Int /\ Hi(t) \in Int /\ Lo(t) <= Hi(t)
    BY <2>4, MapEnds
  <2>8. seg(r, f.val) \in F
    BY <2>1
  <2>9. overlap(F, i) # {}
    BY <1>s, <1>0, <1>3, <2>6, <2>7, <2>8
  <2>10. \A s \in F : s = seg(resid, f.val) \/ s = seg(r, f.val) \/ (s \in M /\ s # f)
    BY <2>1
  <2>11. \A s \in M : s # f => Hi(s) < Lo(f) \/ Hi(f) < Lo(s)
    BY <1>3 DEF Mapped, ClearOf
  <2>12. ASSUME NEW s \in F, Lo(s) <= last(i), first(i) <= Hi(s)
         PROVE  first(i) <= Lo(s)
    <3>1. CASE s = seg(resid, f.val)
      BY <1>0, <2>6, <2>12, <3>1
    <3>2. CASE s = seg(r, f.val)
      BY <1>0, <2>6, <3>2
    <3>3. CASE s \in M /\ s # f
      <4>1. s \in E
        BY <1>1, <2>12, <3>3
      <4>2. Hi(f) < Lo(s)
        BY <1>2, <3>3, <4>1
      <4> QED BY <1>s, <1>0, <1>3, <3>3, <4>2
    <3> QED BY <2>10, <3>1, <3>2, <3>3
  <2>13. \A s \in F : s \in overlap(F, i) <=> first(i) <= Lo(s) /\ Lo(s) <= last(i)
    BY <1>0, <2>7, <2>12, <2>t
  <2>14. \A s \in F : s \in overlap(F, i) \/ Hi(s) < first(i) \/ last(i) < Lo(s)
    BY <1>0, <2>7, <2>t
  <2> QED BY <2>2, <2>4, <2>5, <2>7, <2>9, <2>13, <2>14 DEF F
<1> QED BY <1>7, <1>8

\* What combining the value v to a key makes of its value.
CombinedCell(tr, combiner, c, v) ==
  IF c = NoValue THEN v ELSE Kept(tr, combine(combiner, c, v))

\* A combined value is a value.
LEMMA CombineTyped ==
  ASSUME NEW combiner, NEW c \in SUBSET Values, NEW v \in SUBSET Values
  PROVE  combine(combiner, c, v) \in SUBSET Values
BY DEF combine, inplace_plus, inplace_et

\* Whether a map fits its type can be seen from its values.
LEMMA FitFromValues ==
  ASSUME NEW tr, NEW M, Mapped(M), tr.joins => \A k \in Int : ~ Seam(M, k),
         tr.absorbs => \A k \in Int : ValueAt(M, k) # {}
  PROVE  MapFit(tr, M)
<1>1. ASSUME tr.absorbs, NEW s \in M
      PROVE  s.val # {}
  <2>1. Lo(s) \in Int /\ Lo(s) <= Hi(s) /\ Lo(s) <= Lo(s)
    BY MapEnds
  <2>2. ValueAt(M, Lo(s)) = s.val
    BY <2>1, ValueIn
  <2> QED BY <1>1, <2>1, <2>2
<1> QED BY <1>1 DEF MapFit

\* No key of a fitting absorber has the empty value.
LEMMA FitValues ==
  ASSUME NEW tr, NEW M, MapFit(tr, M)
  PROVE  /\ Mapped(M) /\ tr.joins => \A k \in Int : ~ Seam(M, k)
         /\ tr.absorbs => \A k \in Int : ValueAt(M, k) # {}
<1>1. Mapped(M) /\ (tr.joins => \A k \in Int : ~ Seam(M, k)) /\ (tr.absorbs => \A s \in M : s.val # {})
  BY DEF MapFit
<1>2. ASSUME tr.absorbs, NEW k \in Int, ValueAt(M, k) = {}
      PROVE  FALSE
  <2>1. ValueAt(M, k) # NoValue
    BY <1>2, ContainersAssumption
  <2>2. PICK s \in M : ValueAt(M, k) = s.val
    BY <1>1, <2>1, ValueIs
  <2> QED BY <1>1, <1>2, <2>2
<1> QED BY <1>1, <1>2

\* The gap before a segment is filled, and joined to what is left of it.
LEMMA MapGapFilled ==
  ASSUME NEW tr, NEW x, Mapped(x.M), Proper(x.rest), NEW cur \in x.M, NEW v \in SUBSET Values,
         first(x.rest) <= Lo(cur), Lo(cur) <= last(x.rest),
         \A t \in x.M : Hi(t) < first(x.rest) \/ Lo(cur) <= Lo(t),
         tr.joins => \A k \in Int : Seam(x.M, k) => k = first(x.rest)
  PROVE  LET H == fill_gap(tr, x, cur, v)
         IN /\ Mapped(H) /\ cur \in H
            /\ \A t \in x.M : Lo(cur) <= Lo(t) => t \in H
            /\ \A t \in H : t \in x.M \/ Hi(t) < Lo(cur)
            /\ \A k \in Int : ValueAt(H, k) = IF first(x.rest) <= k /\ k < Lo(cur)
                                              THEN v ELSE ValueAt(x.M, k)
            /\ tr.joins => \A k \in Int : Seam(H, k) => k = Lo(cur)
<1> DEFINE gap == left_over_of(x.rest, cur.itv)
           g == seg(gap, v)
           H == fill_gap(tr, x, cur, v)
<1>s. \A t \in x.M : /\ Whole(t) /\ Proper(t.itv) /\ t.val \in SUBSET Values
                     /\ Lo(t) \in Int /\ Hi(t) \in Int /\ Lo(t) <= Hi(t)
  BY MapEnds
<1>0. first(x.rest) \in Int /\ last(x.rest) \in Int /\ first(x.rest) <= last(x.rest)
  BY ProperEnds
<1>1. /\ gap \in Interval
      /\ Proper(gap) <=> first(x.rest) < Lo(cur)
      /\ Proper(gap) => first(gap) = first(x.rest) /\ last(gap) = Lo(cur) - 1
  <2>1. /\ gap \in Interval
        /\ Proper(gap) <=> first(x.rest) < Lo(cur)
        /\ Proper(gap) =>
             /\ first(gap) = first(x.rest)
             /\ last(gap) = IF last(x.rest) < Lo(cur) THEN last(x.rest) ELSE Lo(cur) - 1
    BY <1>s, LeftOver DEF Lo, Hi
  <2>2. ~ (last(x.rest) < Lo(cur))
    BY <1>s, <1>0
  <2> QED BY <2>1, <2>2
<1>2. H = IF is_empty(gap) THEN x.M ELSE handle_gap_inserted(tr, x.M \cup {g}, g)
  BY DEF fill_gap
<1>3. is_empty(gap) <=> ~ Proper(gap)
  BY <1>1, ProperIs
<1> HIDE DEF gap, H
<1>4. CASE ~ Proper(gap)
  <2>1. H = x.M /\ Lo(cur) = first(x.rest)
    BY <1>s, <1>0, <1>1, <1>2, <1>3, <1>4
  <2>2. \A k \in Int : ~ (first(x.rest) <= k /\ k < Lo(cur))
    BY <1>s, <2>1
  <2> QED BY <2>1, <2>2 DEF H
<1>5. CASE Proper(gap)
  <2> DEFINE G == x.M \cup {g}
  <2>1. /\ Whole(g) /\ Lo(g) = first(x.rest) /\ Hi(g) = Lo(cur) - 1 /\ g.val = v
        /\ first(gap) = first(x.rest) /\ last(gap) = Lo(cur) - 1
    BY <1>1, <1>5, SegIs
  <2>2. \A t \in x.M : last(gap) < Lo(t) \/ Hi(t) < first(gap)
    BY <1>s, <2>1
  <2>3. /\ Mapped(G)
        /\ \A k \in Int : ValueAt(G, k) = IF In(k, gap) THEN v ELSE ValueAt(x.M, k)
        /\ \A k \in Int : Seam(G, k) =>
             \/ Seam(x.M, k)
             \/ k = first(gap) /\ \E s \in x.M : Hi(s) + 1 = first(gap)
             \/ k = last(gap) + 1
    BY <1>5, <2>2, Added
  <2>4. H = handle_gap_inserted(tr, G, g) /\ g \in G
    BY <1>2, <1>3, <1>5
  <2> HIDE DEF G, g
  <2>5. /\ Mapped(H) /\ SameValues(H, G)
        /\ tr.joins => \A k \in Int : Seam(H, k) => Seam(G, k) /\ k # Lo(g)
        /\ \A t \in G : Hi(g) < Lo(t) => t \in H
        /\ \A t \in H : t \in G \/ Hi(t) = Hi(g)
    BY <2>3, <2>4, GapInsertedIs
  <2>6. \A t \in x.M : Lo(cur) <= Lo(t) => t \in H
    BY <1>s, <2>1, <2>5 DEF G
  <2>7. \A t \in H : t \in x.M \/ Hi(t) < Lo(cur)
    BY <1>s, <2>1, <2>5 DEF G
  <2>8. \A k \in Int : ValueAt(H, k) = IF first(x.rest) <= k /\ k < Lo(cur)
                                       THEN v ELSE ValueAt(x.M, k)
    <3>1. \A k \in Int : In(k, gap) <=> first(x.rest) <= k /\ k < Lo(cur)
      BY <1>s, <1>0, <2>1 DEF In
    <3> QED BY <2>3, <2>5, <3>1 DEF SameValues
  <2>9. tr.joins => \A k \in Int : Seam(H, k) => k = Lo(cur)
    BY <1>s, <1>0, <2>1, <2>3, <2>5
  <2>10. Lo(cur) <= Lo(cur)
    BY <1>s
  <2> QED BY <2>5, <2>6, <2>7, <2>8, <2>9, <2>10 DEF H
<1> QED BY <1>4, <1>5

\* The loop of an addition of v to the keys of i: U are the segments still to
\* come, and the keys before x.rest have their new values.  The last segment
\* that was changed may still meet its successor in a seam.
Combining(tr, combiner, F, i, v, x, U) ==
  /\ Mapped(x.M) /\ Proper(x.rest)
  /\ last(x.rest) = last(i) /\ first(i) <= first(x.rest)
  /\ \A u \in U : u \in x.M /\ first(x.rest) <= Lo(u) /\ Lo(u) <= last(i)
  /\ \A t \in x.M : t \in U \/ Hi(t) < first(x.rest) \/ last(i) < Lo(t)
  /\ tr.joins => \A k \in Int : Seam(x.M, k) => k = first(x.rest)
  /\ \A k \in Int : ValueAt(x.M, k) =
       IF In(k, i) /\ k < first(x.rest) THEN CombinedCell(tr, combiner, ValueAt(F, k), v)
                                        ELSE ValueAt(F, k)

\* The keys before the next segment of the loop have their new values in H, the
\* others their old ones.
Reached(tr, combiner, F, i, v, x, U, cur, H) ==
  /\ Mapped(H) /\ cur \in H
  /\ \A t \in x.M : Lo(cur) <= Lo(t) => t \in H
  /\ \A t \in H : t \in U \/ Hi(t) < Lo(cur) \/ last(i) < Lo(t)
  /\ \A k \in Int : k < Lo(cur) => ValueAt(H, k) =
       IF In(k, i) THEN CombinedCell(tr, combiner, ValueAt(F, k), v)
                   ELSE ValueAt(F, k)
  /\ \A k \in Int : Lo(cur) <= k => ValueAt(H, k) = ValueAt(F, k)
  /\ tr.joins => \A k \in Int : Seam(H, k) => k = Lo(cur)

\* A segment comes before all others.
Foremost(cur, U) == cur \in U /\ \A u \in U : u = cur \/ Hi(cur) < Lo(u)

\* The gap before the next segment of the loop is filled.
LEMMA MapReached ==
  ASSUME NEW tr, NEW combiner, NEW F, Mapped(F), NEW i, Proper(i), NEW v \in SUBSET Values,
         NEW x, NEW U, Combining(tr, combiner, F, i, v, x, U),
         NEW cur, Foremost(cur, U)
  PROVE  Reached(tr, combiner, F, i, v, x, U, cur, fill_gap(tr, x, cur, v))
<1> DEFINE H == fill_gap(tr, x, cur, v)
<1>f. cur \in U /\ \A u \in U : u = cur \/ Hi(cur) < Lo(u)
  BY DEF Foremost
<1>0. /\ Mapped(x.M) /\ Proper(x.rest)
      /\ last(x.rest) = last(i) /\ first(i) <= first(x.rest)
      /\ \A u \in U : u \in x.M /\ first(x.rest) <= Lo(u) /\ Lo(u) <= last(i)
      /\ \A t \in x.M : t \in U \/ Hi(t) < first(x.rest) \/ last(i) < Lo(t)
      /\ tr.joins => \A k \in Int : Seam(x.M, k) => k = first(x.rest)
      /\ \A k \in Int : ValueAt(x.M, k) =
           IF In(k, i) /\ k < first(x.rest) THEN CombinedCell(tr, combiner, ValueAt(F, k), v)
                                            ELSE ValueAt(F, k)
  BY DEF Combining
<1>s. \A t \in x.M : /\ Whole(t) /\ Proper(t.itv) /\ t.val \in SUBSET Values
                     /\ Lo(t) \in Int /\ Hi(t) \in Int /\ Lo(t) <= Hi(t)
  BY <1>0, MapEnds
<1>i. /\ first(x.rest) \in Int /\ last(x.rest) \in Int /\ first(x.rest) <= last(x.rest)
      /\ first(i) \in Int /\ last(i) \in Int /\ first(i) <= last(i)
  BY <1>0, ProperEnds
<1>1. cur \in x.M /\ first(x.rest) <= Lo(cur) /\ Lo(cur) <= last(x.rest)
  BY <1>0, <1>f
<1>2. \A t \in x.M : Hi(t) < first(x.rest) \/ Lo(cur) <= Lo(t)
  BY <1>s, <1>i, <1>0, <1>1, <1>f
<1>3. /\ Mapped(H) /\ cur \in H
      /\ \A t \in x.M : Lo(cur) <= Lo(t) => t \in H
      /\ \A t \in H : t \in x.M \/ Hi(t) < Lo(cur)
      /\ \A k \in Int : ValueAt(H, k) = IF first(x.rest) <= k /\ k < Lo(cur)
                                        THEN v ELSE ValueAt(x.M, k)
      /\ tr.joins => \A k \in Int : Seam(H, k) => k = Lo(cur)
  BY <1>0, <1>1, <1>2, MapGapFilled
<1> HIDE DEF H
<1>4. \A t \in H : t \in U \/ Hi(t) < Lo(cur) \/ last(i) < Lo(t)
  BY <1>s, <1>i, <1>0, <1>1, <1>3
<1>5. ASSUME NEW k \in Int, k < Lo(cur)
      PROVE  ValueAt(H, k) = IF In(k, i) THEN CombinedCell(tr, combiner, ValueAt(F, k), v)
                                         ELSE ValueAt(F, k)
  <2>1. CASE first(x.rest) <= k
    <3>1. In(k, i)
      BY <1>s, <1>i, <1>0, <1>1, <1>5, <2>1 DEF In
    <3>2. \A t \in x.M : ~ (Lo(t) <= k /\ k <= Hi(t))
      BY <1>s, <1>i, <1>2, <1>1, <1>5, <2>1
    <3>3. ValueAt(x.M, k) = NoValue
      BY <3>2, ValueOut
    <3>4. ~ (k < first(x.rest))
      BY <1>i, <2>1
    <3>5. ValueAt(F, k) = NoValue
      BY <1>0, <3>3, <3>4
    <3> QED BY <1>3, <1>5, <2>1, <3>1, <3>5 DEF CombinedCell
  <2>2. CASE k < first(x.rest)
    <3>1. ~ (first(x.rest) <= k)
      BY <1>i, <2>2
    <3>2. ValueAt(H, k) = ValueAt(x.M, k)
      BY <1>3, <3>1
    <3> QED BY <1>0, <2>2, <3>2
  <2> QED BY <1>i, <2>1, <2>2
<1>6. ASSUME NEW k \in Int, Lo(cur) <= k
      PROVE  ValueAt(H, k) = ValueAt(F, k)
  <2>1. ~ (k < Lo(cur)) /\ ~ (k < first(x.rest))
    BY <1>s, <1>i, <1>1, <1>6
  <2> QED BY <1>0, <1>3, <2>1
<1> QED BY <1>3, <1>4, <1>5, <1>6 DEF H, Reached

\* The segment cur of H was replaced by new in J; what its keys have when new is
\* absorbed if it must be.
NewCombined(tr, combiner, v, H, cur, J, new) ==
  /\ Mapped(J) /\ new \in J /\ Lo(new) = Lo(cur) /\ Hi(new) = Hi(cur)
  /\ \A k \in Int : LeftAfter(tr, J, new, k) =
       IF Within(k, cur) THEN CombinedCell(tr, combiner, ValueAt(H, k), v)
                         ELSE ValueAt(H, k)
  /\ tr.joins => \A k \in Int : Seam(J, k) => k = Lo(cur) \/ k = Hi(cur) + 1

\* A segment gets its combined value.
LEMMA CombinedHere ==
  ASSUME NEW tr, NEW combiner, NEW v \in SUBSET Values,
         NEW H, Mapped(H), NEW cur \in H,
         tr.joins => \A k \in Int : Seam(H, k) => k = Lo(cur) \/ k = Hi(cur) + 1
  PROVE  LET new == seg(cur.itv, combine(combiner, cur.val, v))
         IN NewCombined(tr, combiner, v, H, cur, (H \ {cur}) \cup {new}, new)
<1> DEFINE w == combine(combiner, cur.val, v)
           new == seg(cur.itv, w)
           J == (H \ {cur}) \cup {new}
<1>1. cur.val \in SUBSET Values /\ cur.val # NoValue
  BY MapEnds
<1>2. w \in SUBSET Values
  BY <1>1, CombineTyped
<1> HIDE DEF w
<1>3. /\ Mapped(J) /\ Lo(new) = Lo(cur) /\ Hi(new) = Hi(cur) /\ new.val = w
      /\ \A k \in Int : ValueAt(J, k) = IF Within(k, cur) THEN w ELSE ValueAt(H, k)
      /\ \A k \in Int : Seam(J, k) => Seam(H, k) \/ k = Lo(cur) \/ k = Hi(cur) + 1
  BY <1>2, Revalued
<1>4. new \in J
  OBVIOUS
<1> HIDE DEF J, new
<1>5. ASSUME NEW k \in Int
      PROVE  LeftAfter(tr, J, new, k) =
               IF Within(k, cur) THEN CombinedCell(tr, combiner, ValueAt(H, k), v)
                                 ELSE ValueAt(H, k)
  <2>1. Within(k, new) <=> Within(k, cur)
    BY <1>3 DEF Within
  <2>2. CASE Within(k, cur)
    <3>1. ValueAt(H, k) = cur.val
      BY <2>2, ValuesFrom
    <3>2. CombinedCell(tr, combiner, ValueAt(H, k), v) = Kept(tr, w)
      BY <1>1, <3>1 DEF CombinedCell, w
    <3>3. LeftAfter(tr, J, new, k) = Kept(tr, w)
      BY <1>3, <2>1, <2>2 DEF LeftAfter, Kept, Absorbable, is_absorbable
    <3> QED BY <2>2, <3>2, <3>3
  <2>3. CASE ~ Within(k, cur)
    BY <1>3, <2>1, <2>3 DEF LeftAfter
  <2> QED BY <2>2, <2>3
<1> QED BY <1>3, <1>4, <1>5 DEF J, new, w, NewCombined

\* add_segment: the loop goes on with the segments that follow.
LEMMA MapSegmentAdded ==
  ASSUME NEW tr, NEW combiner, NEW F, Mapped(F), NEW i, Proper(i), NEW v \in SUBSET Values,
         NEW x, NEW U, Combining(tr, combiner, F, i, v, x, U),
         NEW cur, Foremost(cur, U), \E u \in U : u # cur
  PROVE  Combining(tr, combiner, F, i, v, madd_segment(tr, combiner, v, x, cur), U \ {cur})
<1> DEFINE H == fill_gap(tr, x, cur, v)
           new == seg(cur.itv, combine(combiner, cur.val, v))
           J == (H \ {cur}) \cup {new}
           K == handle_left_combined(tr, J, new)
           r == right_over_of(x.rest, cur.itv)
           y == madd_segment(tr, combiner, v, x, cur)
<1>f. cur \in U /\ \A u \in U : u = cur \/ Hi(cur) < Lo(u)
  BY DEF Foremost
<1>0. /\ Mapped(x.M) /\ Proper(x.rest)
      /\ last(x.rest) = last(i) /\ first(i) <= first(x.rest)
      /\ \A u \in U : u \in x.M /\ first(x.rest) <= Lo(u) /\ Lo(u) <= last(i)
  BY DEF Combining
<1>s. \A t \in x.M : /\ Whole(t) /\ Proper(t.itv) /\ t.val \in SUBSET Values
                     /\ Lo(t) \in Int /\ Hi(t) \in Int /\ Lo(t) <= Hi(t)
  BY <1>0, MapEnds
<1>i. /\ first(x.rest) \in Int /\ last(x.rest) \in Int /\ first(x.rest) <= last(x.rest)
      /\ first(i) \in Int /\ last(i) \in Int /\ first(i) <= last(i)
  BY <1>0, ProperEnds
<1>1. cur \in x.M /\ first(x.rest) <= Lo(cur) /\ Hi(cur) < last(i)
  BY <1>s, <1>i, <1>0, <1>f
<1>2. y.M = K /\ y.rest = r
  BY DEF madd_segment
<1>3. Proper(r) /\ first(r) = Hi(cur) + 1 /\ last(r) = last(i)
  <2>1. /\ Proper(r) <=> Hi(cur) < last(x.rest)
        /\ Proper(r) =>
             /\ first(r) = IF Hi(cur) < first(x.rest) THEN first(x.rest) ELSE Hi(cur) + 1
             /\ last(r) = last(x.rest)
    BY <1>s, <1>0, <1>1, RightOver DEF Lo, Hi
  <2>2. ~ (Hi(cur) < first(x.rest))
    BY <1>s, <1>i, <1>1
  <2> QED BY <1>0, <1>1, <2>1, <2>2
<1>4. /\ Mapped(H) /\ cur \in H
      /\ \A t \in x.M : Lo(cur) <= Lo(t) => t \in H
      /\ \A t \in H : t \in U \/ Hi(t) < Lo(cur) \/ last(i) < Lo(t)
      /\ \A k \in Int : k < Lo(cur) => ValueAt(H, k) =
           IF In(k, i) THEN CombinedCell(tr, combiner, ValueAt(F, k), v)
                       ELSE ValueAt(F, k)
      /\ \A k \in Int : Lo(cur) <= k => ValueAt(H, k) = ValueAt(F, k)
      /\ tr.joins => \A k \in Int : Seam(H, k) => k = Lo(cur)
  <2>1. Reached(tr, combiner, F, i, v, x, U, cur, H)
    BY MapReached
  <2> QED BY <2>1 DEF Reached
<1> HIDE DEF H, r, y
<1>h. Mapped(H) /\ cur \in H /\ (tr.joins => \A k \in Int : Seam(H, k) => k = Lo(cur))
  BY <1>4
<1>5. /\ Mapped(J) /\ new \in J /\ Lo(new) = Lo(cur) /\ Hi(new) = Hi(cur)
      /\ \A k \in Int : LeftAfter(tr, J, new, k) =
           IF Within(k, cur) THEN CombinedCell(tr, combiner, ValueAt(H, k), v)
                             ELSE ValueAt(H, k)
      /\ tr.joins => \A k \in Int : Seam(J, k) => k = Lo(cur) \/ k = Hi(cur) + 1
  <2>1. NewCombined(tr, combiner, v, H, cur, J, new)
    BY <1>h, CombinedHere
  <2> QED BY <2>1 DEF NewCombined
<1>6. \A t \in J : t = new \/ t \in H
  OBVIOUS
<1>7. \A t \in H : t # cur => t \in J
  OBVIOUS
<1> HIDE DEF J, new
<1>8. /\ Mapped(K) /\ \A k \in Int : ValueAt(K, k) = LeftAfter(tr, J, new, k)
      /\ tr.joins => \A k \in Int : Seam(K, k) => Seam(J, k) /\ k # Lo(new)
      /\ \A t \in J : Hi(new) < Lo(t) => t \in K
      /\ \A t \in K : t \in J \/ Hi(t) = Hi(new)
  BY <1>5, LeftCombinedIs
<1> HIDE DEF K
<1>9. \A u \in U \ {cur} : u \in K /\ first(r) <= Lo(u) /\ Lo(u) <= last(i)
  <2> SUFFICES ASSUME NEW u \in U \ {cur}
               PROVE  u \in K /\ first(r) <= Lo(u) /\ Lo(u) <= last(i)
    OBVIOUS
  <2>1. u \in x.M /\ Lo(u) <= last(i) /\ Hi(cur) < Lo(u)
    BY <1>0, <1>f
  <2>2. Lo(cur) <= Lo(u) /\ Hi(cur) + 1 <= Lo(u)
    BY <1>s, <1>1, <2>1
  <2>3. u \in J
    BY <1>4, <1>7, <2>1, <2>2
  <2> QED BY <1>3, <1>5, <1>8, <2>1, <2>2, <2>3
<1>10. \A t \in K : t \in U \ {cur} \/ Hi(t) < first(r) \/ last(i) < Lo(t)
  <2> SUFFICES ASSUME NEW t \in K
               PROVE  t \in U \ {cur} \/ Hi(t) < first(r) \/ last(i) < Lo(t)
    OBVIOUS
  <2>1. Hi(cur) < Hi(cur) + 1
    BY <1>s, <1>1
  <2>2. CASE Hi(t) = Hi(cur)
    BY <1>3, <2>1, <2>2
  <2>3. CASE t \in H
    <3>1. Hi(t) \in Int /\ Lo(t) \in Int
      BY <1>4, <2>3, MapEnds
    <3> QED BY <1>s, <1>1, <1>3, <1>4, <2>2, <2>3, <3>1
  <2> QED BY <1>5, <1>6, <1>8, <2>2, <2>3
<1>11. tr.joins => \A k \in Int : Seam(K, k) => k = first(r)
  BY <1>3, <1>5, <1>8
<1>12. ASSUME NEW k \in Int
       PROVE  ValueAt(K, k) = IF In(k, i) /\ k < first(r)
                              THEN CombinedCell(tr, combiner, ValueAt(F, k), v)
                              ELSE ValueAt(F, k)
  <2>1. ValueAt(K, k) = IF Within(k, cur) THEN CombinedCell(tr, combiner, ValueAt(H, k), v)
                                          ELSE ValueAt(H, k)
    BY <1>5, <1>8
  <2>2. CASE k < Lo(cur)
    <3>1. ~ Within(k, cur) /\ k < first(r)
      BY <1>s, <1>1, <1>3, <2>2 DEF Within
    <3> QED BY <1>4, <2>1, <2>2, <3>1
  <2>3. CASE Within(k, cur)
    <3>1. In(k, i) /\ k < first(r) /\ Lo(cur) <= k
      BY <1>s, <1>i, <1>0, <1>1, <1>3, <2>3 DEF In, Within
    <3> QED BY <1>4, <2>1, <2>3, <3>1
  <2>4. CASE Hi(cur) < k
    <3>1. ~ Within(k, cur) /\ ~ (k < first(r)) /\ Lo(cur) <= k
      BY <1>s, <1>1, <1>3, <2>4 DEF Within
    <3> QED BY <1>4, <2>1, <3>1
  <2> QED BY <1>s, <1>1, <2>2, <2>3, <2>4 DEF Within
<1>13. first(i) <= first(r)
  BY <1>s, <1>i, <1>0, <1>1, <1>3
<1>14. Combining(tr, combiner, F, i, v, y, U \ {cur})
  BY <1>2, <1>3, <1>8, <1>9, <1>10, <1>11, <1>12, <1>13 DEF Combining
<1> QED BY <1>14 DEF y

\* handle_reinserted: the values stay, and so do the segments before.
LEMMA ReinsertedIs ==
  ASSUME NEW tr, NEW M, Mapped(M), NEW s \in M
  PROVE  LET R == handle_reinserted(tr, M, s)
         IN /\ Mapped(R) /\ SameValues(R, M)
            /\ \A k \in Int : Seam(R, k) => Seam(M, k)
            /\ \A t \in M : Hi(t) < Lo(s) => t \in R
<1>1. SameValues(M, M)
  BY DEF SameValues
<1>2. CASE tr.joins
  <2>1. handle_reinserted(tr, M, s) = join_right(M, s)
    BY <1>2 DEF handle_reinserted
  <2> QED BY <2>1, JoinRightIs
<1>3. CASE ~ tr.joins
  <2>1. handle_reinserted(tr, M, s) = M
    BY <1>3 DEF handle_reinserted
  <2> QED BY <1>1, <2>1
<1> QED BY <1>2, <1>3

\* H is F with v combined to each key of i.
Combined(tr, combiner, F, i, v, H) ==
  /\ Mapped(H)
  /\ tr.joins => \A k \in Int : ~ Seam(H, k)
  /\ \A k \in Int : ValueAt(H, k) =
       IF In(k, i) THEN CombinedCell(tr, combiner, ValueAt(F, k), v) ELSE ValueAt(F, k)

\* What is left to combine when the last segment is reached.
LEMMA LastCombined ==
  ASSUME NEW tr, NEW combiner, NEW F, NEW i, Proper(i), NEW v,
         NEW x, NEW U, NEW cur, NEW H, Reached(tr, combiner, F, i, v, x, U, cur, H),
         first(i) <= Lo(cur), Lo(cur) \in Int,
         NEW K, Mapped(K), tr.joins => \A k \in Int : ~ Seam(K, k),
         \A k \in Int : ValueAt(K, k) =
           IF Lo(cur) <= k /\ k <= last(i) THEN CombinedCell(tr, combiner, ValueAt(H, k), v)
                                           ELSE ValueAt(H, k)
  PROVE  Combined(tr, combiner, F, i, v, K)
<1>0. first(i) \in Int /\ last(i) \in Int
  BY ProperEnds
<1>1. ASSUME NEW k \in Int
      PROVE  ValueAt(K, k) = IF In(k, i) THEN CombinedCell(tr, combiner, ValueAt(F, k), v)
                                         ELSE ValueAt(F, k)
  <2>1. /\ k < Lo(cur) => ValueAt(H, k) =
             IF In(k, i) THEN CombinedCell(tr, combiner, ValueAt(F, k), v) ELSE ValueAt(F, k)
        /\ Lo(cur) <= k => ValueAt(H, k) = ValueAt(F, k)
    BY DEF Reached
  <2>2. CASE k < Lo(cur)
    <3>1. ~ (Lo(cur) <= k)
      BY <2>2
    <3> QED BY <2>1, <2>2, <3>1
  <2>3. CASE Lo(cur) <= k
    <3>1. In(k, i) <=> k <= last(i)
      BY <1>0, <2>3 DEF In
    <3> QED BY <2>1, <2>3, <3>1
  <2> QED BY <2>2, <2>3
<1> QED BY <1>1 DEF Combined

\* add_rear: the last segment of the loop, the gap before it and the one behind.
LEMMA MapAddRearIs ==
  ASSUME NEW tr, NEW combiner, NEW F, Mapped(F), NEW i, Proper(i), NEW v \in SUBSET Values,
         NEW x, NEW cur, Combining(tr, combiner, F, i, v, x, {cur})
  PROVE  Combined(tr, combiner, F, i, v, madd_rear(tr, combiner, v, x, cur))
<1> DEFINE H == fill_gap(tr, x, cur, v)
           end_gap == right_over_of(x.rest, cur.itv)
           resid == right_over_of(cur.itv, x.rest)
           whole == seg(cur.itv, combine(combiner, cur.val, v))
           J == (H \ {cur}) \cup {whole}
           K == madd_rear(tr, combiner, v, x, cur)
<1>0. /\ Mapped(x.M) /\ Proper(x.rest)
      /\ last(x.rest) = last(i) /\ first(i) <= first(x.rest)
      /\ cur \in x.M /\ first(x.rest) <= Lo(cur) /\ Lo(cur) <= last(i)
  BY DEF Combining
<1>s. \A t \in x.M : /\ Whole(t) /\ Proper(t.itv) /\ t.val \in SUBSET Values
                     /\ Lo(t) \in Int /\ Hi(t) \in Int /\ Lo(t) <= Hi(t)
  BY <1>0, MapEnds
<1>i. /\ first(x.rest) \in Int /\ last(x.rest) \in Int /\ first(x.rest) <= last(x.rest)
      /\ first(i) \in Int /\ last(i) \in Int /\ first(i) <= last(i)
      /\ Lo(cur) \in Int /\ Hi(cur) \in Int /\ Lo(cur) <= Hi(cur) /\ cur.val \in SUBSET Values
      /\ Proper(cur.itv)
  BY <1>0, <1>s, ProperEnds
<1>1. /\ end_gap \in Interval
      /\ Proper(end_gap) <=> Hi(cur) < last(i)
      /\ Proper(end_gap) => first(end_gap) = Hi(cur) + 1 /\ last(end_gap) = last(i)
  <2>1. /\ end_gap \in Interval
        /\ Proper(end_gap) <=> Hi(cur) < last(x.rest)
        /\ Proper(end_gap) =>
             /\ first(end_gap) = IF Hi(cur) < first(x.rest) THEN first(x.rest) ELSE Hi(cur) + 1
             /\ last(end_gap) = last(x.rest)
    BY <1>i, <1>0, RightOver DEF Lo, Hi
  <2>2. ~ (Hi(cur) < first(x.rest))
    BY <1>i, <1>0
  <2> QED BY <1>0, <2>1, <2>2
<1>2. /\ resid \in Interval
      /\ Proper(resid) <=> last(i) < Hi(cur)
      /\ Proper(resid) => first(resid) = last(i) + 1 /\ last(resid) = Hi(cur)
  <2>1. /\ resid \in Interval
        /\ Proper(resid) <=> last(x.rest) < Hi(cur)
        /\ Proper(resid) =>
             /\ first(resid) = IF last(x.rest) < Lo(cur) THEN Lo(cur) ELSE last(x.rest) + 1
             /\ last(resid) = Hi(cur)
    BY <1>i, <1>0, RightOver DEF Lo, Hi
  <2>2. ~ (last(x.rest) < Lo(cur))
    BY <1>i, <1>0
  <2> QED BY <1>0, <2>1, <2>2
<1>3. /\ is_empty(end_gap) <=> ~ Proper(end_gap)
      /\ is_empty(resid) <=> ~ Proper(resid)
  BY <1>1, <1>2, ProperIs
<1>4. K = fill_rear(tr, combiner, v, H, cur, end_gap, resid)
  BY DEF madd_rear
<1>5. Reached(tr, combiner, F, i, v, x, {cur}, cur, H)
  <2>1. Foremost(cur, {cur})
    BY DEF Foremost
  <2> QED BY <2>1, MapReached
<1> HIDE DEF H, end_gap, resid, K
<1>6. /\ Mapped(H) /\ cur \in H
      /\ \A t \in H : t = cur \/ Hi(t) < Lo(cur) \/ last(i) < Lo(t)
      /\ tr.joins => \A k \in Int : Seam(H, k) => k = Lo(cur)
  BY <1>5 DEF Reached
<1>h. \A t \in H : Lo(t) \in Int /\ Hi(t) \in Int /\ Lo(t) <= Hi(t)
  BY <1>6, MapEnds
<1>7. NewCombined(tr, combiner, v, H, cur, J, whole)
  <2>1. tr.joins => \A k \in Int : Seam(H, k) => k = Lo(cur) \/ k = Hi(cur) + 1
    BY <1>6
  <2> QED BY <1>6, <2>1, CombinedHere
<1>8. \A t \in J : t = whole \/ t \in H
  OBVIOUS
<1>9. /\ Mapped(J) /\ whole \in J /\ Lo(whole) = Lo(cur) /\ Hi(whole) = Hi(cur)
      /\ \A k \in Int : LeftAfter(tr, J, whole, k) =
           IF Within(k, cur) THEN CombinedCell(tr, combiner, ValueAt(H, k), v)
                             ELSE ValueAt(H, k)
      /\ tr.joins => \A k \in Int : Seam(J, k) => k = Lo(cur) \/ k = Hi(cur) + 1
  BY <1>7 DEF NewCombined
<1>10. first(i) <= Lo(cur)
  BY <1>i, <1>0
<1>11. SUFFICES /\ Mapped(K) /\ (tr.joins => \A k \in Int : ~ Seam(K, k))
                /\ \A k \in Int : ValueAt(K, k) =
                     IF Lo(cur) <= k /\ k <= last(i)
                     THEN CombinedCell(tr, combiner, ValueAt(H, k), v) ELSE ValueAt(H, k)
  <2> HIDE DEF J, whole
  <2>1. ASSUME Mapped(K), tr.joins => \A k \in Int : ~ Seam(K, k),
               \A k \in Int : ValueAt(K, k) =
                     IF Lo(cur) <= k /\ k <= last(i)
                     THEN CombinedCell(tr, combiner, ValueAt(H, k), v) ELSE ValueAt(H, k)
        PROVE  Combined(tr, combiner, F, i, v, K)
    BY <1>5, <1>i, <1>10, <2>1, LastCombined
  <2> QED BY <2>1 DEF K
<1>12. CASE Proper(end_gap)
  <2>1. K = gap_insert_at(tr, J, whole, end_gap, v)
    BY <1>3, <1>4, <1>12, Zenon DEF fill_rear
  <2> HIDE DEF J, whole
  <2>2. \A t \in J : last(end_gap) < Lo(t) \/ Hi(t) < first(end_gap)
    BY <1>i, <1>h, <1>1, <1>6, <1>8, <1>9, <1>12
  <2>3. first(end_gap) = Hi(whole) + 1
    BY <1>1, <1>9, <1>12
  <2>4. /\ Mapped(K)
        /\ \A k \in Int : ValueAt(K, k) = IF In(k, end_gap) THEN v ELSE LeftAfter(tr, J, whole, k)
        /\ tr.joins => \A k \in Int :
             Seam(K, k) => Seam(J, k) /\ k # Lo(whole) /\ k # Hi(whole) + 1 /\ k # last(end_gap) + 1
    BY <1>9, <1>12, <2>1, <2>2, <2>3, GapAtIs
  <2>5. ASSUME NEW k \in Int
        PROVE  ValueAt(K, k) = IF Lo(cur) <= k /\ k <= last(i)
                               THEN CombinedCell(tr, combiner, ValueAt(H, k), v) ELSE ValueAt(H, k)
    <3>1. Hi(cur) < last(i) /\ first(end_gap) = Hi(cur) + 1 /\ last(end_gap) = last(i)
      BY <1>1, <1>12
    <3>2. CASE In(k, end_gap)
      <4>1. Lo(cur) <= k /\ k <= last(i) /\ Hi(cur) < k
        BY <1>i, <2>3, <3>1, <3>2 DEF In
      <4>2. \A t \in H : ~ (Lo(t) <= k /\ k <= Hi(t))
        BY <1>i, <1>h, <1>6, <4>1
      <4>3. ValueAt(H, k) = NoValue
        BY <4>2, ValueOut
      <4> QED BY <2>4, <3>2, <4>1, <4>3 DEF CombinedCell
    <3>3. CASE ~ In(k, end_gap)
      <4>1. Within(k, cur) <=> Lo(cur) <= k /\ k <= last(i)
        BY <1>i, <3>1, <3>3 DEF In, Within
      <4> QED BY <1>9, <2>4, <3>3, <4>1
    <3> QED BY <3>2, <3>3
  <2> QED BY <1>9, <2>4, <2>5
<1>13. CASE ~ Proper(end_gap) /\ ~ Proper(resid)
  <2>1. K = handle_combined(tr, J, whole)
    BY <1>3, <1>4, <1>13, Zenon DEF fill_rear
  <2> HIDE DEF J, whole
  <2>2. /\ Mapped(K) /\ \A k \in Int : ValueAt(K, k) = LeftAfter(tr, J, whole, k)
        /\ tr.joins => \A k \in Int :
             Seam(K, k) => Seam(J, k) /\ k # Lo(whole) /\ k # Hi(whole) + 1
    BY <1>9, <2>1, CombinedIs
  <2>3. Hi(cur) = last(i)
    BY <1>i, <1>1, <1>2, <1>13
  <2> QED BY <1>9, <2>2, <2>3 DEF Within
<1>14. CASE ~ Proper(end_gap) /\ Proper(resid)
  <2> DEFINE p == left_over_of(cur.itv, resid)
             part == seg(p, cur.val)
             tail == seg(resid, cur.val)
             B == (H \ {cur}) \cup {part, tail}
             R == handle_reinserted(tr, B, tail)
             combined == seg(p, combine(combiner, cur.val, v))
             C == (R \ {part}) \cup {combined}
  <2>1. K = handle_combined(tr, C, combined)
    <3>1. part.itv = p
      BY DEF seg
    <3>2. K = handle_combined(tr, (R \ {part}) \cup {seg(part.itv, combine(combiner, cur.val, v))},
                              seg(part.itv, combine(combiner, cur.val, v)))
      BY <1>3, <1>4, <1>14, Zenon DEF fill_rear
    <3> QED BY <3>1, <3>2, Zenon
  <2> HIDE DEF J, whole
  <2>2. last(i) < Hi(cur) /\ first(resid) = last(i) + 1 /\ last(resid) = Hi(cur)
    BY <1>2, <1>14
  <2>3. Proper(p) /\ first(p) = Lo(cur) /\ last(p) = last(i)
    <3>1. /\ Proper(p) <=> Lo(cur) < first(resid)
          /\ Proper(p) =>
               /\ first(p) = Lo(cur)
               /\ last(p) = IF Hi(cur) < first(resid) THEN Hi(cur) ELSE first(resid) - 1
      BY <1>i, <1>14, LeftOver DEF Lo, Hi
    <3>2. Lo(cur) < first(resid) /\ ~ (Hi(cur) < first(resid)) /\ first(resid) - 1 = last(i)
      BY <1>0, <1>i, <2>2
    <3> QED BY <3>1, <3>2
  <2> HIDE DEF p, R, C, combined
  <2>4. /\ Mapped(B)
        /\ \A k \in Int : ValueAt(B, k) = IF In(k, p) THEN cur.val ELSE ValueAt(H, k)
        /\ \A k \in Int : Seam(B, k) => Seam(H, k) \/ k = first(resid)
    <3>1. last(p) + 1 = first(resid)
      BY <2>2, <2>3
    <3>2. LET a == seg(p, cur.val)
              b == seg(resid, cur.val)
              N == (H \ {cur}) \cup {a, b}
          IN /\ Mapped(N)
             /\ \A k \in Int : ValueAt(N, k) = IF In(k, p) THEN cur.val ELSE ValueAt(H, k)
             /\ \A k \in Int : Seam(N, k) => Seam(H, k) \/ k = first(resid)
      BY <1>6, <1>i, <1>14, <2>2, <2>3, <3>1, Cut, SMTT(30)
    <3> QED BY <3>2
  <2>5. tail \in B /\ part \in B
    OBVIOUS
  <2>6. /\ Lo(part) = Lo(cur) /\ Hi(part) = last(i) /\ part.itv = p /\ part.val = cur.val
        /\ Lo(tail) = last(i) + 1
    BY <1>i, <1>14, <2>2, <2>3, SegIs
  <2> HIDE DEF B, part, tail
  <2>7. /\ Mapped(R) /\ SameValues(R, B)
        /\ \A k \in Int : Seam(R, k) => Seam(B, k)
        /\ \A t \in B : Hi(t) < Lo(tail) => t \in R
    BY <2>4, <2>5, ReinsertedIs DEF R
  <2>8. part \in R
    BY <1>i, <2>5, <2>6, <2>7
  <2>9. NewCombined(tr, combiner, v, R, part, C, combined)
    <3>1. tr.joins => \A k \in Int : Seam(R, k) => k = Lo(part) \/ k = Hi(part) + 1
      BY <1>6, <2>2, <2>4, <2>6, <2>7
    <3>2. NewCombined(tr, combiner, v, R, part,
                   (R \ {part}) \cup {seg(part.itv, combine(combiner, part.val, v))},
                   seg(part.itv, combine(combiner, part.val, v)))
      BY <2>7, <2>8, <3>1, CombinedHere
    <3> QED BY <2>6, <3>2 DEF C, combined
  <2>10. /\ Mapped(C) /\ combined \in C /\ Lo(combined) = Lo(part) /\ Hi(combined) = Hi(part)
         /\ \A k \in Int : LeftAfter(tr, C, combined, k) =
              IF Within(k, part) THEN CombinedCell(tr, combiner, ValueAt(R, k), v)
                                 ELSE ValueAt(R, k)
         /\ tr.joins => \A k \in Int : Seam(C, k) => k = Lo(part) \/ k = Hi(part) + 1
    BY <2>9 DEF NewCombined
  <2>11. /\ Mapped(K) /\ \A k \in Int : ValueAt(K, k) = LeftAfter(tr, C, combined, k)
         /\ tr.joins => \A k \in Int :
              Seam(K, k) => Seam(C, k) /\ k # Lo(combined) /\ k # Hi(combined) + 1
    BY <2>1, <2>10, CombinedIs
  <2>12. ASSUME NEW k \in Int
         PROVE  ValueAt(R, k) = ValueAt(H, k)
    <3>1. CASE In(k, p)
      <4>1. Lo(cur) <= k /\ k <= Hi(cur)
        BY <1>i, <2>2, <2>3, <3>1 DEF In
      <4>2. ValueAt(H, k) = cur.val
        BY <1>6, <4>1, ValueIn
      <4> QED BY <2>4, <2>7, <3>1, <4>2 DEF SameValues
    <3> QED BY <2>4, <2>7, <3>1 DEF SameValues
  <2>13. ASSUME NEW k \in Int
         PROVE  ValueAt(K, k) = IF Lo(cur) <= k /\ k <= last(i)
                                THEN CombinedCell(tr, combiner, ValueAt(H, k), v) ELSE ValueAt(H, k)
    <3>1. Within(k, part) <=> Lo(cur) <= k /\ k <= last(i)
      BY <2>6 DEF Within
    <3> QED BY <2>10, <2>11, <2>12, <3>1
  <2> QED BY <2>10, <2>11, <2>13
<1> QED BY <1>12, <1>13, <1>14

\* A pass of a loop has one before it.
LEMMA PassBefore ==
  ASSUME NEW n \in Nat, NEW k \in 1 .. n
  PROVE  k - 1 \in 0 .. n
OBVIOUS

\* Joining to the left keeps to segments that are not empty, whatever the map.
LEMMA JoinLeftTyped ==
  ASSUME NEW M \in SUBSET Wholes, NEW s \in Wholes
  PROVE  join_left(M, s) \in SUBSET Wholes
<1> DEFINE P == {p \in M : joinable(p, s)}
<1>1. CASE P = {}
  BY <1>1 DEF join_left
<1>2. CASE P # {}
  <2> DEFINE p == CHOOSE q \in P : TRUE
             h == seg(hull_of(p.itv, s.itv), s.val)
  <2>1. p \in P
    BY <1>2
  <2>2. join_left(M, s) = (M \ {p, s}) \cup {h}
    BY <1>2, Zenon DEF join_left
  <2>3. p \in Wholes
    BY <2>1
  <2> HIDE DEF p
  <2>4. Proper(p.itv) /\ Proper(s.itv) /\ s.val \in SUBSET Values
    BY <2>3, WholeIs DEF Wholes, Whole
  <2>5. Proper(hull_of(p.itv, s.itv))
    BY <2>4, HullIs
  <2>6. h \in Wholes
    BY <2>4, <2>5, SegIs DEF Whole, Wholes
  <2> HIDE DEF h
  <2> QED BY <2>2, <2>6
<1> QED BY <1>1, <1>2

\* A segment of a proper interval is whole.
LEMMA SegTypedWhole ==
  ASSUME NEW i, Proper(i), NEW v \in SUBSET Values
  PROVE  seg(i, v) \in Wholes
BY SegIs DEF Whole, Wholes

\* handle_gap_inserted and handle_left_combined do so too.
LEMMA LeftHandlersTyped ==
  ASSUME NEW tr, NEW M \in SUBSET Wholes, NEW s \in Wholes
  PROVE  /\ handle_gap_inserted(tr, M, s) \in SUBSET Wholes
         /\ handle_left_combined(tr, M, s) \in SUBSET Wholes
<1>1. join_left(M, s) \in SUBSET Wholes
  BY JoinLeftTyped
<1> QED BY <1>1 DEF handle_gap_inserted, handle_left_combined

\* One pass of add_segment, whatever the map.
LEMMA MapAddTyped ==
  ASSUME NEW tr, NEW combiner, NEW v \in SUBSET Values,
         NEW x \in [M : SUBSET Wholes, rest : Interval], NEW cur \in Wholes
  PROVE  madd_segment(tr, combiner, v, x, cur) \in [M : SUBSET Wholes, rest : Interval]
<1> DEFINE gap == left_over_of(x.rest, cur.itv)
           g == seg(gap, v)
           H == fill_gap(tr, x, cur, v)
           new == seg(cur.itv, combine(combiner, cur.val, v))
           J == (H \ {cur}) \cup {new}
           r == right_over_of(x.rest, cur.itv)
<1>1. cur.itv \in Interval /\ Proper(cur.itv) /\ cur.val \in SUBSET Values
  BY WholeIs DEF Wholes, Whole
<1>2. gap \in Interval /\ r \in Interval
  BY <1>1, OperationsTyped
<1>3. H \in SUBSET Wholes
  <2>1. H = IF is_empty(gap) THEN x.M ELSE handle_gap_inserted(tr, x.M \cup {g}, g)
    BY DEF fill_gap
  <2>2. ASSUME ~ is_empty(gap)
        PROVE  g \in Wholes
    BY <1>2, <2>2, ProperIs, SegTypedWhole
  <2> HIDE DEF g, gap, H
  <2>3. ASSUME ~ is_empty(gap)
        PROVE  handle_gap_inserted(tr, x.M \cup {g}, g) \in SUBSET Wholes
    <3>1. x.M \cup {g} \in SUBSET Wholes
      BY <2>2, <2>3
    <3> QED BY <2>2, <2>3, <3>1, LeftHandlersTyped
  <2> QED BY <2>1, <2>3
<1>4. new \in Wholes
  BY <1>1, CombineTyped, SegTypedWhole
<1> HIDE DEF H, new, r
<1>5. J \in SUBSET Wholes
  BY <1>3, <1>4
<1>6. handle_left_combined(tr, J, new) \in SUBSET Wholes
  BY <1>4, <1>5, LeftHandlersTyped
<1>7. madd_segment(tr, combiner, v, x, cur) = [M |-> handle_left_combined(tr, J, new), rest |-> r]
  BY DEF madd_segment, H, new, r
<1> QED BY <1>2, <1>6, <1>7

\* The states h of the loop of an addition.
CombineRuns(tr, combiner, F, sg, E, q) ==
  \E h \in [0 .. Len(q) -> [M : SUBSET Wholes, rest : Interval]] :
    /\ h[0] = [M |-> F, rest |-> sg.itv]
    /\ combine_over(tr, combiner, F, sg, E) = madd_rear(tr, combiner, sg.val, h[Len(q)], mlast(E))
    /\ \A k \in 1 .. Len(q) : h[k] = madd_segment(tr, combiner, sg.val, h[k - 1], q[k]) /\ q[k] \in Wholes

\* The loop of an addition: every pass is add_segment.
LEMMA CombineLoop ==
  ASSUME NEW tr, NEW combiner, NEW F, NEW sg, sg.val \in SUBSET Values, NEW E,
         F \in SUBSET Wholes, sg.itv \in Interval, NEW q \in Seq(Wholes), q = SegmentsInOrder(E \ {mlast(E)})
  PROVE  CombineRuns(tr, combiner, F, sg, E, q)
<1> DEFINE D == [M : SUBSET Wholes, rest : Interval]
           Q == Wholes
           g == [p \in D \X Q |-> madd_segment(tr, combiner, sg.val, p[1], p[2])]
           iter == CHOOSE it : it = [s \in SUBSET DOMAIN q |->
                     IF s = {} THEN [M |-> F, rest |-> sg.itv] ELSE madd_segment(tr, combiner, sg.val, it[s \ {Max(s)}], q[Max(s)])]
<1>0. [M |-> F, rest |-> sg.itv] \in D /\ q \in Seq(Q)
  OBVIOUS
<1>1. ASSUME NEW y \in D, NEW t \in Q
      PROVE  madd_segment(tr, combiner, sg.val, y, t) \in D
  BY <1>0, MapAddTyped
<1>2. g \in [D \X Q -> D]
  <2>1. \A p \in D \X Q : madd_segment(tr, combiner, sg.val, p[1], p[2]) \in D
    BY <1>1
  <2> QED BY <2>1, Zenon
<1>3. \A y \in D, t \in Q : g[<<y, t>>] = madd_segment(tr, combiner, sg.val, y, t)
  <2> HIDE DEF D, Q
  <2> QED OBVIOUS
<1> HIDE DEF g, D, Q
<1>4. PICK it \in [SUBSET DOMAIN q -> D] : Solves(it, D, Q, g, [M |-> F, rest |-> sg.itv], q)
  BY <1>0, <1>2, FoldSolved
<1>5. it = [s \in SUBSET DOMAIN q |->
              IF s = {} THEN [M |-> F, rest |-> sg.itv] ELSE madd_segment(tr, combiner, sg.val, it[s \ {Max(s)}], q[Max(s)])]
  <2>1. \A s \in SUBSET DOMAIN q :
          it[s] = IF s = {} THEN [M |-> F, rest |-> sg.itv] ELSE madd_segment(tr, combiner, sg.val, it[s \ {Max(s)}], q[Max(s)])
    <3>1. it[{}] = [M |-> F, rest |-> sg.itv]
      BY <1>4 DEF Solves
    <3>2. ASSUME NEW s \in SUBSET DOMAIN q, s # {}
          PROVE  it[s] = madd_segment(tr, combiner, sg.val, it[s \ {Max(s)}], q[Max(s)])
      <4>1. /\ it[s \ {Max(s)}] \in D /\ q[Max(s)] \in Q
            /\ it[s] = g[<<it[s \ {Max(s)}], q[Max(s)]>>]
        BY <1>4, <3>2 DEF Solves
      <4> QED BY <1>3, <4>1
    <3> QED BY <3>1, <3>2
  <2>2. it = [s \in SUBSET DOMAIN q |-> it[s]]
    OBVIOUS
  <2> QED BY <2>1, <2>2, Zenon
<1>6. iter = [s \in SUBSET DOMAIN q |->
                IF s = {} THEN [M |-> F, rest |-> sg.itv] ELSE madd_segment(tr, combiner, sg.val, iter[s \ {Max(s)}], q[Max(s)])]
  BY <1>5, Zenon
<1>7. combine_over(tr, combiner, F, sg, E) = madd_rear(tr, combiner, sg.val, iter[DOMAIN q], mlast(E))
  BY Zenon DEF combine_over, ForSegments, FoldLeft, MapThenFoldSet
<1> HIDE DEF iter
<1>8. \A s \in SUBSET DOMAIN q :
        iter[s] = IF s = {} THEN [M |-> F, rest |-> sg.itv] ELSE madd_segment(tr, combiner, sg.val, iter[s \ {Max(s)}], q[Max(s)])
  BY <1>6
<1>9. SolvesWithin(iter, D, g, [M |-> F, rest |-> sg.itv], q)
  <2>1. iter[{}] = [M |-> F, rest |-> sg.itv]
    BY <1>8
  <2>2. ASSUME NEW s \in SUBSET DOMAIN q, s # {}, iter[s \ {Max(s)}] \in D
        PROVE  iter[s] = g[<<iter[s \ {Max(s)}], q[Max(s)]>>]
    <3>1. q[Max(s)] \in Q
      BY <1>4, <2>2 DEF Solves
    <3>2. g[<<iter[s \ {Max(s)}], q[Max(s)]>>] = madd_segment(tr, combiner, sg.val, iter[s \ {Max(s)}], q[Max(s)])
      BY <1>3, <2>2, <3>1
    <3>3. iter[s] = madd_segment(tr, combiner, sg.val, iter[s \ {Max(s)}], q[Max(s)])
      BY <1>8, <2>2
    <3> QED BY <3>2, <3>3
  <2> QED BY <2>1, <2>2 DEF SolvesWithin
<1>10. PICK h \in [0 .. Len(q) -> D] : Passes(h, Q, g, [M |-> F, rest |-> sg.itv], q, iter[DOMAIN q])
  BY <1>0, <1>2, <1>9, FoldStates
<1>11. ASSUME NEW k \in 1 .. Len(q)
       PROVE  h[k] = madd_segment(tr, combiner, sg.val, h[k - 1], q[k]) /\ q[k] \in Q
  <2>1. h[k - 1] \in D
    <3>1. k - 1 \in 0 .. Len(q)
      <4>1. Len(q) \in Nat
        BY <1>0, LenProperties
      <4> QED BY <4>1, PassBefore
    <3>2. \A j \in 0 .. Len(q) : h[j] \in D
      BY <1>10
    <3> QED BY <3>1, <3>2
  <2> QED BY <1>3, <1>10, <2>1 DEF Passes
<1> QED BY <1>7, <1>10, <1>11 DEF D, Q, Passes, CombineRuns


\* An interval that is not proper has no keys.
LEMMA NoKeys ==
  ASSUME NEW i \in Interval, ~ Proper(i)
  PROVE  \A k \in Int : ~ In(k, i)
BY ProperIs DEF Proper, In

\* The loop of an addition ends when every segment but the last has its value.
LEMMA CombinePasses ==
  ASSUME NEW tr, NEW combiner, NEW F, Mapped(F), NEW i, Proper(i), NEW v \in SUBSET Values,
         NEW E, Mapped(E), NEW l \in E, \A u \in E : u = l \/ Hi(u) < Lo(l),
         NEW q, q = SegmentsInOrder(E \ {l}), NEW h,
         Combining(tr, combiner, F, i, v, h[0], E),
         \A k \in 1 .. Len(q) : h[k] = madd_segment(tr, combiner, v, h[k - 1], q[k])
  PROVE  Combining(tr, combiner, F, i, v, h[Len(q)], {l})
<1> DEFINE Z == E \ {l}
           n == Len(q)
           U(k) == Rest(q, k) \cup {l}
           R(k) == Combining(tr, combiner, F, i, v, h[k], U(k))
           P == [k \in 0 .. n |-> R(k)]
<1>0. Mapped(Z) /\ q = SegmentsInOrder(Z) /\ Z \cup {l} = E /\ \A z \in Z : z \in E /\ z # l
  BY MapPart
<1> HIDE DEF Z
<1>1. q \in Seq(Z) /\ n \in Nat
  BY <1>0, SegmentsIterated
<1>2. /\ Rest(q, 0) = Z /\ Rest(q, n) = {}
      /\ \A k \in 1 .. n :
           /\ q[k] \in Rest(q, k - 1) /\ Rest(q, k) = Rest(q, k - 1) \ {q[k]}
           /\ \A u \in Rest(q, k - 1) : u = q[k] \/ Hi(q[k]) < Lo(u)
  BY <1>0, SegmentsRest
<1>3. U(0) = E /\ U(n) = {l}
  BY <1>0, <1>2
<1>4. \A k \in 1 .. n : q[k] \in E /\ q[k] # l
  BY <1>0, <1>1
<1>5. ASSUME NEW k \in 1 .. n
      PROVE  Foremost(q[k], U(k - 1)) /\ l \in U(k - 1) /\ l # q[k] /\ U(k) = U(k - 1) \ {q[k]}
  <2>1. Hi(q[k]) < Lo(l)
    BY <1>4
  <2>2. Foremost(q[k], U(k - 1))
    BY <1>2, <2>1 DEF Foremost
  <2> QED BY <1>2, <1>4, <2>2
<1>6. P \in [0 .. n -> BOOLEAN] /\ \A k \in 0 .. n : P[k] <=> R(k)
  BY DEF Combining
<1> HIDE DEF P, n, U
<1>7. P[0]
  <2>1. R(0)
    BY <1>3
  <2>2. 0 \in 0 .. n
    BY <1>1
  <2> HIDE DEF R
  <2> QED BY <1>6, <2>1, <2>2
<1>8. ASSUME NEW k \in 1 .. n, P[k - 1]
      PROVE  P[k]
  <2>1. k - 1 \in 0 .. n /\ k \in 0 .. n
    BY <1>1
  <2>2. R(k - 1)
    BY <1>6, <1>8, <2>1
  <2>3. Foremost(q[k], U(k - 1)) /\ \E u \in U(k - 1) : u # q[k]
    BY <1>5
  <2>4. Combining(tr, combiner, F, i, v, madd_segment(tr, combiner, v, h[k - 1], q[k]),
                  U(k - 1) \ {q[k]})
    BY <2>2, <2>3, MapSegmentAdded
  <2>5. h[k] = madd_segment(tr, combiner, v, h[k - 1], q[k])
    BY DEF n
  <2>6. R(k)
    BY <1>5, <2>4, <2>5
  <2> HIDE DEF R
  <2> QED BY <1>6, <2>1, <2>6
<1>9. R(n)
  <2>1. n \in 0 .. n
    BY <1>1
  <2>2. P[n]
    BY <1>1, <1>6, <1>7, <1>8, <2>1, Upwards
  <2> HIDE DEF R
  <2> QED BY <1>6, <2>1, <2>2
<1> QED BY <1>3, <1>9 DEF n

\* The addition to the segments that overlap the addend.
LEMMA CombineOverIs ==
  ASSUME NEW tr, NEW combiner, NEW M, MapFit(tr, M), NEW s, Whole(s), overlap(M, s.itv) # {}
  PROVE  Combined(tr, combiner, M, s.itv, s.val,
                  combine_front(tr, combiner, split_front(M, s.itv), s))
<1> DEFINE i == s.itv
           v == s.val
           F == split_front(M, i)
           E == overlap(F, i)
           l == mlast(E)
           x == [M |-> F, rest |-> i]
           q == SegmentsInOrder(E \ {l})
<1>1. Mapped(M) /\ (tr.joins => \A k \in Int : ~ Seam(M, k))
  BY DEF MapFit
<1>2. Proper(i) /\ i \in Interval /\ v \in SUBSET Values
  BY WholeIs
<1>3. /\ Mapped(F) /\ SameValues(F, M)
      /\ \A k \in Int : Seam(F, k) => Seam(M, k) \/ k = first(i)
      /\ Mapped(E) /\ E # {} /\ E \in SUBSET F
      /\ \A t \in F : t \in E <=> first(i) <= Lo(t) /\ Lo(t) <= last(i)
      /\ \A t \in F : t \in E \/ Hi(t) < first(i) \/ last(i) < Lo(t)
  BY <1>1, <1>2, SplitFrontIs
<1>4. combine_front(tr, combiner, F, s) = combine_over(tr, combiner, F, s, E)
  BY DEF combine_front
<1> HIDE DEF F, E, i, v
<1>5. l \in E /\ \A u \in E : u = l \/ Hi(u) < Lo(l)
  BY <1>3, FirstAndLastSegment
<1>6. Combining(tr, combiner, F, i, v, x, E)
  <2>1. ASSUME NEW k \in Int
        PROVE  ~ (In(k, i) /\ k < first(i))
    BY <1>2, ProperEnds DEF In
  <2>2. first(i) <= first(i)
    BY <1>2, ProperEnds
  <2>3. \A u \in E : u \in F /\ first(i) <= Lo(u) /\ Lo(u) <= last(i)
    BY <1>3
  <2>4. tr.joins => \A k \in Int : Seam(F, k) => k = first(i)
    BY <1>1, <1>3
  <2>5. x.M = F /\ x.rest = i
    OBVIOUS
  <2> HIDE DEF x
  <2> QED BY <1>2, <1>3, <2>1, <2>2, <2>3, <2>4, <2>5 DEF Combining
<1>7. q \in Seq(Wholes) /\ F \in SUBSET Wholes
  <2>1. \A t \in F : t \in Wholes
    BY <1>3, WholeIs DEF Mapped, Wholes
  <2>2. Mapped(E \ {l})
    BY <1>3, MapPart
  <2>3. q \in Seq(E \ {l})
    BY <2>2, SegmentsIterated
  <2> HIDE DEF q, l
  <2> QED BY <1>3, <2>1, <2>3
<1>9. PICK h \in [0 .. Len(q) -> [M : SUBSET Wholes, rest : Interval]] :
        /\ h[0] = x
        /\ combine_over(tr, combiner, F, s, E) = madd_rear(tr, combiner, v, h[Len(q)], l)
        /\ \A k \in 1 .. Len(q) : h[k] = madd_segment(tr, combiner, v, h[k - 1], q[k]) /\ q[k] \in Wholes
  <2>1. s.val \in SUBSET Values /\ F \in SUBSET Wholes /\ s.itv \in Interval
    BY <1>2, <1>7 DEF i, v
  <2>2. q \in Seq(Wholes) /\ q = SegmentsInOrder(E \ {mlast(E)})
    BY <1>7
  <2> HIDE DEF q, x, l
  <2>3. CombineRuns(tr, combiner, F, s, E, q)
    BY <2>1, <2>2, CombineLoop
  <2> QED BY <2>3 DEF CombineRuns, i, v, x, l
<1> HIDE DEF q, l, x
<1>10. Combining(tr, combiner, F, i, v, h[Len(q)], {l})
  BY <1>2, <1>3, <1>5, <1>6, <1>9, CombinePasses DEF q
<1>11. Combined(tr, combiner, F, i, v, combine_over(tr, combiner, F, s, E))
  BY <1>2, <1>3, <1>9, <1>10, MapAddRearIs
<1>12. Combined(tr, combiner, M, i, v, combine_over(tr, combiner, F, s, E))
  BY <1>3, <1>11 DEF Combined, SameValues
<1> QED BY <1>4, <1>12 DEF F, i, v

\* What an operation with v does at the keys of i, of a map that fits its type.
CombinedAt(tr, combiner, M, i, v, H) ==
  /\ MapFit(tr, H)
  /\ \A k \in Int : ValueAt(H, k) =
       IF In(k, i) /\ ~ is_absorbable(tr, v)
       THEN CombinedCell(tr, combiner, ValueAt(M, k), v) ELSE ValueAt(M, k)

\* A combined cell is never the empty value of an absorber.
LEMMA CellsFit ==
  ASSUME NEW tr, NEW combiner, NEW M, MapFit(tr, M), NEW i, NEW v, ~ is_absorbable(tr, v),
         NEW H, Combined(tr, combiner, M, i, v, H)
  PROVE  CombinedAt(tr, combiner, M, i, v, H)
<1>1. /\ Mapped(H) /\ (tr.joins => \A k \in Int : ~ Seam(H, k))
      /\ \A k \in Int : ValueAt(H, k) =
           IF In(k, i) THEN CombinedCell(tr, combiner, ValueAt(M, k), v) ELSE ValueAt(M, k)
  BY DEF Combined
<1>2. ASSUME tr.absorbs, NEW k \in Int
      PROVE  ValueAt(H, k) # {}
  <2>1. ValueAt(M, k) # {} /\ v # {} /\ NoValue # {}
    BY <1>2, FitValues, ContainersAssumption DEF is_absorbable
  <2>2. CombinedCell(tr, combiner, ValueAt(M, k), v) # {}
    BY <1>2, <2>1 DEF CombinedCell, Kept, Absorbable
  <2> QED BY <1>1, <2>1, <2>2
<1>3. MapFit(tr, H)
  BY <1>1, <1>2, FitFromValues
<1> QED BY <1>1, <1>3 DEF CombinedAt

\* _add: the map keeps its form, each key of the segment has its combined value,
\* and no other key changes.
LEMMA CombineIs ==
  ASSUME NEW tr, NEW combiner, NEW M, MapFit(tr, M), NEW s \in SegmentType
  PROVE  CombinedAt(tr, combiner, M, s.itv, s.val, CombineAt(tr, combiner, M, s))
<1> DEFINE H == CombineAt(tr, combiner, M, s)
<1>0. s.itv \in Interval /\ s.val \in SUBSET Values
  BY DEF SegmentType
<1>m. Mapped(M) /\ (tr.joins => \A k \in Int : ~ Seam(M, k))
  BY DEF MapFit
<1>1. CASE ~ Proper(s.itv)
  <2>1. H = M
    BY <1>0, <1>1, ProperIs DEF CombineAt
  <2>2. \A k \in Int : ~ In(k, s.itv)
    BY <1>0, <1>1, NoKeys
  <2> QED BY <2>1, <2>2 DEF CombinedAt
<1>2. CASE is_absorbable(tr, s.val)
  <2>1. H = M
    BY <1>2 DEF CombineAt
  <2> QED BY <1>2, <2>1 DEF CombinedAt
<1>3. CASE Proper(s.itv) /\ ~ is_absorbable(tr, s.val) /\ overlap(M, s.itv) = {}
  <2> DEFINE G == M \cup {s}
  <2>1. H = handle_inserted(tr, G, s)
    BY <1>0, <1>3, ProperIs DEF CombineAt
  <2>2. \A t \in M : last(s.itv) < Lo(t) \/ Hi(t) < first(s.itv)
    BY <1>m, <1>3, OverlapIs, MapEnds, ProperEnds
  <2>3. /\ Mapped(G)
        /\ \A k \in Int : ValueAt(G, k) = IF In(k, s.itv) THEN s.val ELSE ValueAt(M, k)
        /\ \A k \in Int : Seam(G, k) =>
             \/ Seam(M, k)
             \/ k = first(s.itv) /\ \E t \in M : Hi(t) + 1 = first(s.itv)
             \/ k = last(s.itv) + 1
    <3>1. seg(s.itv, s.val) = s
      BY DEF seg, SegmentType
    <3>2. LET g == seg(s.itv, s.val)
              J == M \cup {g}
          IN /\ Mapped(J)
             /\ \A k \in Int : ValueAt(J, k) = IF In(k, s.itv) THEN s.val ELSE ValueAt(M, k)
             /\ \A k \in Int : Seam(J, k) =>
                  \/ Seam(M, k)
                  \/ k = first(s.itv) /\ \E t \in M : Hi(t) + 1 = first(s.itv)
                  \/ k = last(s.itv) + 1
      BY <1>0, <1>m, <1>3, <2>2, Added
    <3> QED BY <3>1, <3>2
  <2>4. s \in G
    OBVIOUS
  <2> HIDE DEF G, H
  <2>5. /\ Mapped(H) /\ SameValues(H, G)
        /\ tr.joins => \A k \in Int :
             Seam(H, k) => Seam(G, k) /\ k # Lo(s) /\ k # Hi(s) + 1
    BY <2>1, <2>3, <2>4, InsertedIs
  <2>6. ASSUME NEW k \in Int
        PROVE  ValueAt(H, k) = IF In(k, s.itv)
                               THEN CombinedCell(tr, combiner, ValueAt(M, k), s.val)
                               ELSE ValueAt(M, k)
    <3>1. In(k, s.itv) => \A t \in M : ~ (Lo(t) <= k /\ k <= Hi(t))
      BY <1>m, <1>3, <2>2, MapEnds, ProperEnds DEF In
    <3>2. In(k, s.itv) => ValueAt(M, k) = NoValue
      BY <3>1, ValueOut
    <3> QED BY <2>3, <2>5, <3>2 DEF SameValues, CombinedCell
  <2>7. Combined(tr, combiner, M, s.itv, s.val, H)
    BY <1>m, <2>3, <2>5, <2>6 DEF Combined, Lo, Hi
  <2> QED BY <1>3, <2>7, CellsFit DEF H
<1>4. CASE Proper(s.itv) /\ ~ is_absorbable(tr, s.val) /\ overlap(M, s.itv) # {}
  <2>1. H = combine_front(tr, combiner, split_front(M, s.itv), s)
    BY <1>0, <1>4, ProperIs DEF CombineAt
  <2>2. Combined(tr, combiner, M, s.itv, s.val, H)
    BY <1>4, <2>1, CombineOverIs DEF Whole
  <2> QED BY <1>4, <2>2, CellsFit
<1> QED BY <1>1, <1>2, <1>3, <1>4

-----------------------------------------------------------------------------
(***************************************************************************)
(* Subtraction.                                                            *)
(***************************************************************************)

\* Removing values leaves a value.
LEMMA MinusTyped ==
  ASSUME NEW c \in SUBSET Values, NEW v
  PROVE  inplace_minus(c, v) \in SUBSET Values
BY DEF inplace_minus

\* The segment cur of H gets the value w in J, as new; what its keys have when
\* new is absorbed if it must be.
NewValue(tr, w, H, cur, J, new) ==
  /\ Mapped(J) /\ new \in J /\ Lo(new) = Lo(cur) /\ Hi(new) = Hi(cur)
  /\ \A k \in Int : LeftAfter(tr, J, new, k) =
       IF Within(k, cur) THEN Kept(tr, w) ELSE ValueAt(H, k)
  /\ tr.joins => \A k \in Int : Seam(J, k) => k = Lo(cur) \/ k = Hi(cur) + 1

\* A segment gets another value.
LEMMA NewValueHere ==
  ASSUME NEW tr, NEW w \in SUBSET Values, NEW H, Mapped(H), NEW cur \in H,
         tr.joins => \A k \in Int : Seam(H, k) => k = Lo(cur) \/ k = Hi(cur) + 1
  PROVE  LET new == seg(cur.itv, w)
         IN NewValue(tr, w, H, cur, (H \ {cur}) \cup {new}, new)
<1> DEFINE new == seg(cur.itv, w)
           J == (H \ {cur}) \cup {new}
<1>3. /\ Mapped(J) /\ Lo(new) = Lo(cur) /\ Hi(new) = Hi(cur) /\ new.val = w
      /\ \A k \in Int : ValueAt(J, k) = IF Within(k, cur) THEN w ELSE ValueAt(H, k)
      /\ \A k \in Int : Seam(J, k) => Seam(H, k) \/ k = Lo(cur) \/ k = Hi(cur) + 1
  BY Revalued
<1>4. new \in J
  OBVIOUS
<1> HIDE DEF J, new
<1>5. ASSUME NEW k \in Int
      PROVE  LeftAfter(tr, J, new, k) = IF Within(k, cur) THEN Kept(tr, w) ELSE ValueAt(H, k)
  <2>1. Within(k, new) <=> Within(k, cur)
    BY <1>3 DEF Within
  <2>2. CASE Within(k, cur)
    BY <1>3, <2>1, <2>2 DEF LeftAfter, Kept, Absorbable, is_absorbable
  <2>3. CASE ~ Within(k, cur)
    BY <1>3, <2>1, <2>3 DEF LeftAfter
  <2> QED BY <2>2, <2>3
<1> QED BY <1>3, <1>4, <1>5 DEF J, new, NewValue

\* The loop of a subtraction of v from the keys of i: U are the segments still to
\* come, and the keys before b have their new values.  The last segment that was
\* changed may still meet its successor in a seam.
SubtractedUpTo(tr, F, i, v, X, U, b) ==
  /\ Mapped(X) /\ first(i) <= b
  /\ \A u \in U : u \in X /\ b <= Lo(u) /\ Lo(u) <= last(i)
  /\ \A t \in X : t \in U \/ Hi(t) < b \/ last(i) < Lo(t)
  /\ tr.joins => \A k \in Int : Seam(X, k) => k = b
  /\ \A k \in Int : ValueAt(X, k) =
       IF In(k, i) /\ k < b THEN cell_subtract(tr, ValueAt(F, k), v) ELSE ValueAt(F, k)

\* The subtraction has come to some key.
Subtracting(tr, F, i, v, X, U) == \E b \in Int : SubtractedUpTo(tr, F, i, v, X, U, b)

\* The keys before the segment cur have their new values in X, the others their
\* old ones.
SubtractReaches(tr, F, i, v, X, cur) ==
  /\ tr.joins => \A k \in Int : Seam(X, k) => k = Lo(cur)
  /\ \A k \in Int : k < Lo(cur) => ValueAt(X, k) =
       IF In(k, i) THEN cell_subtract(tr, ValueAt(F, k), v) ELSE ValueAt(F, k)
  /\ \A k \in Int : Lo(cur) <= k => ValueAt(X, k) = ValueAt(F, k)

\* No key between b and the next segment has a value, and the seam is where that
\* begins.
LEMMA SubtractReached ==
  ASSUME NEW tr, NEW F, NEW i, Proper(i), NEW v, NEW X, NEW U, NEW b \in Int,
         SubtractedUpTo(tr, F, i, v, X, U, b), NEW cur, Foremost(cur, U)
  PROVE  SubtractReaches(tr, F, i, v, X, cur)
<1>f. cur \in U /\ \A u \in U : u = cur \/ Hi(cur) < Lo(u)
  BY DEF Foremost
<1>0. /\ Mapped(X) /\ first(i) <= b
      /\ \A u \in U : u \in X /\ b <= Lo(u) /\ Lo(u) <= last(i)
      /\ \A t \in X : t \in U \/ Hi(t) < b \/ last(i) < Lo(t)
      /\ tr.joins => \A k \in Int : Seam(X, k) => k = b
      /\ \A k \in Int : ValueAt(X, k) =
           IF In(k, i) /\ k < b THEN cell_subtract(tr, ValueAt(F, k), v) ELSE ValueAt(F, k)
  BY DEF SubtractedUpTo
<1>s. \A t \in X : Lo(t) \in Int /\ Hi(t) \in Int /\ Lo(t) <= Hi(t)
  BY <1>0, MapEnds
<1>i. first(i) \in Int /\ last(i) \in Int /\ first(i) <= last(i)
  BY ProperEnds
<1>1. cur \in X /\ b <= Lo(cur) /\ Lo(cur) <= last(i)
  BY <1>0, <1>f
<1>2. \A t \in X : Hi(t) < b \/ Lo(cur) <= Lo(t)
  BY <1>s, <1>i, <1>0, <1>1, <1>f
<1>3. ASSUME tr.joins, NEW k \in Int, Seam(X, k)
      PROVE  k = Lo(cur)
  <2>1. k = b
    BY <1>0, <1>3
  <2>2. PICK t \in X : Lo(t) = k
    BY <1>3 DEF Seam
  <2> QED BY <1>s, <1>1, <1>2, <2>1, <2>2
<1>4. ASSUME NEW k \in Int, k < Lo(cur)
      PROVE  ValueAt(X, k) =
               IF In(k, i) THEN cell_subtract(tr, ValueAt(F, k), v) ELSE ValueAt(F, k)
  <2>1. CASE k < b
    BY <1>0, <2>1
  <2>2. CASE ~ (k < b)
    <3>1. \A t \in X : ~ (Lo(t) <= k /\ k <= Hi(t))
      BY <1>s, <1>1, <1>2, <1>4, <2>2
    <3>2. ValueAt(X, k) = NoValue
      BY <3>1, ValueOut
    <3>3. ValueAt(F, k) = NoValue
      BY <1>0, <2>2, <3>2
    <3> QED BY <3>2, <3>3 DEF cell_subtract
  <2> QED BY <2>1, <2>2
<1>5. ASSUME NEW k \in Int, Lo(cur) <= k
      PROVE  ValueAt(X, k) = ValueAt(F, k)
  <2>1. ~ (k < b)
    BY <1>s, <1>1, <1>5
  <2> QED BY <1>0, <2>1
<1> QED BY <1>3, <1>4, <1>5 DEF SubtractReaches

\* subtract_main: the loop goes on with the segments that follow.
LEMMA SegmentSubtracted ==
  ASSUME NEW tr, NEW F, NEW i, Proper(i), NEW v, NEW X, NEW U,
         Subtracting(tr, F, i, v, X, U), NEW cur, Foremost(cur, U), \E u \in U : u # cur
  PROVE  Subtracting(tr, F, i, v, subtract_main(tr, v, X, cur), U \ {cur})
<1> DEFINE w == inplace_minus(cur.val, v)
           new == seg(cur.itv, w)
           J == (X \ {cur}) \cup {new}
           K == handle_left_combined(tr, J, new)
<1>b. PICK b \in Int : SubtractedUpTo(tr, F, i, v, X, U, b)
  BY DEF Subtracting
<1>f. cur \in U /\ \A u \in U : u = cur \/ Hi(cur) < Lo(u)
  BY DEF Foremost
<1>0. /\ Mapped(X) /\ first(i) <= b
      /\ \A u \in U : u \in X /\ b <= Lo(u) /\ Lo(u) <= last(i)
      /\ \A t \in X : t \in U \/ Hi(t) < b \/ last(i) < Lo(t)
  BY <1>b DEF SubtractedUpTo
<1>s. \A t \in X : Lo(t) \in Int /\ Hi(t) \in Int /\ Lo(t) <= Hi(t) /\ t.val \in SUBSET Values
                   /\ t.val # NoValue
  BY <1>0, MapEnds
<1>i. first(i) \in Int /\ last(i) \in Int /\ first(i) <= last(i)
  BY ProperEnds
<1>1. cur \in X /\ b <= Lo(cur) /\ Hi(cur) < last(i)
  BY <1>s, <1>i, <1>0, <1>f
<1>2. /\ tr.joins => \A k \in Int : Seam(X, k) => k = Lo(cur)
      /\ \A k \in Int : k < Lo(cur) => ValueAt(X, k) =
           IF In(k, i) THEN cell_subtract(tr, ValueAt(F, k), v) ELSE ValueAt(F, k)
      /\ \A k \in Int : Lo(cur) <= k => ValueAt(X, k) = ValueAt(F, k)
  <2>1. SubtractReaches(tr, F, i, v, X, cur)
    BY <1>b, SubtractReached
  <2> QED BY <2>1 DEF SubtractReaches
<1>3. K = subtract_main(tr, v, X, cur)
  BY DEF subtract_main
<1>4. w \in SUBSET Values
  BY <1>s, <1>1, MinusTyped
<1>5. NewValue(tr, w, X, cur, J, new)
  <2>1. tr.joins => \A k \in Int : Seam(X, k) => k = Lo(cur) \/ k = Hi(cur) + 1
    BY <1>2
  <2> HIDE DEF w
  <2> QED BY <1>0, <1>1, <1>4, <2>1, NewValueHere
<1>6. /\ Mapped(J) /\ new \in J /\ Lo(new) = Lo(cur) /\ Hi(new) = Hi(cur)
      /\ \A k \in Int : LeftAfter(tr, J, new, k) =
           IF Within(k, cur) THEN Kept(tr, w) ELSE ValueAt(X, k)
      /\ tr.joins => \A k \in Int : Seam(J, k) => k = Lo(cur) \/ k = Hi(cur) + 1
  BY <1>5 DEF NewValue
<1>7. (\A t \in J : t = new \/ t \in X) /\ (\A t \in X : t # cur => t \in J)
  OBVIOUS
<1> HIDE DEF J, new, w
<1>8. /\ Mapped(K) /\ \A k \in Int : ValueAt(K, k) = LeftAfter(tr, J, new, k)
      /\ tr.joins => \A k \in Int : Seam(K, k) => Seam(J, k) /\ k # Lo(new)
      /\ \A t \in J : Hi(new) < Lo(t) => t \in K
      /\ \A t \in K : t \in J \/ Hi(t) = Hi(new)
  BY <1>6, LeftCombinedIs
<1> HIDE DEF K
<1> DEFINE c == Hi(cur) + 1
<1>9. c \in Int /\ Hi(cur) < c /\ first(i) <= c
  BY <1>s, <1>i, <1>0, <1>1
<1>10. \A u \in U \ {cur} : u \in K /\ c <= Lo(u) /\ Lo(u) <= last(i)
  <2> SUFFICES ASSUME NEW u \in U \ {cur}
               PROVE  u \in K /\ c <= Lo(u) /\ Lo(u) <= last(i)
    OBVIOUS
  <2>1. u \in X /\ Lo(u) <= last(i) /\ Hi(cur) < Lo(u)
    BY <1>0, <1>f
  <2>2. u \in J
    BY <1>7, <2>1
  <2> QED BY <1>s, <1>1, <1>6, <1>8, <2>1, <2>2
<1>11. \A t \in K : t \in U \ {cur} \/ Hi(t) < c \/ last(i) < Lo(t)
  <2> SUFFICES ASSUME NEW t \in K
               PROVE  t \in U \ {cur} \/ Hi(t) < c \/ last(i) < Lo(t)
    OBVIOUS
  <2>1. CASE Hi(t) = Hi(cur)
    BY <1>9, <2>1
  <2>2. CASE t \in X
    BY <1>s, <1>1, <1>0, <1>9, <2>1, <2>2
  <2> QED BY <1>6, <1>7, <1>8, <2>1, <2>2
<1>12. tr.joins => \A k \in Int : Seam(K, k) => k = c
  BY <1>6, <1>8
<1>13. ASSUME NEW k \in Int
       PROVE  ValueAt(K, k) = IF In(k, i) /\ k < c
                              THEN cell_subtract(tr, ValueAt(F, k), v) ELSE ValueAt(F, k)
  <2>1. ValueAt(K, k) = IF Within(k, cur) THEN Kept(tr, w) ELSE ValueAt(X, k)
    BY <1>6, <1>8
  <2>2. CASE k < Lo(cur)
    <3>1. ~ Within(k, cur) /\ k < c
      BY <1>s, <1>1, <1>9, <2>2 DEF Within
    <3> QED BY <1>2, <2>1, <2>2, <3>1
  <2>3. CASE Within(k, cur)
    <3>1. In(k, i) /\ k < c /\ Lo(cur) <= k
      BY <1>s, <1>i, <1>0, <1>1, <1>9, <2>3 DEF In, Within
    <3>2. ValueAt(F, k) = cur.val
      <4>1. ValueAt(X, k) = cur.val
        BY <1>0, <1>1, <2>3, ValuesFrom
      <4> QED BY <1>2, <3>1, <4>1
    <3> QED BY <1>s, <1>1, <2>1, <2>3, <3>1, <3>2 DEF cell_subtract, inplace_minus, w
  <2>4. CASE Hi(cur) < k
    <3>1. ~ Within(k, cur) /\ ~ (k < c) /\ Lo(cur) <= k
      BY <1>s, <1>1, <1>9, <2>4 DEF Within
    <3> QED BY <1>2, <2>1, <3>1
  <2> QED BY <1>s, <1>1, <2>2, <2>3, <2>4 DEF Within
<1> HIDE DEF c
<1>14. SubtractedUpTo(tr, F, i, v, K, U \ {cur}, c)
  BY <1>8, <1>9, <1>10, <1>11, <1>12, <1>13 DEF SubtractedUpTo
<1> QED BY <1>3, <1>9, <1>14 DEF Subtracting

\* H is F with v subtracted from each key of i.
Subtracted(tr, F, i, v, H) ==
  /\ Mapped(H)
  /\ tr.joins => \A k \in Int : ~ Seam(H, k)
  /\ \A k \in Int : ValueAt(H, k) =
       IF In(k, i) THEN cell_subtract(tr, ValueAt(F, k), v) ELSE ValueAt(F, k)

\* What is left to subtract when the last segment is reached.
LEMMA LastSubtracted ==
  ASSUME NEW tr, NEW F, NEW i, Proper(i), NEW v, NEW X, Mapped(X), NEW cur \in X,
         SubtractReaches(tr, F, i, v, X, cur), first(i) <= Lo(cur),
         \A t \in X : t = cur \/ Hi(t) < Lo(cur) \/ last(i) < Lo(t),
         NEW K, Mapped(K), tr.joins => \A k \in Int : ~ Seam(K, k),
         \A k \in Int : ValueAt(K, k) =
           IF Within(k, cur) /\ k <= last(i)
           THEN Kept(tr, inplace_minus(cur.val, v)) ELSE ValueAt(X, k)
  PROVE  Subtracted(tr, F, i, v, K)
<1>0. first(i) \in Int /\ last(i) \in Int
  BY ProperEnds
<1>s. \A t \in X : Lo(t) \in Int /\ Hi(t) \in Int /\ Lo(t) <= Hi(t) /\ t.val # NoValue
  BY MapEnds
<1>1. ASSUME NEW k \in Int
      PROVE  ValueAt(K, k) = IF In(k, i) THEN cell_subtract(tr, ValueAt(F, k), v) ELSE ValueAt(F, k)
  <2>1. /\ k < Lo(cur) => ValueAt(X, k) =
             IF In(k, i) THEN cell_subtract(tr, ValueAt(F, k), v) ELSE ValueAt(F, k)
        /\ Lo(cur) <= k => ValueAt(X, k) = ValueAt(F, k)
    BY DEF SubtractReaches
  <2>2. CASE k < Lo(cur)
    <3>1. ~ Within(k, cur)
      BY <1>s, <2>2 DEF Within
    <3> QED BY <2>1, <2>2, <3>1
  <2>3. CASE Within(k, cur)
    <3>1. ValueAt(X, k) = cur.val
      BY <2>3, ValuesFrom
    <3>2. ValueAt(F, k) = cur.val /\ (In(k, i) <=> k <= last(i))
      BY <1>0, <1>s, <2>1, <2>3, <3>1 DEF Within, In
    <3>3. cur.val # NoValue
      BY <1>s
    <3>4. cell_subtract(tr, ValueAt(F, k), v) = Kept(tr, inplace_minus(cur.val, v))
      BY <3>2, <3>3 DEF cell_subtract, inplace_minus
    <3> QED BY <2>3, <3>1, <3>2, <3>4
  <2>4. CASE Hi(cur) < k
    <3>1. ~ Within(k, cur) /\ Lo(cur) <= k
      BY <1>s, <2>4 DEF Within
    <3>2. ASSUME In(k, i)
          PROVE  ValueAt(X, k) = NoValue
      <4>1. k <= last(i)
        BY <3>2 DEF In
      <4>2. \A t \in X : ~ (Lo(t) <= k /\ k <= Hi(t))
        BY <1>0, <1>s, <2>4, <3>1, <4>1
      <4> QED BY <4>2, ValueOut
    <3>3. In(k, i) => cell_subtract(tr, ValueAt(F, k), v) = ValueAt(F, k)
      BY <2>1, <3>1, <3>2 DEF cell_subtract
    <3> QED BY <2>1, <3>1, <3>3
  <2> QED BY <1>s, <2>2, <2>3, <2>4 DEF Within
<1> QED BY <1>1 DEF Subtracted

\* subtract_rear: what of the last segment lies behind i keeps its value.
LEMMA SubtractRearIs ==
  ASSUME NEW tr, NEW F, NEW i, Proper(i), NEW v, NEW X, NEW cur,
         Subtracting(tr, F, i, v, X, {cur})
  PROVE  Subtracted(tr, F, i, v, subtract_rear(tr, i, v, X, cur))
<1> DEFINE w == inplace_minus(cur.val, v)
           resid == right_over_of(cur.itv, i)
           whole == seg(cur.itv, w)
           p == left_over_of(cur.itv, resid)
           combined == seg(p, w)
           tail == seg(resid, cur.val)
           K == subtract_rear(tr, i, v, X, cur)
<1>b. PICK b \in Int : SubtractedUpTo(tr, F, i, v, X, {cur}, b)
  BY DEF Subtracting
<1>0. /\ Mapped(X) /\ first(i) <= b
      /\ cur \in X /\ b <= Lo(cur) /\ Lo(cur) <= last(i)
      /\ \A t \in X : t = cur \/ Hi(t) < b \/ last(i) < Lo(t)
  BY <1>b DEF SubtractedUpTo
<1>s. \A t \in X : /\ Lo(t) \in Int /\ Hi(t) \in Int /\ Lo(t) <= Hi(t) /\ t.val \in SUBSET Values
                   /\ Proper(t.itv)
  BY <1>0, MapEnds
<1>i. first(i) \in Int /\ last(i) \in Int /\ first(i) <= last(i)
  BY ProperEnds
<1>1. SubtractReaches(tr, F, i, v, X, cur)
  <2>1. Foremost(cur, {cur})
    BY DEF Foremost
  <2> QED BY <1>b, <2>1, SubtractReached
<1>2. tr.joins => \A k \in Int : Seam(X, k) => k = Lo(cur)
  BY <1>1 DEF SubtractReaches
<1>3. first(i) <= Lo(cur) /\ \A t \in X : t = cur \/ Hi(t) < Lo(cur) \/ last(i) < Lo(t)
  BY <1>s, <1>i, <1>0
<1>4. w \in SUBSET Values
  BY <1>s, <1>0, MinusTyped
<1>5. SUFFICES /\ Mapped(K) /\ (tr.joins => \A k \in Int : ~ Seam(K, k))
               /\ \A k \in Int : ValueAt(K, k) =
                    IF Within(k, cur) /\ k <= last(i) THEN Kept(tr, w) ELSE ValueAt(X, k)
  <2> HIDE DEF K
  <2>1. ASSUME Mapped(K), tr.joins => \A k \in Int : ~ Seam(K, k),
               \A k \in Int : ValueAt(K, k) =
                 IF Within(k, cur) /\ k <= last(i)
                 THEN Kept(tr, inplace_minus(cur.val, v)) ELSE ValueAt(X, k)
        PROVE  Subtracted(tr, F, i, v, K)
    BY <1>0, <1>1, <1>3, <2>1, LastSubtracted
  <2> QED BY <2>1 DEF K
<1>6. /\ resid \in Interval
      /\ Proper(resid) <=> last(i) < Hi(cur)
      /\ Proper(resid) => first(resid) = last(i) + 1 /\ last(resid) = Hi(cur)
  <2>1. /\ resid \in Interval
        /\ Proper(resid) <=> last(i) < Hi(cur)
        /\ Proper(resid) =>
             /\ first(resid) = IF last(i) < Lo(cur) THEN Lo(cur) ELSE last(i) + 1
             /\ last(resid) = Hi(cur)
    BY <1>s, <1>0, RightOver DEF Lo, Hi
  <2>2. ~ (last(i) < Lo(cur))
    BY <1>s, <1>i, <1>0
  <2> QED BY <2>1, <2>2
<1>7. is_empty(resid) <=> ~ Proper(resid)
  BY <1>6, ProperIs
<1>8. K = IF is_empty(resid) THEN handle_combined(tr, (X \ {cur}) \cup {whole}, whole)
          ELSE handle_succeeded_combined(tr, (X \ {cur}) \cup {combined, tail}, combined, tail)
  BY Zenon DEF subtract_rear
<1> HIDE DEF K, w, resid, p
<1>9. CASE ~ Proper(resid)
  <2> DEFINE J == (X \ {cur}) \cup {whole}
  <2>1. K = handle_combined(tr, J, whole)
    BY <1>7, <1>8, <1>9
  <2>2. NewValue(tr, w, X, cur, J, whole)
    <3>1. tr.joins => \A k \in Int : Seam(X, k) => k = Lo(cur) \/ k = Hi(cur) + 1
      BY <1>2
    <3> QED BY <1>0, <1>4, <3>1, NewValueHere
  <2>3. /\ Mapped(J) /\ whole \in J /\ Lo(whole) = Lo(cur) /\ Hi(whole) = Hi(cur)
        /\ \A k \in Int : LeftAfter(tr, J, whole, k) =
             IF Within(k, cur) THEN Kept(tr, w) ELSE ValueAt(X, k)
        /\ tr.joins => \A k \in Int : Seam(J, k) => k = Lo(cur) \/ k = Hi(cur) + 1
    BY <2>2 DEF NewValue
  <2> HIDE DEF J, whole
  <2>4. /\ Mapped(K) /\ \A k \in Int : ValueAt(K, k) = LeftAfter(tr, J, whole, k)
        /\ tr.joins => \A k \in Int :
             Seam(K, k) => Seam(J, k) /\ k # Lo(whole) /\ k # Hi(whole) + 1
    BY <2>1, <2>3, CombinedIs
  <2>5. \A k \in Int : Within(k, cur) => k <= last(i)
    BY <1>s, <1>i, <1>0, <1>6, <1>9 DEF Within
  <2> QED BY <2>3, <2>4, <2>5
<1>10. CASE Proper(resid)
  <2> DEFINE B == (X \ {cur}) \cup {combined, tail}
  <2>1. K = handle_succeeded_combined(tr, B, combined, tail)
    BY <1>7, <1>8, <1>10
  <2>2. last(i) < Hi(cur) /\ first(resid) = last(i) + 1 /\ last(resid) = Hi(cur)
    BY <1>6, <1>10
  <2>3. Proper(p) /\ first(p) = Lo(cur) /\ last(p) = last(i)
    <3>1. /\ Proper(p) <=> Lo(cur) < first(resid)
          /\ Proper(p) =>
               /\ first(p) = Lo(cur)
               /\ last(p) = IF Hi(cur) < first(resid) THEN Hi(cur) ELSE first(resid) - 1
      BY <1>s, <1>0, <1>10, LeftOver DEF Lo, Hi, p
    <3>2. Lo(cur) < first(resid) /\ ~ (Hi(cur) < first(resid)) /\ first(resid) - 1 = last(i)
      BY <1>0, <1>s, <1>i, <2>2
    <3> QED BY <3>1, <3>2
  <2>4. /\ Mapped(B)
        /\ \A k \in Int : ValueAt(B, k) = IF In(k, p) THEN w ELSE ValueAt(X, k)
        /\ \A k \in Int : Seam(B, k) => Seam(X, k) \/ k = Lo(cur) \/ k = first(resid)
    <3>1. last(p) + 1 = first(resid)
      BY <2>2, <2>3
    <3>2. LET a == seg(p, w)
              b0 == seg(resid, cur.val)
              N == (X \ {cur}) \cup {a, b0}
          IN /\ Mapped(N) /\ a # b0
             /\ \A k \in Int : ValueAt(N, k) = IF In(k, p) THEN w ELSE ValueAt(X, k)
             /\ \A k \in Int : Seam(N, k) => Seam(X, k) \/ k = Lo(cur) \/ k = first(resid)
             /\ w = cur.val => \A k \in Int : Seam(N, k) => Seam(X, k) \/ k = first(resid)
      <4>1. Mapped(X) /\ cur \in X
        BY <1>0
      <4> QED BY <4>1, <1>4, <1>10, <2>2, <2>3, <3>1, Cut
    <3> QED BY <3>2
  <2>5. tail \in B /\ combined \in B
    OBVIOUS
  <2>6. /\ Lo(combined) = Lo(cur) /\ Hi(combined) = last(i) /\ combined.val = w
        /\ Lo(tail) = last(i) + 1
    BY <1>s, <1>0, <1>4, <1>10, <2>2, <2>3, SegIs
  <2> HIDE DEF B, combined, tail
  <2>7. Hi(combined) + 1 = Lo(tail)
    BY <2>6
  <2>8. /\ Mapped(K) /\ \A k \in Int : ValueAt(K, k) = LeftAfter(tr, B, combined, k)
        /\ tr.joins => \A k \in Int :
             Seam(K, k) => Seam(B, k) /\ k # Lo(combined) /\ k # Lo(tail) /\ k # Hi(tail) + 1
    BY <2>1, <2>4, <2>5, <2>7, SucceededIs
  <2>9. tr.joins => \A k \in Int : ~ Seam(K, k)
    BY <1>2, <2>2, <2>4, <2>6, <2>8
  <2>10. ASSUME NEW k \in Int
         PROVE  ValueAt(K, k) = IF Within(k, cur) /\ k <= last(i) THEN Kept(tr, w) ELSE ValueAt(X, k)
    <3>1. /\ In(k, p) <=> Within(k, cur) /\ k <= last(i)
          /\ Within(k, combined) <=> In(k, p)
      BY <1>s, <1>i, <1>0, <2>2, <2>3, <2>6 DEF In, Within
    <3>2. CASE In(k, p)
      BY <2>4, <2>6, <2>8, <3>1, <3>2 DEF LeftAfter, Kept, Absorbable, is_absorbable
    <3>3. CASE ~ In(k, p)
      BY <2>4, <2>8, <3>1, <3>3 DEF LeftAfter
    <3> QED BY <3>2, <3>3
  <2> QED BY <2>8, <2>9, <2>10
<1> QED BY <1>9, <1>10

\* One pass of subtract_main, whatever the map.
LEMMA MapSubtractTyped ==
  ASSUME NEW tr, NEW v, NEW X \in SUBSET Wholes, NEW cur \in Wholes
  PROVE  subtract_main(tr, v, X, cur) \in SUBSET Wholes
<1> DEFINE w == inplace_minus(cur.val, v)
           new == seg(cur.itv, w)
<1>1. cur.itv \in Interval /\ Proper(cur.itv) /\ cur.val \in SUBSET Values
  BY WholeIs DEF Wholes, Whole
<1>2. w \in SUBSET Values
  BY <1>1, MinusTyped
<1>3. subtract_main(tr, v, X, cur) = handle_left_combined(tr, (X \ {cur}) \cup {new}, new)
  BY DEF subtract_main
<1> HIDE DEF w
<1>4. new \in Wholes
  BY <1>1, <1>2, SegTypedWhole
<1> HIDE DEF new
<1>5. (X \ {cur}) \cup {new} \in SUBSET Wholes
  BY <1>4
<1> QED BY <1>3, <1>4, <1>5, LeftHandlersTyped

\* The subtraction of sg from M has a loop, over E of F.
SubtractsOver(tr, M, sg, F, E) ==
  /\ ~ (is_empty(sg.itv) \/ is_absorbable(tr, sg.val) \/ overlap(M, sg.itv) = {})
  /\ F = split_front(M, sg.itv) /\ E = overlap(F, sg.itv)

\* The states h of the loop of a subtraction.
SubtractRuns(tr, M, sg, F, E, q) ==
  \E h \in [0 .. Len(q) -> SUBSET Wholes] :
    /\ h[0] = F
    /\ SubtractSegment(tr, M, sg) = subtract_rear(tr, sg.itv, sg.val, h[Len(q)], mlast(E))
    /\ \A k \in 1 .. Len(q) : h[k] = subtract_main(tr, sg.val, h[k - 1], q[k]) /\ q[k] \in Wholes

\* The loop of a subtraction: every pass is subtract_main.
LEMMA SubtractLoop ==
  ASSUME NEW tr, NEW M, NEW sg, NEW F, NEW E, SubtractsOver(tr, M, sg, F, E),
         F \in SUBSET Wholes, NEW q \in Seq(Wholes), q = SegmentsInOrder(E \ {mlast(E)})
  PROVE  SubtractRuns(tr, M, sg, F, E, q)
<1> DEFINE D == SUBSET Wholes
           Q == Wholes
           g == [p \in D \X Q |-> subtract_main(tr, sg.val, p[1], p[2])]
           iter == CHOOSE it : it = [s \in SUBSET DOMAIN q |->
                     IF s = {} THEN F ELSE subtract_main(tr, sg.val, it[s \ {Max(s)}], q[Max(s)])]
<1>0. F \in D /\ q \in Seq(Q)
  OBVIOUS
<1>1. ASSUME NEW y \in D, NEW t \in Q
      PROVE  subtract_main(tr, sg.val, y, t) \in D
  BY <1>0, MapSubtractTyped
<1>2. g \in [D \X Q -> D]
  <2>1. \A p \in D \X Q : subtract_main(tr, sg.val, p[1], p[2]) \in D
    BY <1>1
  <2> QED BY <2>1, Zenon
<1>3. \A y \in D, t \in Q : g[<<y, t>>] = subtract_main(tr, sg.val, y, t)
  <2> HIDE DEF D, Q
  <2> QED OBVIOUS
<1> HIDE DEF g, D, Q
<1>4. PICK it \in [SUBSET DOMAIN q -> D] : Solves(it, D, Q, g, F, q)
  BY <1>0, <1>2, FoldSolved
<1>5. it = [s \in SUBSET DOMAIN q |->
              IF s = {} THEN F ELSE subtract_main(tr, sg.val, it[s \ {Max(s)}], q[Max(s)])]
  <2>1. \A s \in SUBSET DOMAIN q :
          it[s] = IF s = {} THEN F ELSE subtract_main(tr, sg.val, it[s \ {Max(s)}], q[Max(s)])
    <3>1. it[{}] = F
      BY <1>4 DEF Solves
    <3>2. ASSUME NEW s \in SUBSET DOMAIN q, s # {}
          PROVE  it[s] = subtract_main(tr, sg.val, it[s \ {Max(s)}], q[Max(s)])
      <4>1. /\ it[s \ {Max(s)}] \in D /\ q[Max(s)] \in Q
            /\ it[s] = g[<<it[s \ {Max(s)}], q[Max(s)]>>]
        BY <1>4, <3>2 DEF Solves
      <4> QED BY <1>3, <4>1
    <3> QED BY <3>1, <3>2
  <2>2. it = [s \in SUBSET DOMAIN q |-> it[s]]
    OBVIOUS
  <2> QED BY <2>1, <2>2, Zenon
<1>6. iter = [s \in SUBSET DOMAIN q |->
                IF s = {} THEN F ELSE subtract_main(tr, sg.val, iter[s \ {Max(s)}], q[Max(s)])]
  BY <1>5, Zenon
<1>7. SubtractSegment(tr, M, sg) = subtract_rear(tr, sg.itv, sg.val, iter[DOMAIN q], mlast(E))
  BY Zenon DEF SubtractsOver, SubtractSegment, ForSegments, FoldLeft, MapThenFoldSet
<1> HIDE DEF iter
<1>8. \A s \in SUBSET DOMAIN q :
        iter[s] = IF s = {} THEN F ELSE subtract_main(tr, sg.val, iter[s \ {Max(s)}], q[Max(s)])
  BY <1>6
<1>9. SolvesWithin(iter, D, g, F, q)
  <2>1. iter[{}] = F
    BY <1>8
  <2>2. ASSUME NEW s \in SUBSET DOMAIN q, s # {}, iter[s \ {Max(s)}] \in D
        PROVE  iter[s] = g[<<iter[s \ {Max(s)}], q[Max(s)]>>]
    <3>1. q[Max(s)] \in Q
      BY <1>4, <2>2 DEF Solves
    <3>2. g[<<iter[s \ {Max(s)}], q[Max(s)]>>] = subtract_main(tr, sg.val, iter[s \ {Max(s)}], q[Max(s)])
      BY <1>3, <2>2, <3>1
    <3>3. iter[s] = subtract_main(tr, sg.val, iter[s \ {Max(s)}], q[Max(s)])
      BY <1>8, <2>2
    <3> QED BY <3>2, <3>3
  <2> QED BY <2>1, <2>2 DEF SolvesWithin
<1>10. PICK h \in [0 .. Len(q) -> D] : Passes(h, Q, g, F, q, iter[DOMAIN q])
  BY <1>0, <1>2, <1>9, FoldStates
<1>11. ASSUME NEW k \in 1 .. Len(q)
       PROVE  h[k] = subtract_main(tr, sg.val, h[k - 1], q[k]) /\ q[k] \in Q
  <2>1. h[k - 1] \in D
    <3>1. k - 1 \in 0 .. Len(q)
      <4>1. Len(q) \in Nat
        BY <1>0, LenProperties
      <4> QED BY <4>1, PassBefore
    <3>2. \A j \in 0 .. Len(q) : h[j] \in D
      BY <1>10
    <3> QED BY <3>1, <3>2
  <2> QED BY <1>3, <1>10, <2>1 DEF Passes
<1> QED BY <1>7, <1>10, <1>11 DEF D, Q, Passes, SubtractRuns

\* The loop of a subtraction ends when every segment but the last has its value.
LEMMA SubtractPasses ==
  ASSUME NEW tr, NEW F, NEW i, Proper(i), NEW v,
         NEW E, Mapped(E), NEW l \in E, \A u \in E : u = l \/ Hi(u) < Lo(l),
         NEW q, q = SegmentsInOrder(E \ {l}), NEW h,
         Subtracting(tr, F, i, v, h[0], E),
         \A k \in 1 .. Len(q) : h[k] = subtract_main(tr, v, h[k - 1], q[k])
  PROVE  Subtracting(tr, F, i, v, h[Len(q)], {l})
<1> DEFINE Z == E \ {l}
           n == Len(q)
           U(k) == Rest(q, k) \cup {l}
           R(k) == Subtracting(tr, F, i, v, h[k], U(k))
           P == [k \in 0 .. n |-> R(k)]
<1>0. Mapped(Z) /\ q = SegmentsInOrder(Z) /\ Z \cup {l} = E /\ \A z \in Z : z \in E /\ z # l
  BY MapPart
<1> HIDE DEF Z
<1>1. q \in Seq(Z) /\ n \in Nat
  BY <1>0, SegmentsIterated
<1>2. /\ Rest(q, 0) = Z /\ Rest(q, n) = {}
      /\ \A k \in 1 .. n :
           /\ q[k] \in Rest(q, k - 1) /\ Rest(q, k) = Rest(q, k - 1) \ {q[k]}
           /\ \A u \in Rest(q, k - 1) : u = q[k] \/ Hi(q[k]) < Lo(u)
  BY <1>0, SegmentsRest
<1>3. U(0) = E /\ U(n) = {l}
  BY <1>0, <1>2
<1>4. \A k \in 1 .. n : q[k] \in E /\ q[k] # l
  BY <1>0, <1>1
<1>5. ASSUME NEW k \in 1 .. n
      PROVE  Foremost(q[k], U(k - 1)) /\ l \in U(k - 1) /\ l # q[k] /\ U(k) = U(k - 1) \ {q[k]}
  <2>1. Hi(q[k]) < Lo(l)
    BY <1>4
  <2>2. Foremost(q[k], U(k - 1))
    BY <1>2, <2>1 DEF Foremost
  <2> QED BY <1>2, <1>4, <2>2
<1>6. P \in [0 .. n -> BOOLEAN] /\ \A k \in 0 .. n : P[k] <=> R(k)
  BY DEF Subtracting
<1> HIDE DEF P, n, U
<1>7. P[0]
  <2>1. R(0)
    BY <1>3
  <2>2. 0 \in 0 .. n
    BY <1>1
  <2> HIDE DEF R
  <2> QED BY <1>6, <2>1, <2>2
<1>8. ASSUME NEW k \in 1 .. n, P[k - 1]
      PROVE  P[k]
  <2>1. k - 1 \in 0 .. n /\ k \in 0 .. n
    BY <1>1
  <2>2. R(k - 1)
    BY <1>6, <1>8, <2>1
  <2>3. Foremost(q[k], U(k - 1)) /\ \E u \in U(k - 1) : u # q[k]
    BY <1>5
  <2>4. Subtracting(tr, F, i, v, subtract_main(tr, v, h[k - 1], q[k]), U(k - 1) \ {q[k]})
    BY <2>2, <2>3, SegmentSubtracted
  <2>5. h[k] = subtract_main(tr, v, h[k - 1], q[k])
    BY DEF n
  <2>6. R(k)
    BY <1>5, <2>4, <2>5
  <2> HIDE DEF R
  <2> QED BY <1>6, <2>1, <2>6
<1>9. R(n)
  <2>1. n \in 0 .. n
    BY <1>1
  <2>2. P[n]
    BY <1>1, <1>6, <1>7, <1>8, <2>1, Upwards
  <2> HIDE DEF R
  <2> QED BY <1>6, <2>1, <2>2
<1> QED BY <1>3, <1>9 DEF n

\* The subtraction from the segments that overlap the subtrahend.
LEMMA SubtractOverIs ==
  ASSUME NEW tr, NEW M, MapFit(tr, M), NEW s, Whole(s), ~ is_absorbable(tr, s.val),
         overlap(M, s.itv) # {}
  PROVE  Subtracted(tr, M, s.itv, s.val, SubtractSegment(tr, M, s))
<1> DEFINE i == s.itv
           v == s.val
           F == split_front(M, i)
           E == overlap(F, i)
           l == mlast(E)
           q == SegmentsInOrder(E \ {l})
<1>1. Mapped(M) /\ (tr.joins => \A k \in Int : ~ Seam(M, k))
  BY DEF MapFit
<1>2. Proper(i) /\ i \in Interval /\ v \in SUBSET Values
  BY WholeIs
<1>3. /\ Mapped(F) /\ SameValues(F, M)
      /\ \A k \in Int : Seam(F, k) => Seam(M, k) \/ k = first(i)
      /\ Mapped(E) /\ E # {} /\ E \in SUBSET F
      /\ \A t \in F : t \in E <=> first(i) <= Lo(t) /\ Lo(t) <= last(i)
      /\ \A t \in F : t \in E \/ Hi(t) < first(i) \/ last(i) < Lo(t)
  BY <1>1, <1>2, SplitFrontIs
<1>4. SubtractsOver(tr, M, s, F, E)
  BY <1>2, ProperEnds DEF SubtractsOver
<1> HIDE DEF F, E, i, v
<1>5. l \in E /\ \A u \in E : u = l \/ Hi(u) < Lo(l)
  BY <1>3, FirstAndLastSegment
<1>6. Subtracting(tr, F, i, v, F, E)
  <2>1. ASSUME NEW k \in Int
        PROVE  ~ (In(k, i) /\ k < first(i))
    BY <1>2, ProperEnds DEF In
  <2>2. first(i) <= first(i) /\ first(i) \in Int
    BY <1>2, ProperEnds
  <2>3. \A u \in E : u \in F /\ first(i) <= Lo(u) /\ Lo(u) <= last(i)
    BY <1>3
  <2>4. tr.joins => \A k \in Int : Seam(F, k) => k = first(i)
    BY <1>1, <1>3
  <2>5. SubtractedUpTo(tr, F, i, v, F, E, first(i))
    BY <1>3, <2>1, <2>2, <2>3, <2>4 DEF SubtractedUpTo
  <2> QED BY <2>2, <2>5 DEF Subtracting
<1>7. q \in Seq(Wholes) /\ F \in SUBSET Wholes
  <2>1. \A t \in F : t \in Wholes
    BY <1>3, WholeIs DEF Mapped, Wholes
  <2>2. Mapped(E \ {l})
    BY <1>3, MapPart
  <2>3. q \in Seq(E \ {l})
    BY <2>2, SegmentsIterated
  <2> HIDE DEF q, l
  <2> QED BY <1>3, <2>1, <2>3
<1>8. PICK h \in [0 .. Len(q) -> SUBSET Wholes] :
        /\ h[0] = F
        /\ SubtractSegment(tr, M, s) = subtract_rear(tr, i, v, h[Len(q)], l)
        /\ \A k \in 1 .. Len(q) : h[k] = subtract_main(tr, v, h[k - 1], q[k]) /\ q[k] \in Wholes
  <2>1. q \in Seq(Wholes) /\ q = SegmentsInOrder(E \ {mlast(E)})
    BY <1>7
  <2> HIDE DEF q, l
  <2>2. SubtractRuns(tr, M, s, F, E, q)
    BY <1>4, <1>7, <2>1, SubtractLoop
  <2> QED BY <2>2 DEF SubtractRuns, i, v, l
<1> HIDE DEF q, l
<1>9. Subtracting(tr, F, i, v, h[Len(q)], {l})
  BY <1>2, <1>3, <1>5, <1>6, <1>8, SubtractPasses DEF q
<1>10. Subtracted(tr, F, i, v, SubtractSegment(tr, M, s))
  BY <1>2, <1>8, <1>9, SubtractRearIs
<1>11. Subtracted(tr, M, i, v, SubtractSegment(tr, M, s))
  BY <1>3, <1>10 DEF Subtracted, SameValues
<1> QED BY <1>11 DEF i, v

\* What an operation of icl::map with v at each key of i makes of a map, which
\* still fits its type.
OpAt(op, tr, M, i, v, H) ==
  /\ MapFit(tr, H)
  /\ \A k \in Int : ValueAt(H, k) = IF In(k, i) THEN cell(op, tr, ValueAt(M, k), v)
                                                ELSE ValueAt(M, k)

\* add of a segment is that of icl::map at each of its keys.
LEMMA AddSegmentIs ==
  ASSUME NEW tr, NEW M, MapFit(tr, M), NEW s \in SegmentType
  PROVE  OpAt("add", tr, M, s.itv, s.val, AddSegment(tr, M, s))
<1> DEFINE H == AddSegment(tr, M, s)
<1>1. CombinedAt(tr, "plus", M, s.itv, s.val, CombineAt(tr, "plus", M, s))
  BY CombineIs
<1>2. CombinedAt(tr, "plus", M, s.itv, s.val, H)
  BY <1>1 DEF AddSegment
<1> HIDE DEF H
<1>3. /\ MapFit(tr, H)
      /\ \A k \in Int : ValueAt(H, k) =
           IF In(k, s.itv) /\ ~ is_absorbable(tr, s.val)
           THEN CombinedCell(tr, "plus", ValueAt(M, k), s.val) ELSE ValueAt(M, k)
  BY <1>2 DEF CombinedAt
<1>4. ASSUME NEW c
      PROVE  cell("add", tr, c, s.val) = IF is_absorbable(tr, s.val) THEN c
                                         ELSE CombinedCell(tr, "plus", c, s.val)
  BY DEF cell, cell_add, CombinedCell, Absorbable, is_absorbable, combine, inplace_plus
<1> QED BY <1>3, <1>4 DEF OpAt, H

\* A cell after a subtraction is not the empty value of an absorber.
LEMMA SubtractCellsFit ==
  ASSUME NEW tr, NEW M, MapFit(tr, M), NEW i, NEW v, NEW H, Subtracted(tr, M, i, v, H)
  PROVE  OpAt("subtract", tr, M, i, v, H)
<1>1. /\ Mapped(H) /\ (tr.joins => \A k \in Int : ~ Seam(H, k))
      /\ \A k \in Int : ValueAt(H, k) =
           IF In(k, i) THEN cell_subtract(tr, ValueAt(M, k), v) ELSE ValueAt(M, k)
  BY DEF Subtracted
<1>2. ASSUME tr.absorbs, NEW k \in Int
      PROVE  ValueAt(H, k) # {}
  <2>1. ValueAt(M, k) # {} /\ NoValue # {}
    BY <1>2, FitValues, ContainersAssumption
  <2>2. cell_subtract(tr, ValueAt(M, k), v) # {}
    BY <1>2, <2>1 DEF cell_subtract, Kept, Absorbable
  <2> QED BY <1>1, <2>1, <2>2
<1>3. MapFit(tr, H)
  BY <1>1, <1>2, FitFromValues
<1>4. \A c : cell("subtract", tr, c, v) = cell_subtract(tr, c, v)
  BY DEF cell
<1> QED BY <1>1, <1>3, <1>4 DEF OpAt

\* subtract of a segment is that of icl::map at each of its keys.
LEMMA SubtractSegmentIs ==
  ASSUME NEW tr, NEW M, MapFit(tr, M), NEW s \in SegmentType
  PROVE  OpAt("subtract", tr, M, s.itv, s.val, SubtractSegment(tr, M, s))
<1> DEFINE H == SubtractSegment(tr, M, s)
<1>0. s.itv \in Interval /\ s.val \in SUBSET Values
  BY DEF SegmentType
<1>m. Mapped(M) /\ (tr.joins => \A k \in Int : ~ Seam(M, k))
  BY DEF MapFit
<1>c. \A c : cell("subtract", tr, c, s.val) = cell_subtract(tr, c, s.val)
  BY DEF cell
<1>1. CASE ~ Proper(s.itv)
  <2>1. H = M
    BY <1>0, <1>1, ProperIs DEF SubtractSegment
  <2>2. \A k \in Int : ~ In(k, s.itv)
    BY <1>0, <1>1, NoKeys
  <2> QED BY <2>1, <2>2 DEF OpAt
<1>2. CASE is_absorbable(tr, s.val)
  <2>1. H = M
    BY <1>2 DEF SubtractSegment
  <2>2. ASSUME NEW k \in Int
        PROVE  cell_subtract(tr, ValueAt(M, k), s.val) = ValueAt(M, k)
    <3>1. ValueAt(M, k) # {} /\ s.val = {} /\ tr.absorbs
      BY <1>2, FitValues DEF is_absorbable
    <3>2. ValueAt(M, k) = NoValue \/ ValueAt(M, k) \in SUBSET Values
      BY <1>m, ValueIs
    <3>3. ValueAt(M, k) \in SUBSET Values => ValueAt(M, k) \ {} = ValueAt(M, k)
      OBVIOUS
    <3> QED BY <3>1, <3>2, <3>3 DEF cell_subtract, Kept, Absorbable
  <2> QED BY <1>c, <2>1, <2>2 DEF OpAt
<1>3. CASE Proper(s.itv) /\ ~ is_absorbable(tr, s.val) /\ overlap(M, s.itv) = {}
  <2>1. H = M
    BY <1>3 DEF SubtractSegment
  <2>2. ASSUME NEW k \in Int, In(k, s.itv)
        PROVE  ValueAt(M, k) = NoValue
    <3>1. \A t \in M : ~ (Lo(t) <= k /\ k <= Hi(t))
      BY <1>m, <1>3, <2>2, OverlapIs, MapEnds, ProperEnds DEF In
    <3> QED BY <3>1, ValueOut
  <2>3. \A k \in Int : In(k, s.itv) => cell_subtract(tr, ValueAt(M, k), s.val) = ValueAt(M, k)
    BY <2>2 DEF cell_subtract
  <2> QED BY <1>c, <2>1, <2>3 DEF OpAt
<1>4. CASE Proper(s.itv) /\ ~ is_absorbable(tr, s.val) /\ overlap(M, s.itv) # {}
  <2>1. Subtracted(tr, M, s.itv, s.val, H)
    BY <1>4, SubtractOverIs DEF Whole
  <2> QED BY <2>1, SubtractCellsFit
<1> QED BY <1>1, <1>2, <1>3, <1>4

-----------------------------------------------------------------------------
(***************************************************************************)
(* Passing the segments of a map along an interval: insertion and          *)
(* symmetric difference visit the segments that i overlaps, with the rest  *)
(* of i that is still to be passed.                                        *)
(***************************************************************************)

\* A key without a value in all of i: no segment is in the way.
LEMMA ClearFromValues ==
  ASSUME NEW M, Mapped(M), NEW i, Proper(i), \A k \in Int : In(k, i) => ValueAt(M, k) = NoValue
  PROVE  \A t \in M : last(i) < Lo(t) \/ Hi(t) < first(i)
<1> SUFFICES ASSUME NEW t \in M, ~ (last(i) < Lo(t)), ~ (Hi(t) < first(i))
             PROVE  FALSE
  OBVIOUS
<1>1. /\ first(i) \in Int /\ last(i) \in Int /\ first(i) <= last(i)
      /\ Lo(t) \in Int /\ Hi(t) \in Int /\ Lo(t) <= Hi(t) /\ t.val # NoValue
  BY ProperEnds, MapEnds
<1> DEFINE k == IF Lo(t) < first(i) THEN first(i) ELSE Lo(t)
<1>2. k \in Int /\ In(k, i) /\ Lo(t) <= k /\ k <= Hi(t)
  BY <1>1 DEF In
<1> HIDE DEF k
<1>3. ValueAt(M, k) = t.val
  BY <1>2, ValueIn
<1> QED BY <1>1, <1>2, <1>3

\* The keys of i before f are passed, the rest begins at f, and U are the
\* segments of M still to come.
Walks(rest, f, M, i, U) ==
  /\ f \in Int /\ first(i) <= f /\ rest \in Interval
  /\ Proper(rest) => first(rest) = f /\ last(rest) = last(i)
  /\ ~ Proper(rest) => last(i) < f
  /\ \A u \in U : u \in M /\ Proper(rest) /\ Lo(u) <= last(i) /\ f <= Hi(u)
  /\ \A t \in M : f <= last(i) /\ Lo(t) <= last(i) /\ first(i) <= Hi(t) => Hi(t) < f \/ t \in U

\* A step from f to g, past the segment cur of M: the gap before it and the keys
\* that it has in common with the rest.
Passed(f, g, M, i, cur, gap, mid) ==
  /\ gap \in Interval /\ mid \in Interval /\ g \in Int
  /\ \A k \in Int : (In(k, i) /\ k < g) <=> ((In(k, i) /\ k < f) \/ In(k, gap) \/ In(k, mid))
  /\ \A k \in Int : In(k, gap) => ValueAt(M, k) = NoValue /\ ~ (k < f)
  /\ \A k \in Int : In(k, mid) => ValueAt(M, k) = cur.val /\ ~ (k < f)

\* Where the step ends.
After(cur, i) == IF Hi(cur) < last(i) THEN Hi(cur) + 1 ELSE last(i) + 1

\* No key is passed at first.
LEMMA WalkBegins ==
  ASSUME NEW M, Mapped(M), NEW i, Proper(i)
  PROVE  Walks(i, first(i), M, i, overlap(M, i))
<1>1. /\ i \in Interval /\ first(i) \in Int /\ last(i) \in Int /\ first(i) <= last(i)
  BY ProperEnds
<1>2. /\ overlap(M, i) \in SUBSET M
      /\ \A s \in M : s \in overlap(M, i) <=> Lo(s) <= last(i) /\ first(i) <= Hi(s)
  BY OverlapIs
<1> QED BY <1>1, <1>2 DEF Walks

\* What is left when all segments are passed has no value.
LEMMA WalkEnds ==
  ASSUME NEW M, Mapped(M), NEW i, Proper(i), NEW rest, NEW f, Walks(rest, f, M, i, {})
  PROVE  /\ rest \in Interval
         /\ \A k \in Int : In(k, rest) <=> In(k, i) /\ ~ (k < f)
         /\ \A k \in Int : In(k, rest) => ValueAt(M, k) = NoValue
<1>i. first(i) \in Int /\ last(i) \in Int /\ first(i) <= last(i)
  BY ProperEnds
<1>0. /\ f \in Int /\ first(i) <= f /\ rest \in Interval
      /\ Proper(rest) => first(rest) = f /\ last(rest) = last(i)
      /\ ~ Proper(rest) => last(i) < f
      /\ \A t \in M : f <= last(i) /\ Lo(t) <= last(i) /\ first(i) <= Hi(t) => Hi(t) < f
  BY DEF Walks
<1>s. \A t \in M : Lo(t) \in Int /\ Hi(t) \in Int /\ Lo(t) <= Hi(t)
  BY MapEnds
<1>1. ASSUME NEW k \in Int
      PROVE  In(k, rest) <=> In(k, i) /\ ~ (k < f)
  <2>1. CASE Proper(rest)
    BY <1>i, <1>0, <2>1 DEF In
  <2>2. CASE ~ Proper(rest)
    <3>1. ~ In(k, rest)
      BY <1>0, <2>2, NoKeys
    <3> QED BY <1>i, <1>0, <2>2, <3>1 DEF In
  <2> QED BY <2>1, <2>2
<1>2. ASSUME NEW k \in Int, In(k, rest)
      PROVE  ValueAt(M, k) = NoValue
  <2>1. f <= k /\ first(i) <= k /\ k <= last(i)
    BY <1>0, <1>1, <1>2 DEF In
  <2>2. \A t \in M : ~ (Lo(t) <= k /\ k <= Hi(t))
    BY <1>i, <1>0, <1>s, <2>1
  <2> QED BY <2>2, ValueOut
<1> QED BY <1>0, <1>1, <1>2

\* One segment is passed.
LEMMA WalkGoesOn ==
  ASSUME NEW M, Mapped(M), NEW i, Proper(i), NEW rest, NEW f, NEW U, Walks(rest, f, M, i, U),
         NEW cur, Foremost(cur, U)
  PROVE  /\ Walks(right_over_of(rest, cur.itv), After(cur, i), M, i, U \ {cur})
         /\ Passed(f, After(cur, i), M, i, cur, left_over_of(rest, cur.itv), common(rest, cur.itv))
<1> DEFINE gap == left_over_of(rest, cur.itv)
           mid == common(rest, cur.itv)
           r == right_over_of(rest, cur.itv)
           g == After(cur, i)
<1>i. /\ i \in Interval /\ first(i) \in Int /\ last(i) \in Int /\ first(i) <= last(i)
  BY ProperEnds
<1>f. cur \in U /\ \A u \in U : u = cur \/ Hi(cur) < Lo(u)
  BY DEF Foremost
<1>1. /\ f \in Int /\ first(i) <= f /\ Proper(rest) /\ first(rest) = f /\ last(rest) = last(i)
      /\ \A u \in U : u \in M /\ Lo(u) <= last(i) /\ f <= Hi(u)
      /\ \A t \in M : f <= last(i) /\ Lo(t) <= last(i) /\ first(i) <= Hi(t) => Hi(t) < f \/ t \in U
      /\ f <= last(i)
  <2>1. Proper(rest) /\ first(rest) = f /\ last(rest) = last(i)
    BY <1>f DEF Walks
  <2>2. first(rest) <= last(rest)
    BY <2>1, ProperEnds
  <2> QED BY <2>1, <2>2 DEF Walks
<1>s. \A t \in M : /\ Lo(t) \in Int /\ Hi(t) \in Int /\ Lo(t) <= Hi(t) /\ Proper(t.itv)
  BY MapEnds
<1>3. /\ cur \in M /\ Proper(cur.itv) /\ Lo(cur) \in Int /\ Hi(cur) \in Int /\ Lo(cur) <= Hi(cur)
      /\ Lo(cur) <= last(i) /\ f <= Hi(cur)
      /\ first(cur.itv) = Lo(cur) /\ last(cur.itv) = Hi(cur)
  BY <1>1, <1>f, <1>s DEF Lo, Hi
<1>4. /\ mid \in Interval
      /\ \A k \in Int : In(k, mid) <=> f <= k /\ k <= last(i) /\ Lo(cur) <= k /\ k <= Hi(cur)
  <2>1. /\ first(mid) = IF first(rest) < Lo(cur) THEN Lo(cur) ELSE first(rest)
        /\ last(mid) = IF last(rest) < Hi(cur) THEN last(rest) ELSE Hi(cur)
        /\ mid \in Interval
    BY <1>1, <1>3, CommonIs
  <2> QED BY <1>i, <1>1, <1>3, <2>1 DEF In
<1>5. /\ gap \in Interval
      /\ \A k \in Int : In(k, gap) <=> f <= k /\ k < Lo(cur)
  <2>1. /\ gap \in Interval
        /\ Proper(gap) <=> first(rest) < Lo(cur)
        /\ Proper(gap) =>
             /\ first(gap) = first(rest)
             /\ last(gap) = IF last(rest) < Lo(cur) THEN last(rest) ELSE Lo(cur) - 1
    BY <1>1, <1>3, LeftOver
  <2> HIDE DEF gap
  <2>2. CASE Proper(gap)
    <3>1. first(gap) = f /\ last(gap) = Lo(cur) - 1
      BY <1>i, <1>1, <1>3, <2>1, <2>2
    <3> QED BY <1>1, <1>3, <2>1, <3>1 DEF In
  <2>3. CASE ~ Proper(gap)
    <3>1. \A k \in Int : ~ In(k, gap)
      BY <2>1, <2>3, NoKeys
    <3>2. Lo(cur) <= f
      BY <1>1, <1>3, <2>1, <2>3
    <3> QED BY <1>1, <1>3, <2>1, <3>1, <3>2
  <2> QED BY <2>2, <2>3
<1>6. /\ r \in Interval
      /\ Proper(r) <=> Hi(cur) < last(i)
      /\ Proper(r) => first(r) = Hi(cur) + 1 /\ last(r) = last(i)
  <2>1. /\ r \in Interval
        /\ Proper(r) <=> Hi(cur) < last(rest)
        /\ Proper(r) =>
             /\ first(r) = IF Hi(cur) < first(rest) THEN first(rest) ELSE Hi(cur) + 1
             /\ last(r) = last(rest)
    BY <1>1, <1>3, RightOver
  <2> HIDE DEF r
  <2>2. ~ (Hi(cur) < first(rest))
    BY <1>1, <1>3
  <2> QED BY <1>1, <2>1, <2>2
<1> HIDE DEF mid, gap, r
<1>7. /\ g \in Int /\ f <= g /\ first(i) <= g
      /\ Hi(cur) < last(i) => g = Hi(cur) + 1
      /\ ~ (Hi(cur) < last(i)) => g = last(i) + 1
  BY <1>i, <1>1, <1>3 DEF After
<1> HIDE DEF g
<1>8. Walks(r, g, M, i, U \ {cur})
  <2>1. /\ Proper(r) => first(r) = g /\ last(r) = last(i)
        /\ ~ Proper(r) => last(i) < g
    BY <1>i, <1>3, <1>6, <1>7
  <2>2. ASSUME NEW u \in U \ {cur}
        PROVE  u \in M /\ Proper(r) /\ Lo(u) <= last(i) /\ g <= Hi(u)
    <3>1. Hi(cur) < Lo(u) /\ u \in M /\ Lo(u) <= last(i)
      BY <1>1, <1>f
    <3>2. Lo(u) \in Int /\ Hi(u) \in Int /\ Lo(u) <= Hi(u)
      BY <1>s, <3>1
    <3>3. Hi(cur) < last(i)
      BY <1>i, <1>3, <3>1, <3>2
    <3>4. g <= Hi(u)
      BY <1>3, <1>7, <3>1, <3>2, <3>3
    <3> QED BY <1>6, <3>1, <3>3, <3>4
  <2>3. ASSUME NEW t \in M, g <= last(i), Lo(t) <= last(i), first(i) <= Hi(t)
        PROVE  Hi(t) < g \/ t \in U \ {cur}
    <3>1. Lo(t) \in Int /\ Hi(t) \in Int /\ Lo(t) <= Hi(t)
      BY <1>s
    <3>2. CASE Hi(t) < f
      BY <1>1, <1>7, <3>1, <3>2
    <3>3. CASE t = cur
      <4>1. Hi(cur) < last(i)
        BY <1>i, <1>3, <1>7, <2>3
      <4> QED BY <1>3, <1>7, <3>3, <4>1
    <3> QED BY <1>1, <2>3, <3>2, <3>3
  <2> QED BY <1>6, <1>7, <2>1, <2>2, <2>3 DEF Walks
<1>9. Passed(f, g, M, i, cur, gap, mid)
  <2>1. ASSUME NEW k \in Int
        PROVE  (In(k, i) /\ k < g) <=> ((In(k, i) /\ k < f) \/ In(k, gap) \/ In(k, mid))
    <3>1. /\ In(k, gap) <=> f <= k /\ k < Lo(cur)
          /\ In(k, mid) <=> f <= k /\ k <= last(i) /\ Lo(cur) <= k /\ k <= Hi(cur)
          /\ In(k, i) <=> first(i) <= k /\ k <= last(i)
      BY <1>4, <1>5 DEF In
    <3>2. CASE Hi(cur) < last(i)
      BY <1>i, <1>1, <1>3, <1>7, <3>1, <3>2
    <3>3. CASE ~ (Hi(cur) < last(i))
      BY <1>i, <1>1, <1>3, <1>7, <3>1, <3>3
    <3> QED BY <3>2, <3>3
  <2>2. ASSUME NEW k \in Int, In(k, gap)
        PROVE  ValueAt(M, k) = NoValue /\ ~ (k < f)
    <3>1. f <= k /\ k < Lo(cur)
      BY <1>5, <2>2
    <3>2. \A t \in M : ~ (Lo(t) <= k /\ k <= Hi(t))
      <4> SUFFICES ASSUME NEW t \in M, Lo(t) <= k, k <= Hi(t)
                   PROVE  FALSE
        OBVIOUS
      <4>1. Lo(t) \in Int /\ Hi(t) \in Int
        BY <1>s
      <4>2. t \in U
        BY <1>i, <1>1, <1>3, <3>1, <4>1
      <4> QED BY <1>3, <1>f, <3>1, <4>1, <4>2
    <3>3. ValueAt(M, k) = NoValue
      BY <3>2, ValueOut
    <3> QED BY <1>1, <3>1, <3>3
  <2>3. ASSUME NEW k \in Int, In(k, mid)
        PROVE  ValueAt(M, k) = cur.val /\ ~ (k < f)
    <3>1. f <= k /\ Lo(cur) <= k /\ k <= Hi(cur)
      BY <1>4, <2>3
    <3>2. ValueAt(M, k) = cur.val
      BY <1>3, <3>1, ValueIn
    <3> QED BY <1>1, <3>1, <3>2
  <2> QED BY <1>4, <1>5, <1>7, <2>1, <2>2, <2>3 DEF Passed
<1> QED BY <1>8, <1>9 DEF mid, gap, r, g

-----------------------------------------------------------------------------
(***************************************************************************)
(* Insertion.                                                              *)
(***************************************************************************)

\* Y is X with the value v at the keys of gap, which had none.
Filled(tr, X, gap, v, Y) ==
  /\ MapFit(tr, Y)
  /\ \A k \in Int : ValueAt(Y, k) = IF In(k, gap) THEN v ELSE ValueAt(X, k)

\* A gap, if it is one, is filled and joined with what lies around it.
LEMMA GapIsFilled ==
  ASSUME NEW tr, NEW X, MapFit(tr, X), NEW gap \in Interval, NEW v \in SUBSET Values,
         ~ is_absorbable(tr, v), \A k \in Int : In(k, gap) => ValueAt(X, k) = NoValue,
         NEW Y, Y = IF is_empty(gap) THEN X
                    ELSE handle_inserted(tr, X \cup {seg(gap, v)}, seg(gap, v))
  PROVE  Filled(tr, X, gap, v, Y)
<1>m. Mapped(X) /\ (tr.joins => \A k \in Int : ~ Seam(X, k))
  BY DEF MapFit
<1>1. CASE ~ Proper(gap)
  <2>1. Y = X
    BY <1>1, ProperIs
  <2>2. \A k \in Int : ~ In(k, gap)
    BY <1>1, NoKeys
  <2> QED BY <2>1, <2>2 DEF Filled
<1>2. CASE Proper(gap)
  <2> DEFINE n == seg(gap, v)
             G == X \cup {n}
  <2>1. Y = handle_inserted(tr, G, n)
    BY <1>2, ProperIs
  <2>2. \A t \in X : last(gap) < Lo(t) \/ Hi(t) < first(gap)
    BY <1>m, <1>2, ClearFromValues
  <2>3. LET g == seg(gap, v)
            J == X \cup {g}
        IN /\ Mapped(J)
           /\ \A k \in Int : ValueAt(J, k) = IF In(k, gap) THEN v ELSE ValueAt(X, k)
           /\ \A k \in Int : Seam(J, k) =>
                \/ Seam(X, k)
                \/ k = first(gap) /\ \E t \in X : Hi(t) + 1 = first(gap)
                \/ k = last(gap) + 1
    BY <1>m, <1>2, <2>2, Added
  <2>4. /\ Mapped(G)
        /\ \A k \in Int : ValueAt(G, k) = IF In(k, gap) THEN v ELSE ValueAt(X, k)
        /\ \A k \in Int : Seam(G, k) => Seam(X, k) \/ k = first(gap) \/ k = last(gap) + 1
    BY <2>3
  <2>5. n \in G /\ Lo(n) = first(gap) /\ Hi(n) = last(gap)
    BY <1>2, SegIs
  <2> HIDE DEF G, n
  <2>6. /\ Mapped(Y) /\ SameValues(Y, G)
        /\ tr.joins => \A k \in Int :
             Seam(Y, k) => Seam(G, k) /\ k # Lo(n) /\ k # Hi(n) + 1
    BY <2>1, <2>4, <2>5, InsertedIs
  <2>7. tr.joins => \A k \in Int : ~ Seam(Y, k)
    BY <1>m, <2>4, <2>5, <2>6
  <2>8. \A k \in Int : ValueAt(Y, k) = IF In(k, gap) THEN v ELSE ValueAt(X, k)
    BY <2>4, <2>6 DEF SameValues
  <2>9. tr.absorbs => \A k \in Int : ValueAt(Y, k) # {}
    <3>1. tr.absorbs => v # {}
      BY DEF is_absorbable
    <3>2. tr.absorbs => \A k \in Int : ValueAt(X, k) # {}
      BY FitValues
    <3> QED BY <2>8, <3>1, <3>2
  <2>10. MapFit(tr, Y)
    BY <2>6, <2>7, <2>9, FitFromValues
  <2> QED BY <2>8, <2>10 DEF Filled
<1> QED BY <1>1, <1>2

\* The loop of an insertion of v at the keys of i, which are passed up to f.
Inserting(tr, M, i, v, x, f, U) ==
  /\ Walks(x.rest, f, M, i, U) /\ MapFit(tr, x.M)
  /\ \A k \in Int : ValueAt(x.M, k) =
       IF In(k, i) /\ k < f THEN cell_insert(tr, ValueAt(M, k), v) ELSE ValueAt(M, k)

\* What a value that is not absorbed does where it is inserted.
LEMMA CellInsert ==
  ASSUME NEW tr, NEW v, ~ is_absorbable(tr, v)
  PROVE  \A c : cell_insert(tr, c, v) = IF c = NoValue THEN v ELSE c
BY DEF cell_insert, Kept, Absorbable, is_absorbable

\* A pass of the loop.
LEMMA InsertGoesOn ==
  ASSUME NEW tr, NEW M, Mapped(M), NEW i, Proper(i), NEW v \in SUBSET Values,
         ~ is_absorbable(tr, v), NEW x, NEW f, NEW U, Inserting(tr, M, i, v, x, f, U),
         NEW cur, Foremost(cur, U)
  PROVE  Inserting(tr, M, i, v, insert_main(tr, v, x, cur), After(cur, i), U \ {cur})
<1> DEFINE gap == left_over_of(x.rest, cur.itv)
           mid == common(x.rest, cur.itv)
           r == right_over_of(x.rest, cur.itv)
           g == After(cur, i)
           y == insert_main(tr, v, x, cur)
<1>1. /\ Walks(x.rest, f, M, i, U) /\ MapFit(tr, x.M)
      /\ \A k \in Int : ValueAt(x.M, k) =
           IF In(k, i) /\ k < f THEN cell_insert(tr, ValueAt(M, k), v) ELSE ValueAt(M, k)
  BY DEF Inserting
<1>2. Walks(r, g, M, i, U \ {cur}) /\ Passed(f, g, M, i, cur, gap, mid)
  BY <1>1, WalkGoesOn
<1>3. /\ y.M = IF is_empty(gap) THEN x.M
               ELSE handle_inserted(tr, x.M \cup {seg(gap, v)}, seg(gap, v))
      /\ y.rest = r
  BY DEF insert_main
<1>c. cur.val # NoValue
  <2>1. cur \in M
    BY <1>1 DEF Walks, Foremost
  <2> QED BY <2>1, MapEnds
<1> HIDE DEF gap, mid, r, g, y
<1>4. /\ gap \in Interval
      /\ \A k \in Int : (In(k, i) /\ k < g) <=> ((In(k, i) /\ k < f) \/ In(k, gap) \/ In(k, mid))
      /\ \A k \in Int : In(k, gap) => ValueAt(M, k) = NoValue /\ ~ (k < f)
      /\ \A k \in Int : In(k, mid) => ValueAt(M, k) = cur.val /\ ~ (k < f)
  BY <1>2 DEF Passed
<1>5. \A k \in Int : In(k, gap) => ValueAt(x.M, k) = NoValue
  BY <1>1, <1>4
<1>6. Filled(tr, x.M, gap, v, y.M)
  BY <1>1, <1>3, <1>4, <1>5, GapIsFilled
<1>7. /\ MapFit(tr, y.M)
      /\ \A k \in Int : ValueAt(y.M, k) = IF In(k, gap) THEN v ELSE ValueAt(x.M, k)
  BY <1>6 DEF Filled
<1>8. ASSUME NEW k \in Int
      PROVE  ValueAt(y.M, k) =
               IF In(k, i) /\ k < g THEN cell_insert(tr, ValueAt(M, k), v) ELSE ValueAt(M, k)
  <2>1. CASE In(k, gap)
    BY <1>4, <1>7, <2>1, CellInsert
  <2>2. CASE In(k, mid) /\ ~ In(k, gap)
    BY <1>c, <1>1, <1>4, <1>7, <2>2, CellInsert
  <2>3. CASE ~ In(k, gap) /\ ~ In(k, mid)
    BY <1>1, <1>4, <1>7, <2>3
  <2> QED BY <2>1, <2>2, <2>3
<1>9. Inserting(tr, M, i, v, y, g, U \ {cur})
  BY <1>2, <1>3, <1>7, <1>8 DEF Inserting
<1> QED BY <1>9 DEF y, g

\* What happens after the loop.
InsertEnd(tr, v, x, l) ==
  IF is_empty(seg(right_over_of(x.rest, l.itv), v).itv) THEN x.M
  ELSE handle_inserted(tr, x.M \cup {seg(right_over_of(x.rest, l.itv), v)},
                       seg(right_over_of(x.rest, l.itv), v))

\* What is left of i after its last segment is filled.
LEMMA InsertEnds ==
  ASSUME NEW tr, NEW M, Mapped(M), NEW i, Proper(i), NEW v \in SUBSET Values,
         ~ is_absorbable(tr, v), NEW x, NEW f, Inserting(tr, M, i, v, x, f, {}),
         NEW l \in M, Lo(l) <= last(i), first(i) <= Hi(l)
  PROVE  OpAt("insert", tr, M, i, v, InsertEnd(tr, v, x, l))
<1> DEFINE rest == x.rest
           e == right_over_of(rest, l.itv)
           H == InsertEnd(tr, v, x, l)
<1>1. /\ Walks(rest, f, M, i, {}) /\ MapFit(tr, x.M)
      /\ \A k \in Int : ValueAt(x.M, k) =
           IF In(k, i) /\ k < f THEN cell_insert(tr, ValueAt(M, k), v) ELSE ValueAt(M, k)
  BY DEF Inserting
<1>2. H = IF is_empty(e) THEN x.M ELSE handle_inserted(tr, x.M \cup {seg(e, v)}, seg(e, v))
  <2>1. seg(e, v).itv = e
    BY DEF seg
  <2> QED BY <2>1 DEF InsertEnd
<1> HIDE DEF H, rest
<1>3. /\ rest \in Interval
      /\ \A k \in Int : In(k, rest) <=> In(k, i) /\ ~ (k < f)
      /\ \A k \in Int : In(k, rest) => ValueAt(M, k) = NoValue
  BY <1>1, WalkEnds
<1>4. e \in Interval /\ \A k \in Int : In(k, e) <=> In(k, rest)
  <2>1. CASE ~ Proper(rest)
    <3>1. is_empty(rest)
      BY <1>3, <2>1, ProperIs
    <3>2. e = rest
      BY <3>1 DEF right_over_of, left_subtract, exclusive_less
    <3> QED BY <1>3, <3>2
  <2>2. CASE Proper(rest)
    <3>1. /\ Proper(l.itv) /\ first(rest) \in Int /\ last(rest) \in Int /\ first(rest) <= last(rest)
          /\ last(l.itv) \in Int
      BY <2>2, MapEnds, ProperEnds
    <3>2. Hi(l) < f /\ first(rest) = f /\ last(rest) = last(i)
      BY <1>1, <2>2, <3>1 DEF Walks
    <3>3. /\ e \in Interval
          /\ Proper(e) <=> last(l.itv) < last(rest)
          /\ Proper(e) =>
               /\ first(e) = IF last(l.itv) < first(rest) THEN first(rest) ELSE last(l.itv) + 1
               /\ last(e) = last(rest)
      BY <2>2, <3>1, RightOver
    <3> HIDE DEF e
    <3>4. first(e) = first(rest) /\ last(e) = last(rest)
      BY <3>1, <3>2, <3>3 DEF Hi
    <3> QED BY <3>3, <3>4 DEF In
  <2> QED BY <2>1, <2>2
<1> HIDE DEF e
<1>5. \A k \in Int : In(k, e) => ValueAt(x.M, k) = NoValue
  BY <1>1, <1>3, <1>4
<1>6. Filled(tr, x.M, e, v, H)
  BY <1>1, <1>2, <1>4, <1>5, GapIsFilled
<1>7. /\ MapFit(tr, H)
      /\ \A k \in Int : ValueAt(H, k) = IF In(k, e) THEN v ELSE ValueAt(x.M, k)
  BY <1>6 DEF Filled
<1>8. ASSUME NEW k \in Int
      PROVE  ValueAt(H, k) =
               IF In(k, i) THEN cell_insert(tr, ValueAt(M, k), v) ELSE ValueAt(M, k)
  <2>1. CASE In(k, e)
    BY <1>3, <1>4, <1>7, <2>1, CellInsert
  <2>2. CASE ~ In(k, e)
    BY <1>1, <1>3, <1>4, <1>7, <2>2
  <2> QED BY <2>1, <2>2
<1>9. \A c : cell("insert", tr, c, v) = cell_insert(tr, c, v)
  BY DEF cell
<1> QED BY <1>7, <1>8, <1>9 DEF OpAt, H

\* Joining to the right keeps to segments that are not empty, whatever the map.
LEMMA JoinRightTyped ==
  ASSUME NEW M \in SUBSET Wholes, NEW s \in Wholes
  PROVE  join_right(M, s) \in SUBSET Wholes
<1> DEFINE N == {n \in M : joinable(s, n)}
           n == CHOOSE q \in N : TRUE
<1>1. CASE N = {}
  BY <1>1 DEF join_right
<1>2. CASE N # {}
  <2>1. n \in M
    BY <1>2
  <2>2. /\ s.itv \in Interval /\ Proper(s.itv) /\ s.val \in SUBSET Values
        /\ n.itv \in Interval /\ Proper(n.itv)
    BY <2>1, WholeIs DEF Wholes, Whole
  <2>3. join_right(M, s) = (M \ {n, s}) \cup {seg(hull_of(s.itv, n.itv), s.val)}
    BY <1>2 DEF join_right
  <2> HIDE DEF n
  <2>4. Proper(hull_of(s.itv, n.itv))
    BY <2>2, HullIs
  <2>5. seg(hull_of(s.itv, n.itv), s.val) \in Wholes
    BY <2>2, <2>4, SegTypedWhole
  <2> QED BY <2>3, <2>5
<1> QED BY <1>1, <1>2

\* handle_inserted does so too.
LEMMA InsertedTyped ==
  ASSUME NEW tr, NEW M \in SUBSET Wholes, NEW s \in M
  PROVE  handle_inserted(tr, M, s) \in SUBSET Wholes
<1> DEFINE L == join_left(M, s)
           r == CHOOSE t \in L : contains(t.itv, s.itv)
<1>1. L \in SUBSET Wholes
  BY JoinLeftTyped
<1>s. \A t \in Wholes : /\ t.itv \in Interval /\ Proper(t.itv) /\ t.val \in SUBSET Values
                        /\ first(t.itv) \in Int /\ last(t.itv) \in Int
                        /\ first(t.itv) <= last(t.itv)
  BY WholeIs, ProperEnds DEF Wholes, Whole
<1>2. \E t \in L : contains(t.itv, s.itv)
  <2> DEFINE P == {p \in M : joinable(p, s)}
             p == CHOOSE q \in P : TRUE
  <2>1. CASE P = {}
    <3>1. s \in L
      BY <2>1 DEF join_left
    <3>2. contains(s.itv, s.itv)
      BY <1>s, ContainsIs
    <3> QED BY <3>1, <3>2
  <2>2. CASE P # {}
    <3> DEFINE u == hull_of(p.itv, s.itv)
    <3>1. p \in M
      BY <2>2
    <3>2. seg(u, s.val) \in L
      BY <2>2 DEF join_left
    <3>3. seg(u, s.val).itv = u
      BY DEF seg
    <3> HIDE DEF p
    <3>4. /\ Proper(u)
          /\ first(u) = IF first(p.itv) < first(s.itv) THEN first(p.itv) ELSE first(s.itv)
          /\ last(u) = IF last(p.itv) < last(s.itv) THEN last(s.itv) ELSE last(p.itv)
      BY <1>s, <3>1, HullIs
    <3> HIDE DEF u
    <3>5. first(u) <= first(s.itv) /\ last(s.itv) <= last(u)
      BY <1>s, <3>1, <3>4
    <3>6. contains(u, s.itv)
      BY <1>s, <3>4, <3>5, ContainsIs
    <3> HIDE DEF L
    <3> QED BY <3>2, <3>3, <3>6
  <2> QED BY <2>1, <2>2
<1>3. r \in L
  BY <1>2
<1>4. handle_inserted(tr, M, s) = IF tr.joins THEN join_right(L, r) ELSE M
  BY DEF handle_inserted, join_both, join_right_of
<1> HIDE DEF L, r
<1>5. join_right(L, r) \in SUBSET Wholes
  BY <1>1, <1>3, JoinRightTyped
<1> QED BY <1>4, <1>5

\* One pass of the loop, whatever the map.
LEMMA MapInsertTyped ==
  ASSUME NEW tr, NEW v \in SUBSET Values,
         NEW x \in [M : SUBSET Wholes, rest : Interval], NEW cur \in Wholes
  PROVE  insert_main(tr, v, x, cur) \in [M : SUBSET Wholes, rest : Interval]
<1> DEFINE gap == left_over_of(x.rest, cur.itv)
           r == right_over_of(x.rest, cur.itv)
           G == x.M \cup {seg(gap, v)}
<1>0. x.M \in SUBSET Wholes /\ x.rest \in Interval /\ cur.itv \in Interval
  BY WholeIs DEF Wholes, Whole
<1>1. gap \in Interval /\ r \in Interval
  BY <1>0, OperationsTyped
<1>2. insert_main(tr, v, x, cur) =
        [M |-> IF is_empty(gap) THEN x.M ELSE handle_inserted(tr, G, seg(gap, v)), rest |-> r]
  BY DEF insert_main
<1> HIDE DEF gap, r
<1>3. ASSUME ~ is_empty(gap)
      PROVE  handle_inserted(tr, G, seg(gap, v)) \in SUBSET Wholes
  <2>1. seg(gap, v) \in Wholes
    BY <1>1, <1>3, ProperIs, SegTypedWhole
  <2>2. G \in SUBSET Wholes /\ seg(gap, v) \in G
    BY <1>0, <2>1
  <2> HIDE DEF G
  <2> QED BY <2>2, InsertedTyped
<1> HIDE DEF G
<1> QED BY <1>0, <1>1, <1>2, <1>3

\* The insertion of sg into M has a loop, over E.
InsertsOver(tr, M, sg, E) ==
  /\ ~ (is_empty(sg.itv) \/ is_absorbable(tr, sg.val))
  /\ E = overlap(M, sg.itv) /\ E # {}

\* What the loop leaves.
InsertDone(tr, M, sg, E) ==
  ForSegments(LAMBDA x, cur : insert_main(tr, sg.val, x, cur), [M |-> M, rest |-> sg.itv], E)

\* The insertion is the loop and what follows it.
LEMMA InsertIsLoop ==
  ASSUME NEW tr, NEW M, NEW sg, NEW E, InsertsOver(tr, M, sg, E)
  PROVE  InsertSegment(tr, M, sg) = InsertEnd(tr, sg.val, InsertDone(tr, M, sg, E), mlast(E))
<1>1. /\ ~ (is_empty(sg.itv) \/ is_absorbable(tr, sg.val))
      /\ E = overlap(M, sg.itv) /\ ~ (E = {})
  BY DEF InsertsOver
<1>2. InsertSegment(tr, M, sg) =
        InsertEnd(tr, sg.val, InsertDone(tr, M, sg, overlap(M, sg.itv)), mlast(overlap(M, sg.itv)))
  BY <1>1, Zenon DEF InsertSegment, InsertEnd, InsertDone
<1> QED BY <1>1, <1>2

\* The states h of the loop of an insertion.
InsertRuns(tr, M, sg, E, q) ==
  \E h \in [0 .. Len(q) -> [M : SUBSET Wholes, rest : Interval]] :
    /\ h[0] = [M |-> M, rest |-> sg.itv]
    /\ InsertDone(tr, M, sg, E) = h[Len(q)]
    /\ \A k \in 1 .. Len(q) : h[k] = insert_main(tr, sg.val, h[k - 1], q[k]) /\ q[k] \in Wholes

\* The loop of an insertion: every pass is insert_main.
LEMMA InsertLoop ==
  ASSUME NEW tr, NEW M, NEW sg, sg.val \in SUBSET Values, NEW E, InsertsOver(tr, M, sg, E),
         M \in SUBSET Wholes, sg.itv \in Interval, NEW q \in Seq(Wholes), q = SegmentsInOrder(E)
  PROVE  InsertRuns(tr, M, sg, E, q)
<1> DEFINE D == [M : SUBSET Wholes, rest : Interval]
           Q == Wholes
           g == [p \in D \X Q |-> insert_main(tr, sg.val, p[1], p[2])]
           iter == CHOOSE it : it = [s \in SUBSET DOMAIN q |->
                     IF s = {} THEN [M |-> M, rest |-> sg.itv] ELSE insert_main(tr, sg.val, it[s \ {Max(s)}], q[Max(s)])]
<1>0. [M |-> M, rest |-> sg.itv] \in D /\ q \in Seq(Q)
  OBVIOUS
<1>1. ASSUME NEW y \in D, NEW t \in Q
      PROVE  insert_main(tr, sg.val, y, t) \in D
  BY <1>0, MapInsertTyped
<1>2. g \in [D \X Q -> D]
  <2>1. \A p \in D \X Q : insert_main(tr, sg.val, p[1], p[2]) \in D
    BY <1>1
  <2> QED BY <2>1, Zenon
<1>3. \A y \in D, t \in Q : g[<<y, t>>] = insert_main(tr, sg.val, y, t)
  <2> HIDE DEF D, Q
  <2> QED OBVIOUS
<1> HIDE DEF g, D, Q
<1>4. PICK it \in [SUBSET DOMAIN q -> D] : Solves(it, D, Q, g, [M |-> M, rest |-> sg.itv], q)
  BY <1>0, <1>2, FoldSolved
<1>5. it = [s \in SUBSET DOMAIN q |->
              IF s = {} THEN [M |-> M, rest |-> sg.itv] ELSE insert_main(tr, sg.val, it[s \ {Max(s)}], q[Max(s)])]
  <2>1. \A s \in SUBSET DOMAIN q :
          it[s] = IF s = {} THEN [M |-> M, rest |-> sg.itv] ELSE insert_main(tr, sg.val, it[s \ {Max(s)}], q[Max(s)])
    <3>1. it[{}] = [M |-> M, rest |-> sg.itv]
      BY <1>4 DEF Solves
    <3>2. ASSUME NEW s \in SUBSET DOMAIN q, s # {}
          PROVE  it[s] = insert_main(tr, sg.val, it[s \ {Max(s)}], q[Max(s)])
      <4>1. /\ it[s \ {Max(s)}] \in D /\ q[Max(s)] \in Q
            /\ it[s] = g[<<it[s \ {Max(s)}], q[Max(s)]>>]
        BY <1>4, <3>2 DEF Solves
      <4> QED BY <1>3, <4>1
    <3> QED BY <3>1, <3>2
  <2>2. it = [s \in SUBSET DOMAIN q |-> it[s]]
    OBVIOUS
  <2> QED BY <2>1, <2>2, Zenon
<1>6. iter = [s \in SUBSET DOMAIN q |->
                IF s = {} THEN [M |-> M, rest |-> sg.itv] ELSE insert_main(tr, sg.val, iter[s \ {Max(s)}], q[Max(s)])]
  BY <1>5, Zenon
<1>7. InsertDone(tr, M, sg, E) = iter[DOMAIN q]
  BY Zenon DEF InsertDone, ForSegments, FoldLeft, MapThenFoldSet
<1> HIDE DEF iter
<1>8. \A s \in SUBSET DOMAIN q :
        iter[s] = IF s = {} THEN [M |-> M, rest |-> sg.itv] ELSE insert_main(tr, sg.val, iter[s \ {Max(s)}], q[Max(s)])
  BY <1>6
<1>9. SolvesWithin(iter, D, g, [M |-> M, rest |-> sg.itv], q)
  <2>1. iter[{}] = [M |-> M, rest |-> sg.itv]
    BY <1>8
  <2>2. ASSUME NEW s \in SUBSET DOMAIN q, s # {}, iter[s \ {Max(s)}] \in D
        PROVE  iter[s] = g[<<iter[s \ {Max(s)}], q[Max(s)]>>]
    <3>1. q[Max(s)] \in Q
      BY <1>4, <2>2 DEF Solves
    <3>2. g[<<iter[s \ {Max(s)}], q[Max(s)]>>] = insert_main(tr, sg.val, iter[s \ {Max(s)}], q[Max(s)])
      BY <1>3, <2>2, <3>1
    <3>3. iter[s] = insert_main(tr, sg.val, iter[s \ {Max(s)}], q[Max(s)])
      BY <1>8, <2>2
    <3> QED BY <3>2, <3>3
  <2> QED BY <2>1, <2>2 DEF SolvesWithin
<1>10. PICK h \in [0 .. Len(q) -> D] : Passes(h, Q, g, [M |-> M, rest |-> sg.itv], q, iter[DOMAIN q])
  BY <1>0, <1>2, <1>9, FoldStates
<1>11. ASSUME NEW k \in 1 .. Len(q)
       PROVE  h[k] = insert_main(tr, sg.val, h[k - 1], q[k]) /\ q[k] \in Q
  <2>1. h[k - 1] \in D
    <3>1. k - 1 \in 0 .. Len(q)
      <4>1. Len(q) \in Nat
        BY <1>0, LenProperties
      <4> QED BY <4>1, PassBefore
    <3>2. \A j \in 0 .. Len(q) : h[j] \in D
      BY <1>10
    <3> QED BY <3>1, <3>2
  <2> QED BY <1>3, <1>10, <2>1 DEF Passes
<1> QED BY <1>7, <1>10, <1>11 DEF D, Q, Passes, InsertRuns

\* What the loop of an insertion comes to.
Inserted(tr, M, i, v, x, U) == \E f : Inserting(tr, M, i, v, x, f, U)

\* The loop of an insertion passes every segment.
LEMMA InsertPasses ==
  ASSUME NEW tr, NEW M, Mapped(M), NEW i, Proper(i), NEW v \in SUBSET Values,
         ~ is_absorbable(tr, v), NEW E, Mapped(E),
         NEW q, q = SegmentsInOrder(E), NEW h, Inserted(tr, M, i, v, h[0], E),
         \A k \in 1 .. Len(q) : h[k] = insert_main(tr, v, h[k - 1], q[k])
  PROVE  Inserted(tr, M, i, v, h[Len(q)], {})
<1> DEFINE n == Len(q)
           U(k) == Rest(q, k)
           R(k) == Inserted(tr, M, i, v, h[k], U(k))
           P == [k \in 0 .. n |-> R(k)]
<1>1. q \in Seq(E) /\ n \in Nat
  BY SegmentsIterated
<1>2. /\ U(0) = E /\ U(n) = {}
      /\ \A k \in 1 .. n : Foremost(q[k], U(k - 1)) /\ U(k) = U(k - 1) \ {q[k]}
  BY SegmentsRest DEF Foremost
<1>6. P \in [0 .. n -> BOOLEAN] /\ \A k \in 0 .. n : P[k] <=> R(k)
  BY DEF Inserted
<1> HIDE DEF P, n, U
<1>7. P[0]
  <2>1. R(0)
    BY <1>2
  <2>2. 0 \in 0 .. n
    BY <1>1
  <2> HIDE DEF R
  <2> QED BY <1>6, <2>1, <2>2
<1>8. ASSUME NEW k \in 1 .. n, P[k - 1]
      PROVE  P[k]
  <2>1. k - 1 \in 0 .. n /\ k \in 0 .. n
    BY <1>1
  <2>2. R(k - 1)
    BY <1>6, <1>8, <2>1
  <2>3. PICK f : Inserting(tr, M, i, v, h[k - 1], f, U(k - 1))
    BY <2>2 DEF Inserted
  <2>4. Foremost(q[k], U(k - 1)) /\ U(k) = U(k - 1) \ {q[k]}
    BY <1>2
  <2>5. Inserting(tr, M, i, v, insert_main(tr, v, h[k - 1], q[k]), After(q[k], i), U(k - 1) \ {q[k]})
    BY <2>3, <2>4, InsertGoesOn
  <2>6. h[k] = insert_main(tr, v, h[k - 1], q[k])
    BY DEF n
  <2>7. R(k)
    BY <2>4, <2>5, <2>6 DEF Inserted
  <2> HIDE DEF R
  <2> QED BY <1>6, <2>1, <2>7
<1>9. R(n)
  <2>1. n \in 0 .. n
    BY <1>1
  <2>2. P[n]
    BY <1>1, <1>6, <1>7, <1>8, <2>1, Upwards
  <2> HIDE DEF R
  <2> QED BY <1>6, <2>1, <2>2
<1> QED BY <1>2, <1>9 DEF n

\* The insertion into a map that i overlaps.
LEMMA InsertOverIs ==
  ASSUME NEW tr, NEW M, MapFit(tr, M), NEW s, Whole(s), ~ is_absorbable(tr, s.val),
         overlap(M, s.itv) # {}
  PROVE  OpAt("insert", tr, M, s.itv, s.val, InsertSegment(tr, M, s))
<1> DEFINE i == s.itv
           v == s.val
           E == overlap(M, i)
           l == mlast(E)
           x == [M |-> M, rest |-> i]
           q == SegmentsInOrder(E)
<1>1. Mapped(M)
  BY DEF MapFit
<1>2. Proper(i) /\ i \in Interval /\ v \in SUBSET Values /\ first(i) \in Int
  BY WholeIs, ProperEnds
<1>3. InsertsOver(tr, M, s, E)
  BY <1>2, ProperEnds DEF InsertsOver
<1>4. /\ E \in SUBSET M /\ Mapped(E)
      /\ \A t \in M : t \in E <=> Lo(t) <= last(i) /\ first(i) <= Hi(t)
  BY <1>1, <1>2, OverlapIs
<1>5. l \in E
  BY <1>4, FirstAndLastSegment
<1>6. Inserting(tr, M, i, v, x, first(i), E)
  <2>1. Walks(i, first(i), M, i, E)
    BY <1>1, <1>2, WalkBegins
  <2>2. \A k \in Int : ~ (In(k, i) /\ k < first(i))
    BY <1>2 DEF In
  <2>3. x.M = M /\ x.rest = i
    OBVIOUS
  <2> HIDE DEF x, E
  <2> QED BY <2>1, <2>2, <2>3 DEF Inserting
<1>7. q \in Seq(Wholes) /\ M \in SUBSET Wholes
  <2>1. \A t \in M : t \in Wholes
    BY <1>1, WholeIs DEF Mapped, Wholes
  <2>2. q \in Seq(E)
    BY <1>4, SegmentsIterated
  <2> HIDE DEF q, E
  <2> QED BY <1>4, <2>1, <2>2
<1>8. PICK h \in [0 .. Len(q) -> [M : SUBSET Wholes, rest : Interval]] :
        /\ h[0] = x
        /\ InsertDone(tr, M, s, E) = h[Len(q)]
        /\ \A k \in 1 .. Len(q) : h[k] = insert_main(tr, v, h[k - 1], q[k]) /\ q[k] \in Wholes
  <2>1. InsertRuns(tr, M, s, E, q)
    <3>1. s.val \in SUBSET Values /\ s.itv \in Interval
      BY <1>2
    <3> HIDE DEF E
    <3> QED BY <1>3, <1>7, <3>1, InsertLoop
  <2> HIDE DEF E
  <2> QED BY <2>1 DEF InsertRuns
<1> HIDE DEF x
<1>9. Inserted(tr, M, i, v, h[Len(q)], {})
  <2>1. Inserted(tr, M, i, v, h[0], E)
    BY <1>6, <1>8 DEF Inserted
  <2>2. \A k \in 1 .. Len(q) : h[k] = insert_main(tr, v, h[k - 1], q[k])
    BY <1>8
  <2> HIDE DEF E, i, v
  <2> QED BY <1>1, <1>2, <1>4, <2>1, <2>2, InsertPasses DEF v
<1>10. PICK f : Inserting(tr, M, i, v, h[Len(q)], f, {})
  BY <1>9 DEF Inserted
<1>11. InsertSegment(tr, M, s) = InsertEnd(tr, v, h[Len(q)], l)
  <2> HIDE DEF E, q
  <2> QED BY <1>3, <1>8, InsertIsLoop
<1> HIDE DEF q
<1>12. l \in M /\ Lo(l) <= last(i) /\ first(i) <= Hi(l)
  BY <1>4, <1>5
<1> HIDE DEF l, E, i, v
<1>13. OpAt("insert", tr, M, i, v, InsertEnd(tr, v, h[Len(q)], l))
  BY <1>1, <1>2, <1>10, <1>12, InsertEnds DEF v
<1> QED BY <1>11, <1>13 DEF i, v

\* insert of a segment is that of icl::map at each of its keys.
LEMMA InsertSegmentIs ==
  ASSUME NEW tr, NEW M, MapFit(tr, M), NEW s \in SegmentType
  PROVE  OpAt("insert", tr, M, s.itv, s.val, InsertSegment(tr, M, s))
<1> DEFINE H == InsertSegment(tr, M, s)
<1>0. s.itv \in Interval /\ s.val \in SUBSET Values
  BY DEF SegmentType
<1>m. Mapped(M)
  BY DEF MapFit
<1>c. \A c : cell("insert", tr, c, s.val) = cell_insert(tr, c, s.val)
  BY DEF cell
<1>1. CASE ~ Proper(s.itv)
  <2>1. H = M
    BY <1>0, <1>1, ProperIs DEF InsertSegment
  <2>2. \A k \in Int : ~ In(k, s.itv)
    BY <1>0, <1>1, NoKeys
  <2> QED BY <2>1, <2>2 DEF OpAt
<1>2. CASE is_absorbable(tr, s.val)
  <2>1. H = M
    BY <1>2 DEF InsertSegment
  <2>2. \A c : cell_insert(tr, c, s.val) = c
    BY <1>2 DEF cell_insert, Kept, Absorbable, is_absorbable
  <2> QED BY <1>c, <2>1, <2>2 DEF OpAt
<1>3. CASE Proper(s.itv) /\ ~ is_absorbable(tr, s.val) /\ overlap(M, s.itv) = {}
  <2>1. H = handle_inserted(tr, M \cup {s}, s)
    BY <1>0, <1>3, ProperIs DEF InsertSegment
  <2>2. seg(s.itv, s.val) = s
    BY DEF seg, SegmentType
  <2>3. ~ is_empty(s.itv)
    BY <1>0, <1>3, ProperIs
  <2>4. ASSUME NEW k \in Int, In(k, s.itv)
        PROVE  ValueAt(M, k) = NoValue
    <3>1. \A t \in M : ~ (Lo(t) <= k /\ k <= Hi(t))
      BY <1>m, <1>3, <2>4, OverlapIs, MapEnds, ProperEnds DEF In
    <3> QED BY <3>1, ValueOut
  <2>5. H = IF is_empty(s.itv) THEN M
            ELSE handle_inserted(tr, M \cup {seg(s.itv, s.val)}, seg(s.itv, s.val))
    BY <2>1, <2>2, <2>3
  <2> HIDE DEF H
  <2>6. Filled(tr, M, s.itv, s.val, H)
    BY <1>0, <1>3, <2>4, <2>5, GapIsFilled
  <2>7. \A k \in Int : In(k, s.itv) => cell_insert(tr, ValueAt(M, k), s.val) = s.val
    BY <1>3, <2>4, CellInsert
  <2>8. /\ MapFit(tr, H)
        /\ \A k \in Int : ValueAt(H, k) = IF In(k, s.itv) THEN s.val ELSE ValueAt(M, k)
    BY <2>6 DEF Filled
  <2>9. OpAt("insert", tr, M, s.itv, s.val, H)
    BY <1>c, <2>7, <2>8 DEF OpAt
  <2> QED BY <2>9 DEF H
<1>4. CASE Proper(s.itv) /\ ~ is_absorbable(tr, s.val) /\ overlap(M, s.itv) # {}
  BY <1>4, InsertOverIs DEF Whole
<1> QED BY <1>1, <1>2, <1>3, <1>4

-----------------------------------------------------------------------------
(***************************************************************************)
(* Erasure.                                                                *)
(***************************************************************************)

\* What of a segment lies before i, and what behind it.
Before(e, i) == Piece(left_over_of(e.itv, i), e.val)
Behind(e, i) == Piece(right_over_of(e.itv, i), e.val)

\* A piece of an interval that may be empty.
LEMMA PieceIs ==
  ASSUME NEW i \in Interval, NEW v
  PROVE  /\ Proper(i) => Piece(i, v) = {seg(i, v)}
         /\ ~ Proper(i) => Piece(i, v) = {}
BY ProperIs DEF Piece

\* Of a segment that i overlaps, what lies before i.
LEMMA BeforeIs ==
  ASSUME NEW e, Whole(e), NEW i, Proper(i), first(i) <= Hi(e)
  PROVE  \/ first(i) <= Lo(e) /\ Before(e, i) = {}
         \/ /\ Lo(e) < first(i)
            /\ \E p : /\ Before(e, i) = {p} /\ Whole(p) /\ p.val = e.val
                      /\ Lo(p) = Lo(e) /\ Hi(p) = first(i) - 1
<1> DEFINE r == left_over_of(e.itv, i)
<1>1. /\ first(i) \in Int /\ Proper(e.itv) /\ Lo(e) \in Int /\ Hi(e) \in Int
      /\ e.val \in SUBSET Values
  BY WholeIs, ProperEnds
<1>2. /\ r \in Interval
      /\ Proper(r) <=> Lo(e) < first(i)
      /\ Proper(r) =>
           /\ first(r) = Lo(e)
           /\ last(r) = IF Hi(e) < first(i) THEN Hi(e) ELSE first(i) - 1
  BY <1>1, LeftOver DEF Lo, Hi
<1>3. Before(e, i) = Piece(r, e.val)
  BY DEF Before
<1> HIDE DEF r
<1>4. CASE Proper(r)
  <2>1. Before(e, i) = {seg(r, e.val)}
    BY <1>2, <1>3, <1>4, PieceIs
  <2>2. /\ Whole(seg(r, e.val)) /\ seg(r, e.val).val = e.val
        /\ Lo(seg(r, e.val)) = first(r) /\ Hi(seg(r, e.val)) = last(r)
    BY <1>1, <1>4, SegIs
  <2>3. first(r) = Lo(e) /\ last(r) = first(i) - 1 /\ Lo(e) < first(i)
    BY <1>1, <1>2, <1>4
  <2> QED BY <2>1, <2>2, <2>3
<1>5. CASE ~ Proper(r)
  <2>1. Before(e, i) = {}
    BY <1>2, <1>3, <1>5, PieceIs
  <2>2. first(i) <= Lo(e)
    BY <1>1, <1>2, <1>5
  <2> QED BY <2>1, <2>2
<1> QED BY <1>4, <1>5

\* Of a segment that i overlaps, what lies behind i.
LEMMA BehindIs ==
  ASSUME NEW e, Whole(e), NEW i, Proper(i), Lo(e) <= last(i)
  PROVE  \/ Hi(e) <= last(i) /\ Behind(e, i) = {}
         \/ /\ last(i) < Hi(e)
            /\ \E p : /\ Behind(e, i) = {p} /\ Whole(p) /\ p.val = e.val
                      /\ Lo(p) = last(i) + 1 /\ Hi(p) = Hi(e)
<1> DEFINE r == right_over_of(e.itv, i)
<1>1. /\ last(i) \in Int /\ Proper(e.itv) /\ Lo(e) \in Int /\ Hi(e) \in Int
      /\ e.val \in SUBSET Values
  BY WholeIs, ProperEnds
<1>2. /\ r \in Interval
      /\ Proper(r) <=> last(i) < Hi(e)
      /\ Proper(r) =>
           /\ first(r) = IF last(i) < Lo(e) THEN Lo(e) ELSE last(i) + 1
           /\ last(r) = Hi(e)
  BY <1>1, RightOver DEF Lo, Hi
<1>3. Behind(e, i) = Piece(r, e.val)
  BY DEF Behind
<1> HIDE DEF r
<1>4. CASE Proper(r)
  <2>1. Behind(e, i) = {seg(r, e.val)}
    BY <1>2, <1>3, <1>4, PieceIs
  <2>2. /\ Whole(seg(r, e.val)) /\ seg(r, e.val).val = e.val
        /\ Lo(seg(r, e.val)) = first(r) /\ Hi(seg(r, e.val)) = last(r)
    BY <1>1, <1>4, SegIs
  <2>3. first(r) = last(i) + 1 /\ last(r) = Hi(e) /\ last(i) < Hi(e)
    BY <1>1, <1>2, <1>4
  <2> QED BY <2>1, <2>2, <2>3
<1>5. CASE ~ Proper(r)
  <2>1. Behind(e, i) = {}
    BY <1>2, <1>3, <1>5, PieceIs
  <2>2. Hi(e) <= last(i)
    BY <1>1, <1>2, <1>5
  <2> QED BY <2>1, <2>2
<1> QED BY <1>4, <1>5

\* The segments R of M that i overlaps are taken out but for N, which is what of
\* them lies outside i; f and l are the first and the last that i overlaps.
Trimmed(M, i, R, N, f, l) ==
  /\ R \in SUBSET M /\ IsFiniteSet(N)
  /\ \A e \in R : Lo(e) <= last(i) /\ first(i) <= Hi(e)
  /\ \A e \in R : (e = f \/ Hi(f) < Lo(e)) /\ (e = l \/ Hi(e) < Lo(l))
  /\ \A n \in N : /\ Whole(n)
                  /\ \/ /\ f \in R /\ n.val = f.val /\ Lo(f) < first(i)
                        /\ Lo(n) = Lo(f) /\ Hi(n) = first(i) - 1
                     \/ /\ l \in R /\ n.val = l.val /\ last(i) < Hi(l)
                        /\ Lo(n) = last(i) + 1 /\ Hi(n) = Hi(l)
  /\ \A m, n \in N : Lo(m) = Lo(n) => m = n
  /\ f \in R /\ Lo(f) < first(i) => \E n \in N : Lo(n) = Lo(f)
  /\ l \in R /\ last(i) < Hi(l) => \E n \in N : Lo(n) = last(i) + 1

\* What is in i and in R is gone.
LEMMA TrimmedIs ==
  ASSUME NEW M, Mapped(M), NEW i, Proper(i), NEW f \in M, first(i) <= Hi(f),
         NEW l \in M, Lo(l) <= last(i), NEW R, NEW N, Trimmed(M, i, R, N, f, l)
  PROVE  LET H == (M \ R) \cup N
         IN /\ Mapped(H)
            /\ \A k \in Int : ValueAt(H, k) =
                 IF In(k, i) /\ \E e \in R : Within(k, e) THEN NoValue ELSE ValueAt(M, k)
            /\ \A k \in Int : Seam(H, k) => Seam(M, k)
<1> DEFINE H == (M \ R) \cup N
<1>i. first(i) \in Int /\ last(i) \in Int /\ first(i) <= last(i)
  BY ProperEnds
<1>s. \A t \in M : Lo(t) \in Int /\ Hi(t) \in Int /\ Lo(t) <= Hi(t)
  BY MapEnds
<1>c. \A s, t \in M : s = t \/ ClearOf(s, t)
  BY DEF Mapped
<1>1. /\ R \in SUBSET M /\ IsFiniteSet(N)
      /\ \A e \in R : Lo(e) <= last(i) /\ first(i) <= Hi(e)
      /\ \A e \in R : (e = f \/ Hi(f) < Lo(e)) /\ (e = l \/ Hi(e) < Lo(l))
      /\ \A n \in N : Whole(n)
      /\ \A m, n \in N : Lo(m) = Lo(n) => m = n
      /\ f \in R /\ Lo(f) < first(i) => \E n \in N : Lo(n) = Lo(f)
      /\ l \in R /\ last(i) < Hi(l) => \E n \in N : Lo(n) = last(i) + 1
  BY DEF Trimmed
<1>2. \A n \in N :
        \/ /\ f \in R /\ n.val = f.val /\ Lo(f) < first(i)
           /\ Lo(n) = Lo(f) /\ Hi(n) = first(i) - 1
        \/ /\ l \in R /\ n.val = l.val /\ last(i) < Hi(l)
           /\ Lo(n) = last(i) + 1 /\ Hi(n) = Hi(l)
  BY DEF Trimmed
<1>n. \A n \in N : Lo(n) \in Int /\ Hi(n) \in Int /\ Lo(n) <= Hi(n)
  BY <1>1, WholeIs
<1>3. ASSUME NEW s \in M \ R, NEW n \in N
      PROVE  ClearOf(s, n)
  <2>1. CASE f \in R /\ Lo(f) < first(i) /\ Lo(n) = Lo(f) /\ Hi(n) = first(i) - 1
    <3>1. ClearOf(s, f)
      BY <1>c, <2>1
    <3> QED BY <1>i, <1>s, <2>1, <3>1 DEF ClearOf
  <2>2. CASE l \in R /\ last(i) < Hi(l) /\ Lo(n) = last(i) + 1 /\ Hi(n) = Hi(l)
    <3>1. ClearOf(s, l)
      BY <1>c, <2>2
    <3> QED BY <1>i, <1>s, <2>2, <3>1 DEF ClearOf
  <2> QED BY <1>2, <2>1, <2>2
<1>4. ASSUME NEW m \in N, NEW n \in N, m # n
      PROVE  ClearOf(m, n)
  <2>1. Lo(m) # Lo(n)
    BY <1>1, <1>4
  <2> QED BY <1>i, <1>2, <2>1 DEF ClearOf
<1>5. Mapped(H)
  BY <1>1, <1>3, <1>4, SegmentsReplaced
<1>6. ASSUME NEW k \in Int
      PROVE  ValueAt(H, k) =
               IF In(k, i) /\ \E e \in R : Within(k, e) THEN NoValue ELSE ValueAt(M, k)
  <2>1. CASE In(k, i) /\ \E e \in R : Within(k, e)
    <3>1. PICK e \in R : Within(k, e)
      BY <2>1
    <3>2. \A t \in M \ R : ~ Within(k, t)
      <4> SUFFICES ASSUME NEW t \in M \ R, Within(k, t)
                   PROVE  FALSE
        OBVIOUS
      <4>1. e \in M /\ ClearOf(t, e)
        BY <1>1, <1>c, <3>1
      <4> QED BY <1>s, <3>1, <4>1 DEF Within, ClearOf
    <3>3. \A n \in N : ~ Within(k, n)
      BY <1>i, <1>2, <1>n, <2>1 DEF Within, In
    <3>4. \A t \in H : ~ Within(k, t)
      BY <3>2, <3>3
    <3> HIDE DEF H
    <3> QED BY <1>5, <2>1, <3>4, ValuesFrom
  <2>2. CASE ~ (In(k, i) /\ \E e \in R : Within(k, e)) /\ ValueAt(M, k) = NoValue
             /\ \A t \in M : ~ Within(k, t)
    <3>1. \A n \in N : ~ Within(k, n)
      <4> SUFFICES ASSUME NEW n \in N, Within(k, n)
                   PROVE  FALSE
        OBVIOUS
      <4>1. Within(k, f) \/ Within(k, l)
        BY <1>i, <1>s, <1>2, <1>n DEF Within
      <4> QED BY <2>2, <4>1
    <3>2. \A t \in H : ~ Within(k, t)
      BY <2>2, <3>1
    <3> HIDE DEF H
    <3> QED BY <1>5, <2>2, <3>2, ValuesFrom
  <2>3. CASE /\ ~ (In(k, i) /\ \E e \in R : Within(k, e))
             /\ \E t \in M : Within(k, t) /\ ValueAt(M, k) = t.val
    <3>1. PICK t \in M : Within(k, t) /\ ValueAt(M, k) = t.val
      BY <2>3
    <3>2. \E u \in H : Within(k, u) /\ u.val = t.val
      <4>1. CASE t \notin R
        BY <3>1, <4>1
      <4>2. CASE t \in R /\ k < first(i)
        <5>1. t = f
          BY <1>s, <1>i, <1>1, <3>1, <4>2 DEF Within
        <5>2. Lo(f) < first(i)
          BY <1>s, <1>i, <3>1, <4>2, <5>1 DEF Within
        <5>3. PICK n \in N : Lo(n) = Lo(f)
          BY <1>1, <4>2, <5>1, <5>2
        <5>4. Hi(n) = first(i) - 1 /\ n.val = f.val
          BY <1>i, <1>2, <5>2, <5>3
        <5>5. Within(k, n)
          BY <1>i, <1>s, <3>1, <4>2, <5>1, <5>3, <5>4 DEF Within
        <5> QED BY <5>1, <5>4, <5>5
      <4>3. CASE t \in R /\ last(i) < k
        <5>1. t = l
          BY <1>s, <1>i, <1>1, <3>1, <4>3 DEF Within
        <5>2. last(i) < Hi(l)
          BY <1>s, <1>i, <3>1, <4>3, <5>1 DEF Within
        <5>3. PICK n \in N : Lo(n) = last(i) + 1
          BY <1>1, <4>3, <5>1, <5>2
        <5>4. Hi(n) = Hi(l) /\ n.val = l.val
          BY <1>i, <1>2, <5>2, <5>3
        <5>5. Within(k, n)
          BY <1>i, <1>s, <3>1, <4>3, <5>1, <5>3, <5>4 DEF Within
        <5> QED BY <5>1, <5>4, <5>5
      <4>4. t \in R => k < first(i) \/ last(i) < k
        BY <1>i, <2>3, <3>1 DEF In
      <4> QED BY <4>1, <4>2, <4>3, <4>4
    <3> HIDE DEF H
    <3> QED BY <1>5, <2>3, <3>1, <3>2, ValuesFrom
  <2> QED BY <2>1, <2>2, <2>3, ValueCases
<1>7. ASSUME NEW k \in Int, Seam(H, k)
      PROVE  Seam(M, k)
  <2>1. PICK a \in H, b \in H : Hi(a) + 1 = k /\ Lo(b) = k /\ a.val = b.val
    BY <1>7 DEF Seam
  <2>2. \E s \in M : Hi(s) + 1 = k /\ s.val = a.val
    <3>1. CASE a \in M \ R
      BY <2>1, <3>1
    <3>2. CASE a \in N /\ l \in R /\ a.val = l.val /\ Hi(a) = Hi(l)
      BY <2>1, <3>2
    <3>3. CASE a \in N /\ f \in R /\ Lo(f) < first(i) /\ Hi(a) = first(i) - 1
      <4>1. k = first(i)
        BY <1>i, <2>1, <3>3
      <4>2. CASE b \in M \ R
        <5>1. ClearOf(b, f)
          BY <1>c, <3>3, <4>2
        <5> QED BY <1>i, <1>s, <2>1, <3>3, <4>1, <4>2, <5>1 DEF ClearOf
      <4>3. CASE b \in N
        BY <1>i, <1>2, <2>1, <4>1, <4>3
      <4> QED BY <4>2, <4>3
    <3> QED BY <1>2, <3>1, <3>2, <3>3
  <2>3. \E t \in M : Lo(t) = k /\ t.val = b.val
    <3>1. CASE b \in M \ R
      BY <2>1, <3>1
    <3>2. CASE b \in N /\ f \in R /\ b.val = f.val /\ Lo(b) = Lo(f)
      BY <2>1, <3>2
    <3>3. CASE b \in N /\ l \in R /\ last(i) < Hi(l) /\ Lo(b) = last(i) + 1
      <4>1. Hi(a) = last(i)
        <5>1. Hi(a) \in Int
          BY <1>s, <1>n
        <5> QED BY <1>i, <2>1, <3>3, <5>1
      <4>2. CASE a \in M \ R
        <5>1. ClearOf(a, l)
          BY <1>c, <3>3, <4>2
        <5> QED BY <1>i, <1>s, <2>1, <3>3, <4>1, <4>2, <5>1 DEF ClearOf
      <4>3. CASE a \in N
        BY <1>i, <1>2, <2>1, <3>3, <4>1, <4>3
      <4> QED BY <4>2, <4>3
    <3> QED BY <1>2, <3>1, <3>2, <3>3
  <2> QED BY <2>1, <2>2, <2>3 DEF Seam
<1> QED BY <1>5, <1>6, <1>7

\* What the first and the last of the segments that i overlaps have outside i.
LEMMA TrimmedBy ==
  ASSUME NEW M, Mapped(M), NEW i, Proper(i), NEW E, E = overlap(M, i), E # {},
         NEW R \in SUBSET E, NEW N,
         \A n : n \in N <=> \/ mbegin(E) \in R /\ n \in Before(mbegin(E), i)
                            \/ mlast(E) \in R /\ n \in Behind(mlast(E), i)
  PROVE  /\ Trimmed(M, i, R, N, mbegin(E), mlast(E))
         /\ mbegin(E) \in M /\ first(i) <= Hi(mbegin(E))
         /\ mlast(E) \in M /\ Lo(mlast(E)) <= last(i)
<1> DEFINE f == mbegin(E)
           l == mlast(E)
<1>i. first(i) \in Int /\ last(i) \in Int /\ first(i) <= last(i)
  BY ProperEnds
<1>1. /\ E \in SUBSET M /\ Mapped(E)
      /\ \A s \in M : s \in E <=> Lo(s) <= last(i) /\ first(i) <= Hi(s)
  BY OverlapIs
<1>2. /\ f \in E /\ l \in E
      /\ \A r \in E : r = f \/ Hi(f) < Lo(r)
      /\ \A r \in E : r = l \/ Hi(r) < Lo(l)
  BY <1>1, FirstAndLastSegment
<1> HIDE DEF f, l
<1>3. /\ f \in M /\ l \in M /\ first(i) <= Hi(f) /\ Lo(f) <= last(i)
      /\ first(i) <= Hi(l) /\ Lo(l) <= last(i)
      /\ Whole(f) /\ Whole(l)
      /\ Lo(f) \in Int /\ Hi(f) \in Int /\ Lo(l) \in Int /\ Hi(l) \in Int
      /\ Lo(f) <= Hi(f) /\ Lo(l) <= Hi(l)
  BY <1>1, <1>2, MapEnds
<1>4. \/ first(i) <= Lo(f) /\ Before(f, i) = {}
      \/ /\ Lo(f) < first(i)
         /\ \E p : /\ Before(f, i) = {p} /\ Whole(p) /\ p.val = f.val
                   /\ Lo(p) = Lo(f) /\ Hi(p) = first(i) - 1
  BY <1>3, BeforeIs
<1>5. \/ Hi(l) <= last(i) /\ Behind(l, i) = {}
      \/ /\ last(i) < Hi(l)
         /\ \E p : /\ Behind(l, i) = {p} /\ Whole(p) /\ p.val = l.val
                   /\ Lo(p) = last(i) + 1 /\ Hi(p) = Hi(l)
  BY <1>3, BehindIs
<1>6. \A n : n \in N <=> \/ f \in R /\ n \in Before(f, i)
                         \/ l \in R /\ n \in Behind(l, i)
  BY DEF f, l
<1>7. ASSUME NEW n \in N
      PROVE  /\ Whole(n)
             /\ \/ /\ f \in R /\ n.val = f.val /\ Lo(f) < first(i)
                   /\ Lo(n) = Lo(f) /\ Hi(n) = first(i) - 1
                \/ /\ l \in R /\ n.val = l.val /\ last(i) < Hi(l)
                   /\ Lo(n) = last(i) + 1 /\ Hi(n) = Hi(l)
  BY <1>4, <1>5, <1>6
<1>8. IsFiniteSet(N)
  <2>1. PICK p, q : Before(f, i) \in {{}, {p}} /\ Behind(l, i) \in {{}, {q}}
    <3>1. \E p : Before(f, i) \in {{}, {p}}
      BY <1>4
    <3>2. \E q : Behind(l, i) \in {{}, {q}}
      BY <1>5
    <3> QED BY <3>1, <3>2
  <2>2. N \in SUBSET {p, q}
    BY <1>6, <2>1
  <2>3. IsFiniteSet({p, q})
    BY FewAreFinite
  <2> QED BY <2>2, <2>3, FS_Subset
<1>9. ASSUME NEW m \in N, NEW n \in N, Lo(m) = Lo(n)
      PROVE  m = n
  <2>1. CASE m \in Before(f, i) /\ n \in Before(f, i)
    BY <1>4, <2>1
  <2>2. CASE m \in Behind(l, i) /\ n \in Behind(l, i)
    BY <1>5, <2>2
  <2>3. ASSUME NEW a \in Before(f, i), NEW b \in Behind(l, i), Lo(a) = Lo(b)
        PROVE  FALSE
    <3>1. Lo(a) = Lo(f) /\ Lo(f) < first(i)
      BY <1>4
    <3>2. Lo(b) = last(i) + 1
      BY <1>5
    <3>3. Lo(f) = last(i) + 1
      BY <2>3, <3>1, <3>2
    <3>4. Lo(f) \in Int
      BY <1>3
    <3> QED BY <1>i, <3>1, <3>3, <3>4
  <2> QED BY <1>6, <1>9, <2>1, <2>2, <2>3
<1>10. /\ f \in R /\ Lo(f) < first(i) => \E n \in N : Lo(n) = Lo(f)
       /\ l \in R /\ last(i) < Hi(l) => \E n \in N : Lo(n) = last(i) + 1
  <2>1. ASSUME f \in R, Lo(f) < first(i)
        PROVE  \E n \in N : Lo(n) = Lo(f)
    <3>1. ~ (first(i) <= Lo(f))
      BY <1>i, <1>3, <2>1
    <3>2. PICK p : Before(f, i) = {p} /\ Lo(p) = Lo(f)
      BY <1>4, <3>1
    <3>3. p \in N
      BY <1>6, <2>1, <3>2
    <3> QED BY <3>2, <3>3
  <2>2. ASSUME l \in R, last(i) < Hi(l)
        PROVE  \E n \in N : Lo(n) = last(i) + 1
    <3>1. ~ (Hi(l) <= last(i))
      BY <1>i, <1>3, <2>2
    <3>2. PICK p : Behind(l, i) = {p} /\ Lo(p) = last(i) + 1
      BY <1>5, <3>1
    <3>3. p \in N
      BY <1>6, <2>2, <3>2
    <3> QED BY <3>2, <3>3
  <2> QED BY <2>1, <2>2
<1>11. /\ R \in SUBSET M
       /\ \A e \in R : Lo(e) <= last(i) /\ first(i) <= Hi(e)
       /\ \A e \in R : (e = f \/ Hi(f) < Lo(e)) /\ (e = l \/ Hi(e) < Lo(l))
  BY <1>1, <1>2
<1>12. Trimmed(M, i, R, N, f, l)
  BY <1>7, <1>8, <1>9, <1>10, <1>11 DEF Trimmed
<1> QED BY <1>3, <1>12 DEF f, l

\* H is M without the keys of i.
ErasedAt(tr, M, i, H) ==
  /\ MapFit(tr, H)
  /\ \A k \in Int : ValueAt(H, k) = IF In(k, i) THEN NoValue ELSE ValueAt(M, k)

\* A map that loses values but for them stays as it was fits its type.
LEMMA FitWithout ==
  ASSUME NEW tr, NEW M, MapFit(tr, M), NEW H, Mapped(H),
         \A k \in Int : ValueAt(H, k) \in {NoValue, ValueAt(M, k)},
         \A k \in Int : Seam(H, k) => Seam(M, k)
  PROVE  MapFit(tr, H)
<1>1. /\ Mapped(M) /\ tr.joins => \A k \in Int : ~ Seam(M, k)
      /\ tr.absorbs => \A k \in Int : ValueAt(M, k) # {}
  BY FitValues
<1>4. tr.joins => \A k \in Int : ~ Seam(M, k)
  BY DEF MapFit
<1>2. NoValue # {}
  BY ContainersAssumption
<1>3. /\ tr.joins => \A k \in Int : ~ Seam(H, k)
      /\ tr.absorbs => \A k \in Int : ValueAt(H, k) # {}
  BY <1>1, <1>2, <1>4
<1> QED BY <1>3, FitFromValues

\* erase of an interval: its keys have no value, and no other key changes.
LEMMA EraseIntervalIs ==
  ASSUME NEW tr, NEW M, MapFit(tr, M), NEW i \in Interval
  PROVE  ErasedAt(tr, M, i, EraseInterval(M, i))
<1> DEFINE E == overlap(M, i)
           f == mbegin(E)
           l == mlast(E)
           N == Before(f, i) \cup Behind(l, i)
           G == EraseInterval(M, i)
<1>m. Mapped(M)
  BY DEF MapFit
<1>1. CASE ~ Proper(i)
  <2>1. G = M
    BY <1>1, ProperIs DEF EraseInterval
  <2>2. \A k \in Int : ~ In(k, i)
    BY <1>1, NoKeys
  <2> QED BY <2>1, <2>2 DEF ErasedAt
<1>2. CASE Proper(i) /\ E = {}
  <2>1. G = M
    BY <1>2 DEF EraseInterval
  <2>2. ASSUME NEW k \in Int, In(k, i)
        PROVE  ValueAt(M, k) = NoValue
    <3>1. \A t \in M : ~ (Lo(t) <= k /\ k <= Hi(t))
      BY <1>m, <1>2, <2>2, OverlapIs, MapEnds, ProperEnds DEF In
    <3> QED BY <3>1, ValueOut
  <2> QED BY <2>1, <2>2 DEF ErasedAt
<1>3. CASE Proper(i) /\ E # {}
  <2> DEFINE H == (M \ E) \cup N
  <2>1. G = H
    <3>1. ~ is_empty(i)
      BY <1>3, ProperIs
    <3>2. G = (M \ E) \cup Piece(left_over_of(f.itv, i), f.val)
                      \cup Piece(right_over_of(l.itv, i), l.val)
      BY <1>3, <3>1 DEF EraseInterval
    <3> QED BY <3>2 DEF Before, Behind
  <2>2. f \in E /\ l \in E /\ \A s \in M : s \in E <=> Lo(s) <= last(i) /\ first(i) <= Hi(s)
    BY <1>m, <1>3, OverlapIs, FirstAndLastSegment
  <2>3. \A n : n \in N <=> \/ mbegin(E) \in E /\ n \in Before(mbegin(E), i)
                           \/ mlast(E) \in E /\ n \in Behind(mlast(E), i)
    BY <2>2
  <2> HIDE DEF N
  <2>4. /\ Trimmed(M, i, E, N, mbegin(E), mlast(E))
        /\ mbegin(E) \in M /\ first(i) <= Hi(mbegin(E))
        /\ mlast(E) \in M /\ Lo(mlast(E)) <= last(i)
    <3>1. E \in SUBSET E
      OBVIOUS
    <3>2. E = overlap(M, i)
      OBVIOUS
    <3> HIDE DEF E
    <3> QED BY <1>m, <1>3, <2>3, <3>1, <3>2, TrimmedBy
  <2> HIDE DEF E, G
  <2>5. /\ Mapped(H)
        /\ \A k \in Int : ValueAt(H, k) =
             IF In(k, i) /\ \E e \in E : Within(k, e) THEN NoValue ELSE ValueAt(M, k)
        /\ \A k \in Int : Seam(H, k) => Seam(M, k)
    BY <1>m, <1>3, <2>4, TrimmedIs
  <2> HIDE DEF H
  <2>6. ASSUME NEW k \in Int
        PROVE  ValueAt(H, k) = IF In(k, i) THEN NoValue ELSE ValueAt(M, k)
    <3>1. ASSUME In(k, i), \A e \in E : ~ Within(k, e)
          PROVE  ValueAt(M, k) = NoValue
      <4>1. \A t \in M : ~ (Lo(t) <= k /\ k <= Hi(t))
        <5> SUFFICES ASSUME NEW t \in M, Lo(t) <= k, k <= Hi(t)
                     PROVE  FALSE
          OBVIOUS
        <5>1. t \in E
          BY <1>m, <1>3, <2>2, <3>1, MapEnds, ProperEnds DEF In
        <5> QED BY <3>1, <5>1 DEF Within
      <4> QED BY <4>1, ValueOut
    <3> QED BY <2>5, <3>1
  <2>7. MapFit(tr, H)
    BY <2>5, <2>6, FitWithout
  <2>8. ErasedAt(tr, M, i, H)
    BY <2>6, <2>7 DEF ErasedAt
  <2> QED BY <2>1, <2>8 DEF G
<1> QED BY <1>1, <1>2, <1>3

\* The pieces that erase of a segment leaves of the segments with its value.
PiecesOf(E, R, i) ==
  UNION {(IF e = mbegin(E) THEN Before(e, i) ELSE {})
           \cup (IF e = mlast(E) THEN Behind(e, i) ELSE {}) : e \in R}

\* They are those of the first and of the last segment.
LEMMA PiecesAre ==
  ASSUME NEW E, NEW R \in SUBSET E, NEW i
  PROVE  \A n : n \in PiecesOf(E, R, i) <=>
                  \/ mbegin(E) \in R /\ n \in Before(mbegin(E), i)
                  \/ mlast(E) \in R /\ n \in Behind(mlast(E), i)
BY DEF PiecesOf

\* The segments with the value of s that it overlaps.
SameIn(M, s) == {e \in overlap(M, s.itv) : e.val = s.val}

\* erase of a segment, in these terms.
LEMMA EraseSegmentIsPieces ==
  ASSUME NEW tr, NEW M, NEW s, ~ is_empty(s.itv), ~ is_absorbable(tr, s.val)
  PROVE  EraseSegment(tr, M, s) =
           (M \ SameIn(M, s)) \cup PiecesOf(overlap(M, s.itv), SameIn(M, s), s.itv)
BY Zenon DEF EraseSegment, PiecesOf, Before, Behind, SameIn

\* erase of a segment is that of icl::map at each of its keys.
LEMMA EraseSegmentIs ==
  ASSUME NEW tr, NEW M, MapFit(tr, M), NEW s \in SegmentType
  PROVE  OpAt("erase", tr, M, s.itv, s.val, EraseSegment(tr, M, s))
<1> DEFINE i == s.itv
           v == s.val
           E == overlap(M, i)
           G == EraseSegment(tr, M, s)
<1>0. i \in Interval /\ v \in SUBSET Values /\ v # NoValue
  BY ContainersAssumption DEF SegmentType
<1>m. Mapped(M)
  BY DEF MapFit
<1>c. \A c : cell("erase", tr, c, v) = cell_erase(tr, c, v)
  BY DEF cell
<1>1. CASE ~ Proper(i)
  <2>1. G = M
    BY <1>0, <1>1, ProperIs DEF EraseSegment
  <2>2. \A k \in Int : ~ In(k, i)
    BY <1>0, <1>1, NoKeys
  <2> QED BY <2>1, <2>2 DEF OpAt
<1>2. CASE is_absorbable(tr, v)
  <2>1. G = M
    BY <1>2 DEF EraseSegment
  <2>2. \A c : cell_erase(tr, c, v) = c
    BY <1>2 DEF cell_erase, Absorbable, is_absorbable
  <2> QED BY <1>c, <2>1, <2>2 DEF OpAt
<1>3. CASE Proper(i) /\ ~ is_absorbable(tr, v)
  <2> DEFINE R == SameIn(M, s)
             N == PiecesOf(E, R, i)
             H == (M \ R) \cup N
  <2>0. \A c : cell_erase(tr, c, v) = IF c = v THEN NoValue ELSE c
    BY <1>3 DEF cell_erase, Absorbable, is_absorbable
  <2>1. G = H
    <3>1. ~ is_empty(i)
      BY <1>0, <1>3, ProperIs
    <3>2. ~ is_empty(s.itv) /\ ~ is_absorbable(tr, s.val)
      BY <1>3, <3>1
    <3> QED BY <3>2, EraseSegmentIsPieces
  <2>2. /\ E \in SUBSET M /\ Mapped(E)
        /\ \A t \in M : t \in E <=> Lo(t) <= last(i) /\ first(i) <= Hi(t)
    BY <1>m, <1>3, OverlapIs
  <2>3. R \in SUBSET E
    BY DEF SameIn
  <2>4. \A n : n \in N <=> \/ mbegin(E) \in R /\ n \in Before(mbegin(E), i)
                           \/ mlast(E) \in R /\ n \in Behind(mlast(E), i)
    BY <2>3, PiecesAre
  <2>r. \A t : t \in R <=> t \in E /\ t.val = v
    BY DEF SameIn
  <2>e. E = overlap(M, i)
    OBVIOUS
  <2> HIDE DEF N, E, G, R, i, v
  <2>5. CASE E = {}
    <3>1. R = {}
      BY <2>5, <2>r
    <3>2. N = {}
      BY <2>4, <3>1
    <3>3. H = M
      BY <3>1, <3>2
    <3>4. ASSUME NEW k \in Int, In(k, i)
          PROVE  ValueAt(M, k) = NoValue
      <4>1. \A t \in M : ~ (Lo(t) <= k /\ k <= Hi(t))
        BY <1>m, <1>3, <2>2, <2>5, <3>4, MapEnds, ProperEnds DEF In
      <4> QED BY <4>1, ValueOut
    <3>5. OpAt("erase", tr, M, i, v, M)
      BY <1>0, <1>c, <2>0, <3>4 DEF OpAt
    <3> QED BY <2>1, <3>3, <3>5 DEF G, i, v
  <2>6. CASE E # {}
    <3>1. /\ Trimmed(M, i, R, N, mbegin(E), mlast(E))
          /\ mbegin(E) \in M /\ first(i) <= Hi(mbegin(E))
          /\ mlast(E) \in M /\ Lo(mlast(E)) <= last(i)
      BY <1>m, <1>3, <2>3, <2>4, <2>6, <2>e, TrimmedBy
    <3>2. /\ Mapped(H)
          /\ \A k \in Int : ValueAt(H, k) =
               IF In(k, i) /\ \E e \in R : Within(k, e) THEN NoValue ELSE ValueAt(M, k)
          /\ \A k \in Int : Seam(H, k) => Seam(M, k)
      BY <1>m, <1>3, <3>1, TrimmedIs
    <3> HIDE DEF H
    <3>3. ASSUME NEW k \in Int
          PROVE  ValueAt(H, k) = IF In(k, i) THEN cell("erase", tr, ValueAt(M, k), v)
                                             ELSE ValueAt(M, k)
      <4>1. ASSUME NEW e \in R, Within(k, e)
            PROVE  ValueAt(M, k) = v
        <5>1. e \in M /\ e.val = v
          BY <2>2, <2>r
        <5> QED BY <1>m, <4>1, <5>1, ValueIn DEF Within
      <4>2. ASSUME In(k, i), ValueAt(M, k) = v
            PROVE  \E e \in R : Within(k, e)
        <5>1. PICK t \in M : Within(k, t) /\ ValueAt(M, k) = t.val
          BY <1>0, <1>m, <4>2, ValueCases
        <5>2. t \in E
          BY <1>m, <1>3, <2>2, <4>2, <5>1, MapEnds, ProperEnds DEF In, Within
        <5>3. t \in R
          BY <2>r, <4>2, <5>1, <5>2
        <5> QED BY <5>1, <5>3
      <4> QED BY <1>c, <2>0, <3>2, <4>1, <4>2
    <3>4. \A k \in Int : ValueAt(H, k) \in {NoValue, ValueAt(M, k)}
      BY <3>2
    <3>5. MapFit(tr, H)
      BY <3>2, <3>4, FitWithout
    <3>6. OpAt("erase", tr, M, i, v, H)
      BY <3>3, <3>5 DEF OpAt
    <3> QED BY <2>1, <3>6 DEF G, i, v
  <2> QED BY <2>5, <2>6
<1> QED BY <1>1, <1>2, <1>3

\* set of a segment: its keys have its value, unless it is absorbed.
LEMMA SetAtIs ==
  ASSUME NEW tr, NEW M, MapFit(tr, M), NEW s \in SegmentType
  PROVE  /\ MapFit(tr, SetAt(tr, M, s))
         /\ ~ is_absorbable(tr, s.val) => OpAt("set", tr, M, s.itv, s.val, SetAt(tr, M, s))
<1> DEFINE X == EraseInterval(M, s.itv)
           H == SetAt(tr, M, s)
<1>0. s.itv \in Interval
  BY DEF SegmentType
<1>1. ErasedAt(tr, M, s.itv, X)
  BY <1>0, EraseIntervalIs
<1>2. MapFit(tr, X) /\ \A k \in Int : ValueAt(X, k) = IF In(k, s.itv) THEN NoValue ELSE ValueAt(M, k)
  BY <1>1 DEF ErasedAt
<1>3. H = InsertSegment(tr, X, s)
  BY DEF SetAt
<1> HIDE DEF H, X
<1>4. OpAt("insert", tr, X, s.itv, s.val, H)
  BY <1>2, <1>3, InsertSegmentIs
<1>5. /\ MapFit(tr, H)
      /\ \A k \in Int : ValueAt(H, k) = IF In(k, s.itv) THEN cell("insert", tr, ValueAt(X, k), s.val)
                                                        ELSE ValueAt(X, k)
  BY <1>4 DEF OpAt
<1>6. ASSUME ~ is_absorbable(tr, s.val)
      PROVE  OpAt("set", tr, M, s.itv, s.val, H)
  <2>1. \A c : cell("insert", tr, c, s.val) = IF c = NoValue THEN s.val ELSE c
    BY <1>6, CellInsert DEF cell
  <2>2. \A c : cell("set", tr, c, s.val) = s.val
    BY <1>6 DEF cell, cell_set, Absorbable, is_absorbable
  <2>3. \A k \in Int : ValueAt(H, k) = IF In(k, s.itv) THEN s.val ELSE ValueAt(M, k)
    BY <1>2, <1>5, <2>1
  <2> QED BY <1>5, <2>2, <2>3 DEF OpAt
<1> QED BY <1>5, <1>6 DEF H

\* absorb_identities leaves a map that fits its type.
LEMMA AbsorbedIs ==
  ASSUME NEW tr, NEW M, MapFit(tr, M)
  PROVE  MapFit(tr, AbsorbIdentities(tr, M))
<1> DEFINE T == {s \in M : s.val # {}}
<1>1. Mapped(T) /\ \A k : Seam(T, k) => Seam(M, k)
  BY MapPart DEF MapFit
<1>2. AbsorbIdentities(tr, M) = IF tr.absorbs THEN M ELSE T
  BY DEF AbsorbIdentities
<1>3. ~ tr.absorbs => MapFit(tr, T)
  BY <1>1 DEF MapFit
<1> QED BY <1>2, <1>3

-----------------------------------------------------------------------------
(***************************************************************************)
(* Loops whose steps touch each key at most once.                          *)
(***************************************************************************)

\* A step from X to Y gives the keys of i, which still have the values of M, the
\* values r.
Touches(tr, M, X, i, r, Y) ==
  MapFit(tr, X) /\ (\A e \in Int : In(e, i) => ValueAt(X, e) = ValueAt(M, e)) =>
    /\ MapFit(tr, Y)
    /\ \A e \in Int : ValueAt(Y, e) = IF In(e, i) THEN r[e] ELSE ValueAt(X, e)

\* What a loop that touches the keys of c[1] .. c[n] makes of M.
TouchedBy(tr, M, c, n, r, Y) ==
  /\ MapFit(tr, Y)
  /\ \A e \in Int : ValueAt(Y, e) = IF \E j \in 1 .. n : In(e, c[j]) THEN r[e] ELSE ValueAt(M, e)

\* No two of the intervals have a key in common.
Disjoint(c, n) == \A j, k \in 1 .. n, e \in Int : In(e, c[j]) /\ In(e, c[k]) => j = k

\* The keys of all the steps have their new values in the end, and no others.
LEMMA TouchedOnce ==
  ASSUME NEW tr, NEW n \in Nat, NEW h, NEW c, NEW r, Disjoint(c, n), MapFit(tr, h[0]),
         \A k \in 1 .. n : Touches(tr, h[0], h[k - 1], c[k], r, h[k])
  PROVE  TouchedBy(tr, h[0], c, n, r, h[n])
<1> DEFINE R(k) == TouchedBy(tr, h[0], c, k, r, h[k])
           P == [k \in 0 .. n |-> R(k)]
<1>6. P \in [0 .. n -> BOOLEAN] /\ \A k \in 0 .. n : P[k] <=> R(k)
  BY DEF TouchedBy
<1> HIDE DEF P
<1>7. P[0]
  <2>1. \A e : ~ \E j \in 1 .. 0 : In(e, c[j])
    OBVIOUS
  <2>2. R(0)
    BY <2>1 DEF TouchedBy
  <2> HIDE DEF R
  <2> QED BY <1>6, <2>2
<1>8. ASSUME NEW k \in 1 .. n, P[k - 1]
      PROVE  P[k]
  <2>1. k - 1 \in 0 .. n /\ k \in 0 .. n
    OBVIOUS
  <2>2. R(k - 1)
    BY <1>6, <1>8, <2>1
  <2>3. \A e \in Int : In(e, c[k]) => ~ \E j \in 1 .. k - 1 : In(e, c[j])
    <3>1. \A j \in 1 .. k - 1 : j \in 1 .. n /\ j # k
      OBVIOUS
    <3> QED BY <3>1 DEF Disjoint
  <2>4. \A e : (\E j \in 1 .. k : In(e, c[j])) <=> (\E j \in 1 .. k - 1 : In(e, c[j])) \/ In(e, c[k])
    <3>1. \A j : j \in 1 .. k <=> j \in 1 .. k - 1 \/ j = k
      OBVIOUS
    <3> QED BY <3>1
  <2>5. Touches(tr, h[0], h[k - 1], c[k], r, h[k])
    OBVIOUS
  <2>6. /\ MapFit(tr, h[k - 1])
        /\ \A e \in Int : ValueAt(h[k - 1], e) =
             IF \E j \in 1 .. k - 1 : In(e, c[j]) THEN r[e] ELSE ValueAt(h[0], e)
    BY <2>2 DEF TouchedBy
  <2>7. /\ MapFit(tr, h[k])
        /\ \A e \in Int : ValueAt(h[k], e) = IF In(e, c[k]) THEN r[e] ELSE ValueAt(h[k - 1], e)
    BY <2>3, <2>5, <2>6 DEF Touches
  <2>8. R(k)
    BY <2>4, <2>6, <2>7 DEF TouchedBy
  <2> HIDE DEF R
  <2> QED BY <1>6, <2>1, <2>8
<1>9. R(n)
  <2>1. n \in 0 .. n
    OBVIOUS
  <2>2. P[n]
    BY <1>6, <1>7, <1>8, <2>1, Upwards
  <2> HIDE DEF R
  <2> QED BY <1>6, <2>1, <2>2
<1> QED BY <1>9

\* The maps that fit a type.
FitMaps(tr) == {M \in SUBSET Wholes : MapFit(tr, M)}

\* They are the maps that fit it.
LEMMA FitMapsAre ==
  ASSUME NEW tr
  PROVE  \A M : M \in FitMaps(tr) <=> MapFit(tr, M)
<1>1. ASSUME NEW M, Mapped(M)
      PROVE  M \in SUBSET Wholes
  BY <1>1, MapEnds DEF Wholes, Whole
<1> QED BY <1>1 DEF FitMaps, MapFit

\* The intervals of the segments of a map in order.
IntervalsOf(q) == [k \in 1 .. Len(q) |-> q[k].itv]

\* They are disjoint, and their keys are those with a value.
LEMMA IntervalsInOrder ==
  ASSUME NEW C, Mapped(C), NEW q, q = SegmentsInOrder(C)
  PROVE  /\ Len(q) \in Nat /\ Disjoint(IntervalsOf(q), Len(q))
         /\ \A k \in 1 .. Len(q) : q[k] \in C /\ IntervalsOf(q)[k] = q[k].itv
         /\ \A e \in Int : (\E j \in 1 .. Len(q) : In(e, IntervalsOf(q)[j])) <=>
                           ValueAt(C, e) # NoValue
<1>1. /\ q \in Seq(C) /\ Len(q) \in Nat
      /\ \A j, k \in 1 .. Len(q) : j < k <=> Hi(q[j]) < Lo(q[k])
      /\ \A s \in C : \E k \in 1 .. Len(q) : q[k] = s
  BY SegmentsIterated
<1>2. \A k \in 1 .. Len(q) : q[k] \in C /\ IntervalsOf(q)[k] = q[k].itv
  BY <1>1 DEF IntervalsOf
<1> HIDE DEF IntervalsOf
<1>3. \A k \in 1 .. Len(q) : Lo(q[k]) \in Int /\ Hi(q[k]) \in Int
  BY <1>2, MapEnds
<1>4. \A k \in 1 .. Len(q) : \A e : In(e, IntervalsOf(q)[k]) <=> Within(e, q[k])
  BY <1>2 DEF In, Within, Lo, Hi
<1>5. Disjoint(IntervalsOf(q), Len(q))
  <2> SUFFICES ASSUME NEW j \in 1 .. Len(q), NEW k \in 1 .. Len(q), NEW e \in Int,
                      Within(e, q[j]), Within(e, q[k])
               PROVE  j = k
    BY <1>4 DEF Disjoint
  <2>1. ~ (j < k) /\ ~ (k < j)
    BY <1>1, <1>3, SMTT(30) DEF Within
  <2> QED BY <1>1, <2>1
<1>6. ASSUME NEW e \in Int
      PROVE  (\E j \in 1 .. Len(q) : In(e, IntervalsOf(q)[j])) <=> ValueAt(C, e) # NoValue
  <2>1. ValueAt(C, e) = NoValue <=> \A s \in C : ~ Within(e, s)
    BY ValueIs DEF Within
  <2> QED BY <1>1, <1>2, <1>4, <2>1
<1> QED BY <1>1, <1>2, <1>5, <1>6

\* What an operation of icl::map makes of a map with each key of C, a part of T.
OpWithin(op, tr, M, C, T, H) ==
  /\ MapFit(tr, H)
  /\ \A e \in Int : ValueAt(H, e) = IF ValueAt(C, e) # NoValue
                                    THEN cell(op, tr, ValueAt(M, e), ValueAt(T, e))
                                    ELSE ValueAt(M, e)

\* A loop of operations with segments, of which no two have a key in common.
LEMMA OpRuns ==
  ASSUME NEW op, NEW tr, NEW M, MapFit(tr, M), NEW T, Mapped(T), NEW C \in SUBSET T,
         NEW q, q = SegmentsInOrder(C), NEW h, h[0] = M,
         \A k \in 1 .. Len(q) : OpAt(op, tr, h[k - 1], q[k].itv, q[k].val, h[k])
  PROVE  OpWithin(op, tr, M, C, T, h[Len(q)])
<1> DEFINE r == [e \in Int |-> cell(op, tr, ValueAt(M, e), ValueAt(T, e))]
           c == IntervalsOf(q)
<1>1. Mapped(C)
  BY MapPart
<1>2. /\ Len(q) \in Nat /\ Disjoint(c, Len(q))
      /\ \A k \in 1 .. Len(q) : q[k] \in C /\ c[k] = q[k].itv
      /\ \A e \in Int : (\E j \in 1 .. Len(q) : In(e, c[j])) <=> ValueAt(C, e) # NoValue
  BY <1>1, IntervalsInOrder
<1>3. \A e \in Int : r[e] = cell(op, tr, ValueAt(M, e), ValueAt(T, e))
  OBVIOUS
<1> HIDE DEF r, c
<1>4. ASSUME NEW k \in 1 .. Len(q)
      PROVE  Touches(tr, h[0], h[k - 1], c[k], r, h[k])
  <2>1. OpAt(op, tr, h[k - 1], q[k].itv, q[k].val, h[k])
    OBVIOUS
  <2>2. /\ MapFit(tr, h[k])
        /\ \A e \in Int : ValueAt(h[k], e) =
             IF In(e, c[k]) THEN cell(op, tr, ValueAt(h[k - 1], e), q[k].val)
                            ELSE ValueAt(h[k - 1], e)
    BY <1>2, <2>1 DEF OpAt
  <2>3. \A e \in Int : In(e, c[k]) => ValueAt(T, e) = q[k].val
    <3>1. q[k] \in T /\ c[k] = q[k].itv
      BY <1>2
    <3> QED BY <3>1, ValueIn DEF In, Lo, Hi
  <2> QED BY <1>3, <2>2, <2>3 DEF Touches
<1>5. TouchedBy(tr, h[0], c, Len(q), r, h[Len(q)])
  BY <1>2, <1>4, TouchedOnce
<1> QED BY <1>2, <1>3, <1>5 DEF TouchedBy, OpWithin

-----------------------------------------------------------------------------
(***************************************************************************)
(* Operations with a second map, segment by segment.                       *)
(***************************************************************************)

\* The operations with a segment keep to maps that fit the type.
LEMMA SegmentOpsFit ==
  ASSUME NEW tr, NEW M \in FitMaps(tr), NEW t \in Wholes
  PROVE  /\ AddSegment(tr, M, t) \in FitMaps(tr) /\ SubtractSegment(tr, M, t) \in FitMaps(tr)
         /\ InsertSegment(tr, M, t) \in FitMaps(tr) /\ EraseSegment(tr, M, t) \in FitMaps(tr)
<1>1. MapFit(tr, M) /\ t \in SegmentType
  BY FitMapsAre DEF Wholes
<1>2. /\ OpAt("add", tr, M, t.itv, t.val, AddSegment(tr, M, t))
      /\ OpAt("subtract", tr, M, t.itv, t.val, SubtractSegment(tr, M, t))
  BY <1>1, AddSegmentIs, SubtractSegmentIs
<1>3. /\ OpAt("insert", tr, M, t.itv, t.val, InsertSegment(tr, M, t))
      /\ OpAt("erase", tr, M, t.itv, t.val, EraseSegment(tr, M, t))
  BY <1>1, InsertSegmentIs, EraseSegmentIs
<1> QED BY <1>2, <1>3, FitMapsAre DEF OpAt

\* The members of a map, listed in order, are segments.
LEMMA ListOfWholes ==
  ASSUME NEW T, Mapped(T), NEW q, q = SegmentsInOrder(T)
  PROVE  q \in Seq(Wholes)
<1>1. q \in Seq(T)
  BY SegmentsIterated
<1>2. \A t \in T : t \in Wholes
  BY MapEnds DEF Wholes, Whole
<1> QED BY <1>1, <1>2

\* The states h of the loop of AddMap.
AddMapRuns(tr, M, T, q) ==
  \E h \in [0 .. Len(q) -> FitMaps(tr)] :
    /\ h[0] = M
    /\ h[Len(q)] = AddMap(tr, M, T)
    /\ \A k \in 1 .. Len(q) : h[k] = AddSegment(tr, h[k - 1], q[k]) /\ q[k] \in Wholes

\* The loop of AddMap: every pass is AddSegment.
LEMMA AddMapLoop ==
  ASSUME NEW tr, NEW M, NEW T,
         M \in FitMaps(tr), NEW q \in Seq(Wholes), q = SegmentsInOrder(T)
  PROVE  AddMapRuns(tr, M, T, q)
<1> DEFINE D == FitMaps(tr)
           Q == Wholes
           g == [p \in D \X Q |-> AddSegment(tr, p[1], p[2])]
           iter == CHOOSE it : it = [s \in SUBSET DOMAIN q |->
                     IF s = {} THEN M ELSE AddSegment(tr, it[s \ {Max(s)}], q[Max(s)])]
<1>0. M \in D /\ q \in Seq(Q)
  OBVIOUS
<1>1. ASSUME NEW y \in D, NEW t \in Q
      PROVE  AddSegment(tr, y, t) \in D
  BY <1>1, SegmentOpsFit
<1>2. g \in [D \X Q -> D]
  <2>1. \A p \in D \X Q : AddSegment(tr, p[1], p[2]) \in D
    BY <1>1
  <2> QED BY <2>1, Zenon
<1>3. \A y \in D, t \in Q : g[<<y, t>>] = AddSegment(tr, y, t)
  <2> HIDE DEF D, Q
  <2> QED OBVIOUS
<1> HIDE DEF g, D, Q
<1>4. PICK it \in [SUBSET DOMAIN q -> D] : Solves(it, D, Q, g, M, q)
  BY <1>0, <1>2, FoldSolved
<1>5. it = [s \in SUBSET DOMAIN q |->
              IF s = {} THEN M ELSE AddSegment(tr, it[s \ {Max(s)}], q[Max(s)])]
  <2>1. \A s \in SUBSET DOMAIN q :
          it[s] = IF s = {} THEN M ELSE AddSegment(tr, it[s \ {Max(s)}], q[Max(s)])
    <3>1. it[{}] = M
      BY <1>4 DEF Solves
    <3>2. ASSUME NEW s \in SUBSET DOMAIN q, s # {}
          PROVE  it[s] = AddSegment(tr, it[s \ {Max(s)}], q[Max(s)])
      <4>1. /\ it[s \ {Max(s)}] \in D /\ q[Max(s)] \in Q
            /\ it[s] = g[<<it[s \ {Max(s)}], q[Max(s)]>>]
        BY <1>4, <3>2 DEF Solves
      <4> QED BY <1>3, <4>1
    <3> QED BY <3>1, <3>2
  <2>2. it = [s \in SUBSET DOMAIN q |-> it[s]]
    OBVIOUS
  <2> QED BY <2>1, <2>2, Zenon
<1>6. iter = [s \in SUBSET DOMAIN q |->
                IF s = {} THEN M ELSE AddSegment(tr, iter[s \ {Max(s)}], q[Max(s)])]
  BY <1>5, Zenon
<1>7. iter[DOMAIN q] = AddMap(tr, M, T)
  BY Zenon DEF AddMap, ForSegments, FoldLeft, MapThenFoldSet
<1> HIDE DEF iter
<1>8. \A s \in SUBSET DOMAIN q :
        iter[s] = IF s = {} THEN M ELSE AddSegment(tr, iter[s \ {Max(s)}], q[Max(s)])
  BY <1>6
<1>9. SolvesWithin(iter, D, g, M, q)
  <2>1. iter[{}] = M
    BY <1>8
  <2>2. ASSUME NEW s \in SUBSET DOMAIN q, s # {}, iter[s \ {Max(s)}] \in D
        PROVE  iter[s] = g[<<iter[s \ {Max(s)}], q[Max(s)]>>]
    <3>1. q[Max(s)] \in Q
      BY <1>4, <2>2 DEF Solves
    <3>2. g[<<iter[s \ {Max(s)}], q[Max(s)]>>] = AddSegment(tr, iter[s \ {Max(s)}], q[Max(s)])
      BY <1>3, <2>2, <3>1
    <3>3. iter[s] = AddSegment(tr, iter[s \ {Max(s)}], q[Max(s)])
      BY <1>8, <2>2
    <3> QED BY <3>2, <3>3
  <2> QED BY <2>1, <2>2 DEF SolvesWithin
<1>10. PICK h \in [0 .. Len(q) -> D] : Passes(h, Q, g, M, q, iter[DOMAIN q])
  BY <1>0, <1>2, <1>9, FoldStates
<1>11. ASSUME NEW k \in 1 .. Len(q)
       PROVE  h[k] = AddSegment(tr, h[k - 1], q[k]) /\ q[k] \in Q
  <2>1. h[k - 1] \in D
    <3>1. k - 1 \in 0 .. Len(q)
      <4>1. Len(q) \in Nat
        BY <1>0, LenProperties
      <4> QED BY <4>1, PassBefore
    <3>2. \A j \in 0 .. Len(q) : h[j] \in D
      BY <1>10
    <3> QED BY <3>1, <3>2
  <2> QED BY <1>3, <1>10, <2>1 DEF Passes
<1> QED BY <1>7, <1>10, <1>11 DEF D, Q, Passes, AddMapRuns


\* AddMap does with each key of T what icl::map does.
LEMMA AddMapIs ==
  ASSUME NEW tr, NEW M, MapFit(tr, M), NEW T, Mapped(T)
  PROVE  OpWithin("add", tr, M, T, T, AddMap(tr, M, T))
<1> DEFINE q == SegmentsInOrder(T)
<1>1. q \in Seq(Wholes) /\ M \in FitMaps(tr)
  BY ListOfWholes, FitMapsAre
<1>2. AddMapRuns(tr, M, T, q)
  BY <1>1, AddMapLoop
<1>3. PICK h \in [0 .. Len(q) -> FitMaps(tr)] :
        /\ h[0] = M
        /\ AddMap(tr, M, T) = h[Len(q)]
        /\ \A k \in 1 .. Len(q) : h[k] = AddSegment(tr, h[k - 1], q[k]) /\ q[k] \in Wholes
  BY <1>2 DEF AddMapRuns
<1>4. ASSUME NEW k \in 1 .. Len(q)
      PROVE  OpAt("add", tr, h[k - 1], q[k].itv, q[k].val, h[k])
  <2>1. h[k - 1] \in FitMaps(tr)
    <3>1. Len(q) \in Nat
      BY <1>1, LenProperties
    <3>2. k - 1 \in 0 .. Len(q)
      BY <3>1, PassBefore
    <3> QED BY <3>2
  <2>2. MapFit(tr, h[k - 1]) /\ q[k] \in SegmentType
    BY <1>3, <2>1, FitMapsAre DEF Wholes
  <2>3. OpAt("add", tr, h[k - 1], q[k].itv, q[k].val, AddSegment(tr, h[k - 1], q[k]))
    BY <2>2, AddSegmentIs
  <2> QED BY <1>3, <2>3
<1>5. T \in SUBSET T /\ q = SegmentsInOrder(T)
  OBVIOUS
<1> HIDE DEF q
<1>6. OpWithin("add", tr, M, T, T, h[Len(q)])
  BY <1>3, <1>4, <1>5, OpRuns
<1> QED BY <1>3, <1>6

\* The states h of the loop of SubtractMap.
SubtractMapRuns(tr, M, T, q) ==
  \E h \in [0 .. Len(q) -> FitMaps(tr)] :
    /\ h[0] = M
    /\ h[Len(q)] = SubtractMap(tr, M, T)
    /\ \A k \in 1 .. Len(q) : h[k] = SubtractSegment(tr, h[k - 1], q[k]) /\ q[k] \in Wholes

\* The loop of SubtractMap: every pass is SubtractSegment.
LEMMA SubtractMapLoop ==
  ASSUME NEW tr, NEW M, NEW T,
         M \in FitMaps(tr), NEW q \in Seq(Wholes), q = SegmentsInOrder(T)
  PROVE  SubtractMapRuns(tr, M, T, q)
<1> DEFINE D == FitMaps(tr)
           Q == Wholes
           g == [p \in D \X Q |-> SubtractSegment(tr, p[1], p[2])]
           iter == CHOOSE it : it = [s \in SUBSET DOMAIN q |->
                     IF s = {} THEN M ELSE SubtractSegment(tr, it[s \ {Max(s)}], q[Max(s)])]
<1>0. M \in D /\ q \in Seq(Q)
  OBVIOUS
<1>1. ASSUME NEW y \in D, NEW t \in Q
      PROVE  SubtractSegment(tr, y, t) \in D
  BY <1>1, SegmentOpsFit
<1>2. g \in [D \X Q -> D]
  <2>1. \A p \in D \X Q : SubtractSegment(tr, p[1], p[2]) \in D
    BY <1>1
  <2> QED BY <2>1, Zenon
<1>3. \A y \in D, t \in Q : g[<<y, t>>] = SubtractSegment(tr, y, t)
  <2> HIDE DEF D, Q
  <2> QED OBVIOUS
<1> HIDE DEF g, D, Q
<1>4. PICK it \in [SUBSET DOMAIN q -> D] : Solves(it, D, Q, g, M, q)
  BY <1>0, <1>2, FoldSolved
<1>5. it = [s \in SUBSET DOMAIN q |->
              IF s = {} THEN M ELSE SubtractSegment(tr, it[s \ {Max(s)}], q[Max(s)])]
  <2>1. \A s \in SUBSET DOMAIN q :
          it[s] = IF s = {} THEN M ELSE SubtractSegment(tr, it[s \ {Max(s)}], q[Max(s)])
    <3>1. it[{}] = M
      BY <1>4 DEF Solves
    <3>2. ASSUME NEW s \in SUBSET DOMAIN q, s # {}
          PROVE  it[s] = SubtractSegment(tr, it[s \ {Max(s)}], q[Max(s)])
      <4>1. /\ it[s \ {Max(s)}] \in D /\ q[Max(s)] \in Q
            /\ it[s] = g[<<it[s \ {Max(s)}], q[Max(s)]>>]
        BY <1>4, <3>2 DEF Solves
      <4> QED BY <1>3, <4>1
    <3> QED BY <3>1, <3>2
  <2>2. it = [s \in SUBSET DOMAIN q |-> it[s]]
    OBVIOUS
  <2> QED BY <2>1, <2>2, Zenon
<1>6. iter = [s \in SUBSET DOMAIN q |->
                IF s = {} THEN M ELSE SubtractSegment(tr, iter[s \ {Max(s)}], q[Max(s)])]
  BY <1>5, Zenon
<1>7. iter[DOMAIN q] = SubtractMap(tr, M, T)
  BY Zenon DEF SubtractMap, ForSegments, FoldLeft, MapThenFoldSet
<1> HIDE DEF iter
<1>8. \A s \in SUBSET DOMAIN q :
        iter[s] = IF s = {} THEN M ELSE SubtractSegment(tr, iter[s \ {Max(s)}], q[Max(s)])
  BY <1>6
<1>9. SolvesWithin(iter, D, g, M, q)
  <2>1. iter[{}] = M
    BY <1>8
  <2>2. ASSUME NEW s \in SUBSET DOMAIN q, s # {}, iter[s \ {Max(s)}] \in D
        PROVE  iter[s] = g[<<iter[s \ {Max(s)}], q[Max(s)]>>]
    <3>1. q[Max(s)] \in Q
      BY <1>4, <2>2 DEF Solves
    <3>2. g[<<iter[s \ {Max(s)}], q[Max(s)]>>] = SubtractSegment(tr, iter[s \ {Max(s)}], q[Max(s)])
      BY <1>3, <2>2, <3>1
    <3>3. iter[s] = SubtractSegment(tr, iter[s \ {Max(s)}], q[Max(s)])
      BY <1>8, <2>2
    <3> QED BY <3>2, <3>3
  <2> QED BY <2>1, <2>2 DEF SolvesWithin
<1>10. PICK h \in [0 .. Len(q) -> D] : Passes(h, Q, g, M, q, iter[DOMAIN q])
  BY <1>0, <1>2, <1>9, FoldStates
<1>11. ASSUME NEW k \in 1 .. Len(q)
       PROVE  h[k] = SubtractSegment(tr, h[k - 1], q[k]) /\ q[k] \in Q
  <2>1. h[k - 1] \in D
    <3>1. k - 1 \in 0 .. Len(q)
      <4>1. Len(q) \in Nat
        BY <1>0, LenProperties
      <4> QED BY <4>1, PassBefore
    <3>2. \A j \in 0 .. Len(q) : h[j] \in D
      BY <1>10
    <3> QED BY <3>1, <3>2
  <2> QED BY <1>3, <1>10, <2>1 DEF Passes
<1> QED BY <1>7, <1>10, <1>11 DEF D, Q, Passes, SubtractMapRuns


\* SubtractMap does with each key of T what icl::map does.
LEMMA SubtractMapIs ==
  ASSUME NEW tr, NEW M, MapFit(tr, M), NEW T, Mapped(T)
  PROVE  OpWithin("subtract", tr, M, T, T, SubtractMap(tr, M, T))
<1> DEFINE q == SegmentsInOrder(T)
<1>1. q \in Seq(Wholes) /\ M \in FitMaps(tr)
  BY ListOfWholes, FitMapsAre
<1>2. SubtractMapRuns(tr, M, T, q)
  BY <1>1, SubtractMapLoop
<1>3. PICK h \in [0 .. Len(q) -> FitMaps(tr)] :
        /\ h[0] = M
        /\ SubtractMap(tr, M, T) = h[Len(q)]
        /\ \A k \in 1 .. Len(q) : h[k] = SubtractSegment(tr, h[k - 1], q[k]) /\ q[k] \in Wholes
  BY <1>2 DEF SubtractMapRuns
<1>4. ASSUME NEW k \in 1 .. Len(q)
      PROVE  OpAt("subtract", tr, h[k - 1], q[k].itv, q[k].val, h[k])
  <2>1. h[k - 1] \in FitMaps(tr)
    <3>1. Len(q) \in Nat
      BY <1>1, LenProperties
    <3>2. k - 1 \in 0 .. Len(q)
      BY <3>1, PassBefore
    <3> QED BY <3>2
  <2>2. MapFit(tr, h[k - 1]) /\ q[k] \in SegmentType
    BY <1>3, <2>1, FitMapsAre DEF Wholes
  <2>3. OpAt("subtract", tr, h[k - 1], q[k].itv, q[k].val, SubtractSegment(tr, h[k - 1], q[k]))
    BY <2>2, SubtractSegmentIs
  <2> QED BY <1>3, <2>3
<1>5. T \in SUBSET T /\ q = SegmentsInOrder(T)
  OBVIOUS
<1> HIDE DEF q
<1>6. OpWithin("subtract", tr, M, T, T, h[Len(q)])
  BY <1>3, <1>4, <1>5, OpRuns
<1> QED BY <1>3, <1>6

\* The states h of the loop of InsertMap.
InsertMapRuns(tr, M, T, q) ==
  \E h \in [0 .. Len(q) -> FitMaps(tr)] :
    /\ h[0] = M
    /\ h[Len(q)] = InsertMap(tr, M, T)
    /\ \A k \in 1 .. Len(q) : h[k] = InsertSegment(tr, h[k - 1], q[k]) /\ q[k] \in Wholes

\* The loop of InsertMap: every pass is InsertSegment.
LEMMA InsertMapLoop ==
  ASSUME NEW tr, NEW M, NEW T,
         M \in FitMaps(tr), NEW q \in Seq(Wholes), q = SegmentsInOrder(T)
  PROVE  InsertMapRuns(tr, M, T, q)
<1> DEFINE D == FitMaps(tr)
           Q == Wholes
           g == [p \in D \X Q |-> InsertSegment(tr, p[1], p[2])]
           iter == CHOOSE it : it = [s \in SUBSET DOMAIN q |->
                     IF s = {} THEN M ELSE InsertSegment(tr, it[s \ {Max(s)}], q[Max(s)])]
<1>0. M \in D /\ q \in Seq(Q)
  OBVIOUS
<1>1. ASSUME NEW y \in D, NEW t \in Q
      PROVE  InsertSegment(tr, y, t) \in D
  BY <1>1, SegmentOpsFit
<1>2. g \in [D \X Q -> D]
  <2>1. \A p \in D \X Q : InsertSegment(tr, p[1], p[2]) \in D
    BY <1>1
  <2> QED BY <2>1, Zenon
<1>3. \A y \in D, t \in Q : g[<<y, t>>] = InsertSegment(tr, y, t)
  <2> HIDE DEF D, Q
  <2> QED OBVIOUS
<1> HIDE DEF g, D, Q
<1>4. PICK it \in [SUBSET DOMAIN q -> D] : Solves(it, D, Q, g, M, q)
  BY <1>0, <1>2, FoldSolved
<1>5. it = [s \in SUBSET DOMAIN q |->
              IF s = {} THEN M ELSE InsertSegment(tr, it[s \ {Max(s)}], q[Max(s)])]
  <2>1. \A s \in SUBSET DOMAIN q :
          it[s] = IF s = {} THEN M ELSE InsertSegment(tr, it[s \ {Max(s)}], q[Max(s)])
    <3>1. it[{}] = M
      BY <1>4 DEF Solves
    <3>2. ASSUME NEW s \in SUBSET DOMAIN q, s # {}
          PROVE  it[s] = InsertSegment(tr, it[s \ {Max(s)}], q[Max(s)])
      <4>1. /\ it[s \ {Max(s)}] \in D /\ q[Max(s)] \in Q
            /\ it[s] = g[<<it[s \ {Max(s)}], q[Max(s)]>>]
        BY <1>4, <3>2 DEF Solves
      <4> QED BY <1>3, <4>1
    <3> QED BY <3>1, <3>2
  <2>2. it = [s \in SUBSET DOMAIN q |-> it[s]]
    OBVIOUS
  <2> QED BY <2>1, <2>2, Zenon
<1>6. iter = [s \in SUBSET DOMAIN q |->
                IF s = {} THEN M ELSE InsertSegment(tr, iter[s \ {Max(s)}], q[Max(s)])]
  BY <1>5, Zenon
<1>7. iter[DOMAIN q] = InsertMap(tr, M, T)
  BY Zenon DEF InsertMap, ForSegments, FoldLeft, MapThenFoldSet
<1> HIDE DEF iter
<1>8. \A s \in SUBSET DOMAIN q :
        iter[s] = IF s = {} THEN M ELSE InsertSegment(tr, iter[s \ {Max(s)}], q[Max(s)])
  BY <1>6
<1>9. SolvesWithin(iter, D, g, M, q)
  <2>1. iter[{}] = M
    BY <1>8
  <2>2. ASSUME NEW s \in SUBSET DOMAIN q, s # {}, iter[s \ {Max(s)}] \in D
        PROVE  iter[s] = g[<<iter[s \ {Max(s)}], q[Max(s)]>>]
    <3>1. q[Max(s)] \in Q
      BY <1>4, <2>2 DEF Solves
    <3>2. g[<<iter[s \ {Max(s)}], q[Max(s)]>>] = InsertSegment(tr, iter[s \ {Max(s)}], q[Max(s)])
      BY <1>3, <2>2, <3>1
    <3>3. iter[s] = InsertSegment(tr, iter[s \ {Max(s)}], q[Max(s)])
      BY <1>8, <2>2
    <3> QED BY <3>2, <3>3
  <2> QED BY <2>1, <2>2 DEF SolvesWithin
<1>10. PICK h \in [0 .. Len(q) -> D] : Passes(h, Q, g, M, q, iter[DOMAIN q])
  BY <1>0, <1>2, <1>9, FoldStates
<1>11. ASSUME NEW k \in 1 .. Len(q)
       PROVE  h[k] = InsertSegment(tr, h[k - 1], q[k]) /\ q[k] \in Q
  <2>1. h[k - 1] \in D
    <3>1. k - 1 \in 0 .. Len(q)
      <4>1. Len(q) \in Nat
        BY <1>0, LenProperties
      <4> QED BY <4>1, PassBefore
    <3>2. \A j \in 0 .. Len(q) : h[j] \in D
      BY <1>10
    <3> QED BY <3>1, <3>2
  <2> QED BY <1>3, <1>10, <2>1 DEF Passes
<1> QED BY <1>7, <1>10, <1>11 DEF D, Q, Passes, InsertMapRuns


\* InsertMap does with each key of T what icl::map does.
LEMMA InsertMapIs ==
  ASSUME NEW tr, NEW M, MapFit(tr, M), NEW T, Mapped(T)
  PROVE  OpWithin("insert", tr, M, T, T, InsertMap(tr, M, T))
<1> DEFINE q == SegmentsInOrder(T)
<1>1. q \in Seq(Wholes) /\ M \in FitMaps(tr)
  BY ListOfWholes, FitMapsAre
<1>2. InsertMapRuns(tr, M, T, q)
  BY <1>1, InsertMapLoop
<1>3. PICK h \in [0 .. Len(q) -> FitMaps(tr)] :
        /\ h[0] = M
        /\ InsertMap(tr, M, T) = h[Len(q)]
        /\ \A k \in 1 .. Len(q) : h[k] = InsertSegment(tr, h[k - 1], q[k]) /\ q[k] \in Wholes
  BY <1>2 DEF InsertMapRuns
<1>4. ASSUME NEW k \in 1 .. Len(q)
      PROVE  OpAt("insert", tr, h[k - 1], q[k].itv, q[k].val, h[k])
  <2>1. h[k - 1] \in FitMaps(tr)
    <3>1. Len(q) \in Nat
      BY <1>1, LenProperties
    <3>2. k - 1 \in 0 .. Len(q)
      BY <3>1, PassBefore
    <3> QED BY <3>2
  <2>2. MapFit(tr, h[k - 1]) /\ q[k] \in SegmentType
    BY <1>3, <2>1, FitMapsAre DEF Wholes
  <2>3. OpAt("insert", tr, h[k - 1], q[k].itv, q[k].val, InsertSegment(tr, h[k - 1], q[k]))
    BY <2>2, InsertSegmentIs
  <2> QED BY <1>3, <2>3
<1>5. T \in SUBSET T /\ q = SegmentsInOrder(T)
  OBVIOUS
<1> HIDE DEF q
<1>6. OpWithin("insert", tr, M, T, T, h[Len(q)])
  BY <1>3, <1>4, <1>5, OpRuns
<1> QED BY <1>3, <1>6

\* The states h of the loop of EraseMap.
EraseMapRuns(tr, M, T, q) ==
  \E h \in [0 .. Len(q) -> FitMaps(tr)] :
    /\ h[0] = M
    /\ h[Len(q)] = EraseMap(tr, M, T)
    /\ \A k \in 1 .. Len(q) : h[k] = EraseSegment(tr, h[k - 1], q[k]) /\ q[k] \in Wholes

\* The loop of EraseMap: every pass is EraseSegment.
LEMMA EraseMapLoop ==
  ASSUME NEW tr, NEW M, NEW T,
         M \in FitMaps(tr), NEW q \in Seq(Wholes), q = SegmentsInOrder(map_common_range(T, M))
  PROVE  EraseMapRuns(tr, M, T, q)
<1> DEFINE D == FitMaps(tr)
           Q == Wholes
           g == [p \in D \X Q |-> EraseSegment(tr, p[1], p[2])]
           iter == CHOOSE it : it = [s \in SUBSET DOMAIN q |->
                     IF s = {} THEN M ELSE EraseSegment(tr, it[s \ {Max(s)}], q[Max(s)])]
<1>0. M \in D /\ q \in Seq(Q)
  OBVIOUS
<1>1. ASSUME NEW y \in D, NEW t \in Q
      PROVE  EraseSegment(tr, y, t) \in D
  BY <1>1, SegmentOpsFit
<1>2. g \in [D \X Q -> D]
  <2>1. \A p \in D \X Q : EraseSegment(tr, p[1], p[2]) \in D
    BY <1>1
  <2> QED BY <2>1, Zenon
<1>3. \A y \in D, t \in Q : g[<<y, t>>] = EraseSegment(tr, y, t)
  <2> HIDE DEF D, Q
  <2> QED OBVIOUS
<1> HIDE DEF g, D, Q
<1>4. PICK it \in [SUBSET DOMAIN q -> D] : Solves(it, D, Q, g, M, q)
  BY <1>0, <1>2, FoldSolved
<1>5. it = [s \in SUBSET DOMAIN q |->
              IF s = {} THEN M ELSE EraseSegment(tr, it[s \ {Max(s)}], q[Max(s)])]
  <2>1. \A s \in SUBSET DOMAIN q :
          it[s] = IF s = {} THEN M ELSE EraseSegment(tr, it[s \ {Max(s)}], q[Max(s)])
    <3>1. it[{}] = M
      BY <1>4 DEF Solves
    <3>2. ASSUME NEW s \in SUBSET DOMAIN q, s # {}
          PROVE  it[s] = EraseSegment(tr, it[s \ {Max(s)}], q[Max(s)])
      <4>1. /\ it[s \ {Max(s)}] \in D /\ q[Max(s)] \in Q
            /\ it[s] = g[<<it[s \ {Max(s)}], q[Max(s)]>>]
        BY <1>4, <3>2 DEF Solves
      <4> QED BY <1>3, <4>1
    <3> QED BY <3>1, <3>2
  <2>2. it = [s \in SUBSET DOMAIN q |-> it[s]]
    OBVIOUS
  <2> QED BY <2>1, <2>2, Zenon
<1>6. iter = [s \in SUBSET DOMAIN q |->
                IF s = {} THEN M ELSE EraseSegment(tr, iter[s \ {Max(s)}], q[Max(s)])]
  BY <1>5, Zenon
<1>7. iter[DOMAIN q] = EraseMap(tr, M, T)
  BY Zenon DEF EraseMap, ForSegments, FoldLeft, MapThenFoldSet
<1> HIDE DEF iter
<1>8. \A s \in SUBSET DOMAIN q :
        iter[s] = IF s = {} THEN M ELSE EraseSegment(tr, iter[s \ {Max(s)}], q[Max(s)])
  BY <1>6
<1>9. SolvesWithin(iter, D, g, M, q)
  <2>1. iter[{}] = M
    BY <1>8
  <2>2. ASSUME NEW s \in SUBSET DOMAIN q, s # {}, iter[s \ {Max(s)}] \in D
        PROVE  iter[s] = g[<<iter[s \ {Max(s)}], q[Max(s)]>>]
    <3>1. q[Max(s)] \in Q
      BY <1>4, <2>2 DEF Solves
    <3>2. g[<<iter[s \ {Max(s)}], q[Max(s)]>>] = EraseSegment(tr, iter[s \ {Max(s)}], q[Max(s)])
      BY <1>3, <2>2, <3>1
    <3>3. iter[s] = EraseSegment(tr, iter[s \ {Max(s)}], q[Max(s)])
      BY <1>8, <2>2
    <3> QED BY <3>2, <3>3
  <2> QED BY <2>1, <2>2 DEF SolvesWithin
<1>10. PICK h \in [0 .. Len(q) -> D] : Passes(h, Q, g, M, q, iter[DOMAIN q])
  BY <1>0, <1>2, <1>9, FoldStates
<1>11. ASSUME NEW k \in 1 .. Len(q)
       PROVE  h[k] = EraseSegment(tr, h[k - 1], q[k]) /\ q[k] \in Q
  <2>1. h[k - 1] \in D
    <3>1. k - 1 \in 0 .. Len(q)
      <4>1. Len(q) \in Nat
        BY <1>0, LenProperties
      <4> QED BY <4>1, PassBefore
    <3>2. \A j \in 0 .. Len(q) : h[j] \in D
      BY <1>10
    <3> QED BY <3>1, <3>2
  <2> QED BY <1>3, <1>10, <2>1 DEF Passes
<1> QED BY <1>7, <1>10, <1>11 DEF D, Q, Passes, EraseMapRuns

\* The keys of a map: a set of intervals, one for each segment.
LEMMA KeysOfIs ==
  ASSUME NEW M, Mapped(M)
  PROVE  /\ Laid(KeysOf(M)) /\ Cardinality(KeysOf(M)) = Cardinality(M)
         /\ \A k \in Int : Has(KeysOf(M), k) <=> ValueAt(M, k) # NoValue
         /\ \A t \in M : t.itv \in KeysOf(M)
<1> DEFINE f == [s \in M |-> s.itv]
           I == KeysOf(M)
<1>0. IsFiniteSet(M)
  BY DEF Mapped
<1>1. \A i : i \in I <=> \E s \in M : i = s.itv
  BY DEF KeysOf
<1>2. \A s, t \in M : s.itv = t.itv => s = t
  <2> SUFFICES ASSUME NEW s \in M, NEW t \in M, s.itv = t.itv
               PROVE  s = t
    OBVIOUS
  <2>1. Lo(s) = Lo(t) /\ Hi(s) = Hi(t)
    BY DEF Lo, Hi
  <2>2. s = t \/ ClearOf(s, t)
    BY DEF Mapped
  <2>3. Lo(s) \in Int /\ Hi(s) \in Int /\ Lo(s) <= Hi(s)
    BY MapEnds
  <2> QED BY <2>1, <2>2, <2>3 DEF ClearOf
<1> HIDE DEF I
<1>3. f \in [M -> I] /\ \A s \in M : f[s] = s.itv
  BY <1>1
<1> HIDE DEF f
<1>4. f \in Surjection(M, I)
  BY <1>1, <1>3 DEF Surjection
<1>5. f \in Injection(M, I)
  BY <1>2, <1>3 DEF Injection, IsInjective
<1>6. IsFiniteSet(I) /\ Cardinality(I) = Cardinality(M)
  <2>1. /\ IsFiniteSet(I)
        /\ Cardinality(I) <= Cardinality(M)
        /\ Cardinality(I) = Cardinality(M) <=> f \in Injection(M, I)
    BY <1>0, <1>4, FS_Surjection
  <2> QED BY <1>5, <2>1
<1>7. Laid(I)
  <2>1. \A i \in I : Proper(i)
    BY <1>1, MapEnds
  <2>2. ASSUME NEW i \in I, NEW j \in I
        PROVE  i = j \/ last(i) < first(j) \/ last(j) < first(i)
    <3>1. PICK s \in M : i = s.itv
      BY <1>1
    <3>2. PICK t \in M : j = t.itv
      BY <1>1
    <3>3. s = t \/ ClearOf(s, t)
      BY DEF Mapped
    <3> QED BY <3>1, <3>2, <3>3 DEF ClearOf, Lo, Hi
  <2> QED BY <1>6, <2>1, <2>2 DEF Laid
<1>8. ASSUME NEW k \in Int
      PROVE  Has(I, k) <=> ValueAt(M, k) # NoValue
  <2>1. ValueAt(M, k) = NoValue <=> \A s \in M : ~ (Lo(s) <= k /\ k <= Hi(s))
    BY ValueIs
  <2> QED BY <1>1, <2>1 DEF Has, In, Lo, Hi
<1> QED BY <1>1, <1>6, <1>7, <1>8 DEF I

\* map_common_range: every segment of T that shares a key with M is in it.
LEMMA MapCommonRangeIs ==
  ASSUME NEW T, Mapped(T), NEW M, Mapped(M)
  PROVE  /\ map_common_range(T, M) \in SUBSET T /\ Mapped(map_common_range(T, M))
         /\ \A e \in Int : ValueAt(M, e) # NoValue =>
              ValueAt(map_common_range(T, M), e) = ValueAt(T, e)
         /\ \A e \in Int : ValueAt(map_common_range(T, M), e) \in {NoValue, ValueAt(T, e)}
         /\ \A t \in T, e \in Int : Within(e, t) /\ ValueAt(M, e) # NoValue =>
              t \in map_common_range(T, M)
<1> DEFINE C == map_common_range(T, M)
<1>1. C \in SUBSET T /\ \A t \in T : t \in C <=> t.itv \in common_range(KeysOf(T), KeysOf(M))
  BY DEF map_common_range
<1> HIDE DEF C
<1>2. Mapped(C)
  BY <1>1, MapPart
<1>3. /\ Laid(KeysOf(T)) /\ Laid(KeysOf(M))
      /\ \A k \in Int : Has(KeysOf(M), k) <=> ValueAt(M, k) # NoValue
      /\ \A t \in T : t.itv \in KeysOf(T)
  BY KeysOfIs
<1>4. \A i \in KeysOf(T), k \in Int : In(k, i) /\ Has(KeysOf(M), k) => i \in common_range(KeysOf(T), KeysOf(M))
  BY <1>3, CommonRangeIs
<1>5. ASSUME NEW t \in T, NEW e \in Int, Within(e, t), ValueAt(M, e) # NoValue
      PROVE  t \in C
  <2>1. In(e, t.itv)
    BY <1>5 DEF In, Within, Lo, Hi
  <2> QED BY <1>1, <1>3, <1>4, <1>5, <2>1
<1>6. ASSUME NEW e \in Int
      PROVE  /\ ValueAt(M, e) # NoValue => ValueAt(C, e) = ValueAt(T, e)
             /\ ValueAt(C, e) \in {NoValue, ValueAt(T, e)}
  <2>1. CASE ValueAt(T, e) = NoValue /\ \A s \in T : ~ Within(e, s)
    <3>1. \A s \in C : ~ (Lo(s) <= e /\ e <= Hi(s))
      BY <1>1, <2>1 DEF Within
    <3>2. ValueAt(C, e) = NoValue
      BY <3>1, ValueOut
    <3> QED BY <2>1, <3>2
  <2>2. ASSUME NEW s \in T, Within(e, s), ValueAt(T, e) = s.val, \A t \in T : Within(e, t) => t = s
        PROVE  /\ ValueAt(M, e) # NoValue => ValueAt(C, e) = ValueAt(T, e)
               /\ ValueAt(C, e) \in {NoValue, ValueAt(T, e)}
    <3>1. CASE s \in C
      <4>1. ValueAt(C, e) = s.val
        BY <1>2, <2>2, <3>1, ValueIn DEF Within
      <4> QED BY <2>2, <4>1
    <3>2. CASE s \notin C
      <4>1. \A t \in C : ~ (Lo(t) <= e /\ e <= Hi(t))
        BY <1>1, <2>2, <3>2 DEF Within
      <4>2. ValueAt(C, e) = NoValue
        BY <4>1, ValueOut
      <4>3. ValueAt(M, e) = NoValue
        BY <1>5, <2>2, <3>2
      <4> QED BY <4>2, <4>3
    <3> QED BY <3>1, <3>2
  <2>3. \/ ValueAt(T, e) = NoValue /\ \A s \in T : ~ Within(e, s)
        \/ \E s \in T : /\ Within(e, s) /\ ValueAt(T, e) = s.val
                        /\ \A t \in T : Within(e, t) => t = s
    BY ValueCases
  <2> QED BY <2>1, <2>2, <2>3
<1> QED BY <1>1, <1>2, <1>5, <1>6 DEF C

\* What an operation of icl::map makes of a map with each key of T.
OpWith(op, tr, M, T, H) ==
  /\ MapFit(tr, H)
  /\ \A e \in Int : ValueAt(H, e) = IF ValueAt(T, e) # NoValue
                                    THEN cell(op, tr, ValueAt(M, e), ValueAt(T, e))
                                    ELSE ValueAt(M, e)

\* EraseMap passes what is within reach of M only; what is not has no key of M.
LEMMA EraseMapIs ==
  ASSUME NEW tr, NEW M, MapFit(tr, M), NEW T, Mapped(T)
  PROVE  OpWith("erase", tr, M, T, EraseMap(tr, M, T))
<1> DEFINE C == map_common_range(T, M)
           q == SegmentsInOrder(C)
<1>m. Mapped(M)
  BY DEF MapFit
<1>0. /\ C \in SUBSET T /\ Mapped(C)
      /\ \A e \in Int : ValueAt(M, e) # NoValue => ValueAt(C, e) = ValueAt(T, e)
      /\ \A e \in Int : ValueAt(C, e) \in {NoValue, ValueAt(T, e)}
  BY <1>m, MapCommonRangeIs
<1> HIDE DEF C
<1>1. q \in Seq(Wholes) /\ M \in FitMaps(tr)
  BY <1>0, ListOfWholes, FitMapsAre
<1>2. EraseMapRuns(tr, M, T, q)
  BY <1>1, EraseMapLoop DEF C
<1>3. PICK h \in [0 .. Len(q) -> FitMaps(tr)] :
        /\ h[0] = M
        /\ EraseMap(tr, M, T) = h[Len(q)]
        /\ \A k \in 1 .. Len(q) : h[k] = EraseSegment(tr, h[k - 1], q[k]) /\ q[k] \in Wholes
  BY <1>2 DEF EraseMapRuns
<1>4. ASSUME NEW k \in 1 .. Len(q)
      PROVE  OpAt("erase", tr, h[k - 1], q[k].itv, q[k].val, h[k])
  <2>1. h[k - 1] \in FitMaps(tr)
    <3>1. Len(q) \in Nat
      BY <1>1, LenProperties
    <3>2. k - 1 \in 0 .. Len(q)
      BY <3>1, PassBefore
    <3> QED BY <3>2
  <2>2. MapFit(tr, h[k - 1]) /\ q[k] \in SegmentType
    BY <1>3, <2>1, FitMapsAre DEF Wholes
  <2>3. OpAt("erase", tr, h[k - 1], q[k].itv, q[k].val, EraseSegment(tr, h[k - 1], q[k]))
    BY <2>2, EraseSegmentIs
  <2> QED BY <1>3, <2>3
<1> HIDE DEF q
<1>5. q = SegmentsInOrder(C)
  BY DEF q
<1>6. OpWithin("erase", tr, M, C, T, h[Len(q)])
  BY <1>0, <1>3, <1>4, <1>5, OpRuns
<1> DEFINE H == EraseMap(tr, M, T)
<1>7. /\ MapFit(tr, H)
      /\ \A e \in Int : ValueAt(H, e) = IF ValueAt(C, e) # NoValue
                                        THEN cell("erase", tr, ValueAt(M, e), ValueAt(T, e))
                                        ELSE ValueAt(M, e)
  BY <1>3, <1>6 DEF OpWithin
<1> HIDE DEF H
<1>8. \A v : v # NoValue => cell("erase", tr, NoValue, v) = NoValue
  BY DEF cell, cell_erase
<1>9. \A e \in Int : ValueAt(H, e) = IF ValueAt(T, e) # NoValue
                                     THEN cell("erase", tr, ValueAt(M, e), ValueAt(T, e))
                                     ELSE ValueAt(M, e)
  BY <1>0, <1>7, <1>8
<1>10. OpWith("erase", tr, M, T, H)
  BY <1>7, <1>9 DEF OpWith
<1> QED BY <1>10 DEF H

\* The other three pass every segment of T.
LEMMA MapOpsAre ==
  ASSUME NEW tr, NEW M, MapFit(tr, M), NEW T, Mapped(T)
  PROVE  /\ OpWith("add", tr, M, T, AddMap(tr, M, T))
         /\ OpWith("subtract", tr, M, T, SubtractMap(tr, M, T))
         /\ OpWith("insert", tr, M, T, InsertMap(tr, M, T))
<1>1. \A op, H : OpWithin(op, tr, M, T, T, H) => OpWith(op, tr, M, T, H)
  BY DEF OpWithin, OpWith
<1> QED BY <1>1, AddMapIs, SubtractMapIs, InsertMapIs

-----------------------------------------------------------------------------
(***************************************************************************)
(* Operations with a set of keys.                                          *)
(***************************************************************************)

\* The intervals of a set in order are disjoint, and their keys are its elements.
LEMMA KeysInOrder ==
  ASSUME NEW C, Laid(C), NEW q, q = InOrder(C)
  PROVE  /\ q \in Seq(Interval) /\ Len(q) \in Nat /\ Disjoint(q, Len(q))
         /\ \A k \in 1 .. Len(q) : q[k] \in C /\ Proper(q[k])
         /\ \A e \in Int : (\E j \in 1 .. Len(q) : In(e, q[j])) <=> Has(C, e)
<1>1. /\ q \in Seq(C) /\ Len(q) \in Nat
      /\ \A j, k \in 1 .. Len(q) : j < k => last(q[j]) < first(q[k])
      /\ \A s \in C : \E k \in 1 .. Len(q) : q[k] = s
      /\ \A k \in 1 .. Len(q) :
              /\ q[k] \in C /\ Proper(q[k]) /\ q[k] \in Interval
              /\ first(q[k]) \in Int /\ last(q[k]) \in Int
              /\ first(q[k]) <= last(q[k])
  BY ListedIs
<1>2. q \in Seq(Interval)
  <2>1. C \in SUBSET Interval
    BY LaidEnds
  <2> QED BY <1>1, <2>1
<1>3. Disjoint(q, Len(q))
  <2> SUFFICES ASSUME NEW j \in 1 .. Len(q), NEW k \in 1 .. Len(q), NEW e \in Int,
                      In(e, q[j]), In(e, q[k])
               PROVE  j = k
    BY DEF Disjoint
  <2>1. /\ first(q[j]) <= e /\ e <= last(q[j]) /\ first(q[k]) <= e /\ e <= last(q[k])
        /\ first(q[j]) \in Int /\ last(q[j]) \in Int /\ first(q[k]) \in Int /\ last(q[k]) \in Int
    BY <1>1 DEF In
  <2>2. ~ (last(q[j]) < first(q[k])) /\ ~ (last(q[k]) < first(q[j]))
    BY <2>1
  <2>3. ~ (j < k) /\ ~ (k < j)
    BY <1>1, <2>2
  <2>4. j \in Int /\ k \in Int
    BY <1>1
  <2> QED BY <2>3, <2>4
<1> QED BY <1>1, <1>2, <1>3 DEF Has

\* erase of an interval keeps to maps that fit the type.
LEMMA EraseIntervalFits ==
  ASSUME NEW tr, NEW M \in FitMaps(tr), NEW i \in Interval
  PROVE  EraseInterval(M, i) \in FitMaps(tr)
BY FitMapsAre, EraseIntervalIs DEF ErasedAt

\* The states h of the loop of erase with a set of keys.
EraseKeysRuns(tr, M, K, q) ==
  \E h \in [0 .. Len(q) -> FitMaps(tr)] :
    /\ h[0] = M
    /\ h[Len(q)] = EraseKeys(M, K)
    /\ \A k \in 1 .. Len(q) : h[k] = EraseInterval(h[k - 1], q[k]) /\ q[k] \in Interval

\* The loop of erase with a set of keys.
LEMMA EraseKeysLoop ==
  ASSUME NEW tr, NEW M, NEW K,
         M \in FitMaps(tr), NEW q \in Seq(Interval), q = InOrder(common_range(K, KeysOf(M)))
  PROVE  EraseKeysRuns(tr, M, K, q)
<1> DEFINE D == FitMaps(tr)
           Q == Interval
           g == [p \in D \X Q |-> EraseInterval(p[1], p[2])]
           iter == CHOOSE it : it = [s \in SUBSET DOMAIN q |->
                     IF s = {} THEN M ELSE EraseInterval(it[s \ {Max(s)}], q[Max(s)])]
<1>0. M \in D /\ q \in Seq(Q)
  OBVIOUS
<1>1. ASSUME NEW y \in D, NEW t \in Q
      PROVE  EraseInterval(y, t) \in D
  BY <1>1, EraseIntervalFits
<1>2. g \in [D \X Q -> D]
  <2>1. \A p \in D \X Q : EraseInterval(p[1], p[2]) \in D
    BY <1>1
  <2> QED BY <2>1, Zenon
<1>3. \A y \in D, t \in Q : g[<<y, t>>] = EraseInterval(y, t)
  <2> HIDE DEF D, Q
  <2> QED OBVIOUS
<1> HIDE DEF g, D, Q
<1>4. PICK it \in [SUBSET DOMAIN q -> D] : Solves(it, D, Q, g, M, q)
  BY <1>0, <1>2, FoldSolved
<1>5. it = [s \in SUBSET DOMAIN q |->
              IF s = {} THEN M ELSE EraseInterval(it[s \ {Max(s)}], q[Max(s)])]
  <2>1. \A s \in SUBSET DOMAIN q :
          it[s] = IF s = {} THEN M ELSE EraseInterval(it[s \ {Max(s)}], q[Max(s)])
    <3>1. it[{}] = M
      BY <1>4 DEF Solves
    <3>2. ASSUME NEW s \in SUBSET DOMAIN q, s # {}
          PROVE  it[s] = EraseInterval(it[s \ {Max(s)}], q[Max(s)])
      <4>1. /\ it[s \ {Max(s)}] \in D /\ q[Max(s)] \in Q
            /\ it[s] = g[<<it[s \ {Max(s)}], q[Max(s)]>>]
        BY <1>4, <3>2 DEF Solves
      <4> QED BY <1>3, <4>1
    <3> QED BY <3>1, <3>2
  <2>2. it = [s \in SUBSET DOMAIN q |-> it[s]]
    OBVIOUS
  <2> QED BY <2>1, <2>2, Zenon
<1>6. iter = [s \in SUBSET DOMAIN q |->
                IF s = {} THEN M ELSE EraseInterval(iter[s \ {Max(s)}], q[Max(s)])]
  BY <1>5, Zenon
<1>7. iter[DOMAIN q] = EraseKeys(M, K)
  BY Zenon DEF EraseKeys, ForAll, FoldLeft, MapThenFoldSet
<1> HIDE DEF iter
<1>8. \A s \in SUBSET DOMAIN q :
        iter[s] = IF s = {} THEN M ELSE EraseInterval(iter[s \ {Max(s)}], q[Max(s)])
  BY <1>6
<1>9. SolvesWithin(iter, D, g, M, q)
  <2>1. iter[{}] = M
    BY <1>8
  <2>2. ASSUME NEW s \in SUBSET DOMAIN q, s # {}, iter[s \ {Max(s)}] \in D
        PROVE  iter[s] = g[<<iter[s \ {Max(s)}], q[Max(s)]>>]
    <3>1. q[Max(s)] \in Q
      BY <1>4, <2>2 DEF Solves
    <3>2. g[<<iter[s \ {Max(s)}], q[Max(s)]>>] = EraseInterval(iter[s \ {Max(s)}], q[Max(s)])
      BY <1>3, <2>2, <3>1
    <3>3. iter[s] = EraseInterval(iter[s \ {Max(s)}], q[Max(s)])
      BY <1>8, <2>2
    <3> QED BY <3>2, <3>3
  <2> QED BY <2>1, <2>2 DEF SolvesWithin
<1>10. PICK h \in [0 .. Len(q) -> D] : Passes(h, Q, g, M, q, iter[DOMAIN q])
  BY <1>0, <1>2, <1>9, FoldStates
<1>11. ASSUME NEW k \in 1 .. Len(q)
       PROVE  h[k] = EraseInterval(h[k - 1], q[k]) /\ q[k] \in Q
  <2>1. h[k - 1] \in D
    <3>1. k - 1 \in 0 .. Len(q)
      <4>1. Len(q) \in Nat
        BY <1>0, LenProperties
      <4> QED BY <4>1, PassBefore
    <3>2. \A j \in 0 .. Len(q) : h[j] \in D
      BY <1>10
    <3> QED BY <3>1, <3>2
  <2> QED BY <1>3, <1>10, <2>1 DEF Passes
<1> QED BY <1>7, <1>10, <1>11 DEF D, Q, Passes, EraseKeysRuns


\* erase with a set of keys: none of them has a value, and no other key changes.
LEMMA EraseKeysIs ==
  ASSUME NEW tr, NEW M, MapFit(tr, M), NEW K, Laid(K)
  PROVE  /\ MapFit(tr, EraseKeys(M, K))
         /\ \A e \in Int : ValueAt(EraseKeys(M, K), e) = IF Has(K, e) THEN NoValue ELSE ValueAt(M, e)
<1> DEFINE C == common_range(K, KeysOf(M))
           q == InOrder(C)
           r == [e \in Int |-> NoValue]
<1>m. Mapped(M)
  BY DEF MapFit
<1>k. Laid(KeysOf(M)) /\ \A k \in Int : Has(KeysOf(M), k) <=> ValueAt(M, k) # NoValue
  BY <1>m, KeysOfIs
<1>0. /\ C \in SUBSET K /\ Laid(C)
      /\ \A s \in K, k \in Int : In(k, s) /\ Has(KeysOf(M), k) => s \in C
  BY <1>k, CommonRangeIs
<1> HIDE DEF C
<1>1. /\ q \in Seq(Interval) /\ Len(q) \in Nat /\ Disjoint(q, Len(q))
      /\ \A k \in 1 .. Len(q) : q[k] \in C /\ Proper(q[k])
      /\ \A e \in Int : (\E j \in 1 .. Len(q) : In(e, q[j])) <=> Has(C, e)
  BY <1>0, KeysInOrder
<1>2. EraseKeysRuns(tr, M, K, q)
  BY <1>1, FitMapsAre, EraseKeysLoop DEF C
<1> HIDE DEF q
<1>3. PICK h \in [0 .. Len(q) -> FitMaps(tr)] :
        /\ h[0] = M
        /\ EraseKeys(M, K) = h[Len(q)]
        /\ \A k \in 1 .. Len(q) : h[k] = EraseInterval(h[k - 1], q[k]) /\ q[k] \in Interval
  BY <1>2 DEF EraseKeysRuns
<1>r. \A e \in Int : r[e] = NoValue
  OBVIOUS
<1> HIDE DEF r
<1>4. ASSUME NEW k \in 1 .. Len(q)
      PROVE  Touches(tr, h[0], h[k - 1], q[k], r, h[k])
  <2>1. ASSUME MapFit(tr, h[k - 1])
        PROVE  ErasedAt(tr, h[k - 1], q[k], h[k])
    BY <1>3, <2>1, EraseIntervalIs
  <2> QED BY <1>r, <2>1 DEF Touches, ErasedAt
<1>5. MapFit(tr, h[0])
  BY <1>3
<1>6. TouchedBy(tr, h[0], q, Len(q), r, h[Len(q)])
  BY <1>1, <1>4, <1>5, TouchedOnce
<1> DEFINE H == EraseKeys(M, K)
<1>7. /\ MapFit(tr, H)
      /\ \A e \in Int : ValueAt(H, e) = IF Has(C, e) THEN NoValue ELSE ValueAt(M, e)
  BY <1>1, <1>3, <1>r, <1>6 DEF TouchedBy
<1> HIDE DEF H
<1>8. \A e \in Int : ValueAt(M, e) # NoValue => (Has(C, e) <=> Has(K, e))
  BY <1>0, <1>k DEF Has
<1>9. \A e \in Int : Has(C, e) => Has(K, e)
  BY <1>0 DEF Has
<1> QED BY <1>7, <1>8, <1>9 DEF H

-----------------------------------------------------------------------------
(***************************************************************************)
(* Sections.                                                               *)
(***************************************************************************)

\* What the segments of a list have in common with i.
PartsOf(q, i) == [k \in 1 .. Len(q) |-> common(q[k].itv, i)]

\* The parts in i of the segments that i overlaps: they are disjoint, and have the
\* keys of i with a value.
LEMMA PartsInOrder ==
  ASSUME NEW M, Mapped(M), NEW i, Proper(i), NEW q, q = SegmentsInOrder(overlap(M, i))
  PROVE  /\ q \in Seq(Wholes) /\ Len(q) \in Nat /\ Disjoint(PartsOf(q, i), Len(q))
         /\ \A k \in 1 .. Len(q) :
              /\ q[k] \in M /\ PartsOf(q, i)[k] = common(q[k].itv, i)
              /\ common(q[k].itv, i) \in Interval
              /\ \A e \in Int : In(e, common(q[k].itv, i)) <=> Within(e, q[k]) /\ In(e, i)
         /\ \A e \in Int : (\E j \in 1 .. Len(q) : In(e, PartsOf(q, i)[j])) <=>
                           In(e, i) /\ ValueAt(M, e) # NoValue
<1> DEFINE E == overlap(M, i)
           c == PartsOf(q, i)
<1>0. /\ E \in SUBSET M /\ Mapped(E)
      /\ \A s \in M : s \in E <=> Lo(s) <= last(i) /\ first(i) <= Hi(s)
  BY OverlapIs
<1>1. /\ Len(q) \in Nat /\ Disjoint(IntervalsOf(q), Len(q))
      /\ \A k \in 1 .. Len(q) : q[k] \in E /\ IntervalsOf(q)[k] = q[k].itv
      /\ \A e \in Int : (\E j \in 1 .. Len(q) : In(e, IntervalsOf(q)[j])) <=>
                        ValueAt(E, e) # NoValue
  BY <1>0, IntervalsInOrder
<1>2. q \in Seq(Wholes)
  BY <1>0, ListOfWholes
<1>3. ASSUME NEW k \in 1 .. Len(q)
      PROVE  /\ q[k] \in M /\ c[k] = common(q[k].itv, i)
             /\ common(q[k].itv, i) \in Interval
             /\ \A e \in Int : In(e, common(q[k].itv, i)) <=> Within(e, q[k]) /\ In(e, i)
  <2>1. c[k] = common(q[k].itv, i)
    BY DEF PartsOf
  <2>2. q[k] \in M /\ Proper(q[k].itv)
    BY <1>0, <1>1, MapEnds
  <2>3. /\ common(q[k].itv, i) \in Interval
        /\ first(common(q[k].itv, i)) = IF first(q[k].itv) < first(i) THEN first(i) ELSE first(q[k].itv)
        /\ last(common(q[k].itv, i)) = IF last(q[k].itv) < last(i) THEN last(q[k].itv) ELSE last(i)
    BY <2>2, CommonIs
  <2>4. /\ first(i) \in Int /\ last(i) \in Int
        /\ first(q[k].itv) \in Int /\ last(q[k].itv) \in Int
    BY <2>2, ProperEnds
  <2> DEFINE a == first(i)
             b == last(i)
             f == first(q[k].itv)
             l == last(q[k].itv)
             m == common(q[k].itv, i)
             fm == first(m)
             lm == last(m)
  <2>5. ASSUME NEW e \in Int
        PROVE  In(e, m) <=> Within(e, q[k]) /\ In(e, i)
    <3>1. /\ In(e, m) <=> fm <= e /\ e <= lm
          /\ Within(e, q[k]) <=> f <= e /\ e <= l
          /\ In(e, i) <=> a <= e /\ e <= b
      BY DEF In, Within, Lo, Hi
    <3>2. /\ fm = IF f < a THEN a ELSE f
          /\ lm = IF l < b THEN l ELSE b
      BY <2>3
    <3>3. a \in Int /\ b \in Int /\ f \in Int /\ l \in Int
      BY <2>4
    <3> HIDE DEF a, b, f, l, fm, lm
    <3>4. (fm <= e /\ e <= lm) <=> f <= e /\ e <= l /\ a <= e /\ e <= b
      BY <3>2, <3>3
    <3> QED BY <3>1, <3>4
  <2> QED BY <2>1, <2>2, <2>3, <2>5
<1> HIDE DEF c
<1>4. Disjoint(c, Len(q))
  <2>1. \A k \in 1 .. Len(q) : \A e \in Int : In(e, c[k]) => In(e, IntervalsOf(q)[k])
    BY <1>1, <1>3 DEF Within, In, Lo, Hi
  <2> QED BY <1>1, <2>1 DEF Disjoint
<1>5. ASSUME NEW e \in Int
      PROVE  (\E j \in 1 .. Len(q) : In(e, c[j])) <=> In(e, i) /\ ValueAt(M, e) # NoValue
  <2>1. \A j \in 1 .. Len(q) : In(e, c[j]) <=> Within(e, q[j]) /\ In(e, i)
    BY <1>3
  <2>2. ASSUME NEW j \in 1 .. Len(q), Within(e, q[j])
        PROVE  ValueAt(M, e) # NoValue
    <3>1. q[j] \in M /\ q[j].val # NoValue
      BY <1>3, MapEnds
    <3> QED BY <2>2, <3>1, ValueIn DEF Within
  <2>3. ASSUME In(e, i), ValueAt(M, e) # NoValue
        PROVE  \E j \in 1 .. Len(q) : Within(e, q[j])
    <3>1. PICK s \in M : Lo(s) <= e /\ e <= Hi(s)
      BY <2>3, ValueIs
    <3>2. s \in E
      <4>1. /\ first(i) \in Int /\ last(i) \in Int /\ Lo(s) \in Int /\ Hi(s) \in Int
            /\ first(i) <= e /\ e <= last(i)
        BY <2>3, MapEnds, ProperEnds DEF In
      <4> QED BY <1>0, <3>1, <4>1
    <3>3. \A t \in E : \E k \in 1 .. Len(q) : q[k] = t
      BY <1>0, SegmentsIterated
    <3> QED BY <3>1, <3>2, <3>3 DEF Within
  <2> QED BY <2>1, <2>2, <2>3
<1> QED BY <1>1, <1>2, <1>3, <1>4, <1>5 DEF c

\* A part of a segment is added to the section, and combined with v.
SectionStep(tr, x, cur, sg) ==
  IF is_empty(common(cur.itv, sg.itv)) THEN x
  ELSE CombineAt(tr, "et", CombineAt(tr, "plus", x, seg(common(cur.itv, sg.itv), cur.val)),
                 seg(common(cur.itv, sg.itv), sg.val))

\* A part of a segment is added to the section.
PartStep(tr, x, cur, i) == AddSegment(tr, x, seg(common(cur.itv, i), cur.val))

\* The two steps keep to maps that fit the type.
LEMMA SectionStepsFit ==
  ASSUME NEW tr, NEW x \in FitMaps(tr), NEW cur \in Wholes, NEW sg \in SegmentType
  PROVE  /\ SectionStep(tr, x, cur, sg) \in FitMaps(tr)
         /\ PartStep(tr, x, cur, sg.itv) \in FitMaps(tr)
<1> DEFINE c == common(cur.itv, sg.itv)
           s == seg(c, cur.val)
           t == seg(c, sg.val)
<1>1. c \in Interval
  BY OperationsTyped DEF Wholes, SegmentType
<1>2. s \in SegmentType /\ t \in SegmentType
  BY <1>1, SegTyped DEF Wholes, SegmentType
<1> HIDE DEF c, s, t
<1>3. MapFit(tr, x)
  BY FitMapsAre
<1>4. MapFit(tr, CombineAt(tr, "plus", x, s))
  BY <1>2, <1>3, CombineIs DEF CombinedAt
<1>5. MapFit(tr, CombineAt(tr, "et", CombineAt(tr, "plus", x, s), t))
  BY <1>2, <1>4, CombineIs DEF CombinedAt
<1> QED BY <1>3, <1>4, <1>5, FitMapsAre DEF SectionStep, PartStep, AddSegment, c, s, t


\* What the loops of add_intersection leave.
SegmentSection(tr, X, M, sg) ==
  ForSegments(LAMBDA x, cur : SectionStep(tr, x, cur, sg), X, overlap(M, sg.itv))
KeysSection(tr, X, M, i) ==
  ForSegments(LAMBDA x, cur : PartStep(tr, x, cur, i), X, overlap(M, i))

\* add_intersection is its loop.
LEMMA SectionIsLoop ==
  ASSUME NEW tr, NEW X, NEW M, NEW sg, ~ is_empty(sg.itv)
  PROVE  /\ SectionWithSegment(tr, X, M, sg) = SegmentSection(tr, X, M, sg)
         /\ SectionWithKeys(tr, X, M, sg.itv) = KeysSection(tr, X, M, sg.itv)
<1>1. SectionWithSegment(tr, X, M, sg) = SegmentSection(tr, X, M, sg)
  BY Zenon DEF SectionWithSegment, SegmentSection, SectionStep
<1>2. SectionWithKeys(tr, X, M, sg.itv) = KeysSection(tr, X, M, sg.itv)
  BY Zenon DEF SectionWithKeys, KeysSection, PartStep
<1> QED BY <1>1, <1>2

\* The states h of the loop of add_intersection with a segment.
SectionSegmentRuns(tr, X, M, sg, q) ==
  \E h \in [0 .. Len(q) -> FitMaps(tr)] :
    /\ h[0] = X
    /\ h[Len(q)] = SegmentSection(tr, X, M, sg)
    /\ \A k \in 1 .. Len(q) : h[k] = SectionStep(tr, h[k - 1], q[k], sg) /\ q[k] \in Wholes

\* The loop of add_intersection with a segment.
LEMMA SectionSegmentLoop ==
  ASSUME NEW tr, NEW X, NEW M, NEW sg \in SegmentType,
         X \in FitMaps(tr), NEW q \in Seq(Wholes), q = SegmentsInOrder(overlap(M, sg.itv))
  PROVE  SectionSegmentRuns(tr, X, M, sg, q)
<1> DEFINE D == FitMaps(tr)
           Q == Wholes
           g == [p \in D \X Q |-> SectionStep(tr, p[1], p[2], sg)]
           iter == CHOOSE it : it = [s \in SUBSET DOMAIN q |->
                     IF s = {} THEN X ELSE SectionStep(tr, it[s \ {Max(s)}], q[Max(s)], sg)]
<1>0. X \in D /\ q \in Seq(Q)
  OBVIOUS
<1>1. ASSUME NEW y \in D, NEW t \in Q
      PROVE  SectionStep(tr, y, t, sg) \in D
  BY <1>1, SectionStepsFit
<1>2. g \in [D \X Q -> D]
  <2>1. \A p \in D \X Q : SectionStep(tr, p[1], p[2], sg) \in D
    BY <1>1
  <2> QED BY <2>1, Zenon
<1>3. \A y \in D, t \in Q : g[<<y, t>>] = SectionStep(tr, y, t, sg)
  <2> HIDE DEF D, Q
  <2> QED OBVIOUS
<1> HIDE DEF g, D, Q
<1>4. PICK it \in [SUBSET DOMAIN q -> D] : Solves(it, D, Q, g, X, q)
  BY <1>0, <1>2, FoldSolved
<1>5. it = [s \in SUBSET DOMAIN q |->
              IF s = {} THEN X ELSE SectionStep(tr, it[s \ {Max(s)}], q[Max(s)], sg)]
  <2>1. \A s \in SUBSET DOMAIN q :
          it[s] = IF s = {} THEN X ELSE SectionStep(tr, it[s \ {Max(s)}], q[Max(s)], sg)
    <3>1. it[{}] = X
      BY <1>4 DEF Solves
    <3>2. ASSUME NEW s \in SUBSET DOMAIN q, s # {}
          PROVE  it[s] = SectionStep(tr, it[s \ {Max(s)}], q[Max(s)], sg)
      <4>1. /\ it[s \ {Max(s)}] \in D /\ q[Max(s)] \in Q
            /\ it[s] = g[<<it[s \ {Max(s)}], q[Max(s)]>>]
        BY <1>4, <3>2 DEF Solves
      <4> QED BY <1>3, <4>1
    <3> QED BY <3>1, <3>2
  <2>2. it = [s \in SUBSET DOMAIN q |-> it[s]]
    OBVIOUS
  <2> QED BY <2>1, <2>2, Zenon
<1>6. iter = [s \in SUBSET DOMAIN q |->
                IF s = {} THEN X ELSE SectionStep(tr, iter[s \ {Max(s)}], q[Max(s)], sg)]
  BY <1>5, Zenon
<1>7. iter[DOMAIN q] = SegmentSection(tr, X, M, sg)
  BY Zenon DEF SegmentSection, ForSegments, FoldLeft, MapThenFoldSet
<1> HIDE DEF iter
<1>8. \A s \in SUBSET DOMAIN q :
        iter[s] = IF s = {} THEN X ELSE SectionStep(tr, iter[s \ {Max(s)}], q[Max(s)], sg)
  BY <1>6
<1>9. SolvesWithin(iter, D, g, X, q)
  <2>1. iter[{}] = X
    BY <1>8
  <2>2. ASSUME NEW s \in SUBSET DOMAIN q, s # {}, iter[s \ {Max(s)}] \in D
        PROVE  iter[s] = g[<<iter[s \ {Max(s)}], q[Max(s)]>>]
    <3>1. q[Max(s)] \in Q
      BY <1>4, <2>2 DEF Solves
    <3>2. g[<<iter[s \ {Max(s)}], q[Max(s)]>>] = SectionStep(tr, iter[s \ {Max(s)}], q[Max(s)], sg)
      BY <1>3, <2>2, <3>1
    <3>3. iter[s] = SectionStep(tr, iter[s \ {Max(s)}], q[Max(s)], sg)
      BY <1>8, <2>2
    <3> QED BY <3>2, <3>3
  <2> QED BY <2>1, <2>2 DEF SolvesWithin
<1>10. PICK h \in [0 .. Len(q) -> D] : Passes(h, Q, g, X, q, iter[DOMAIN q])
  BY <1>0, <1>2, <1>9, FoldStates
<1>11. ASSUME NEW k \in 1 .. Len(q)
       PROVE  h[k] = SectionStep(tr, h[k - 1], q[k], sg) /\ q[k] \in Q
  <2>1. h[k - 1] \in D
    <3>1. k - 1 \in 0 .. Len(q)
      <4>1. Len(q) \in Nat
        BY <1>0, LenProperties
      <4> QED BY <4>1, PassBefore
    <3>2. \A j \in 0 .. Len(q) : h[j] \in D
      BY <1>10
    <3> QED BY <3>1, <3>2
  <2> QED BY <1>3, <1>10, <2>1 DEF Passes
<1> QED BY <1>7, <1>10, <1>11 DEF D, Q, Passes, SectionSegmentRuns

\* The states h of the loop of add_intersection with an interval.
SectionKeysRuns(tr, X, M, i, q) ==
  \E h \in [0 .. Len(q) -> FitMaps(tr)] :
    /\ h[0] = X
    /\ h[Len(q)] = KeysSection(tr, X, M, i)
    /\ \A k \in 1 .. Len(q) : h[k] = PartStep(tr, h[k - 1], q[k], i) /\ q[k] \in Wholes

\* The loop of add_intersection with an interval.
LEMMA SectionKeysLoop ==
  ASSUME NEW tr, NEW X, NEW M, NEW i \in Interval,
         X \in FitMaps(tr), NEW q \in Seq(Wholes), q = SegmentsInOrder(overlap(M, i))
  PROVE  SectionKeysRuns(tr, X, M, i, q)
<1> DEFINE D == FitMaps(tr)
           Q == Wholes
           g == [p \in D \X Q |-> PartStep(tr, p[1], p[2], i)]
           iter == CHOOSE it : it = [s \in SUBSET DOMAIN q |->
                     IF s = {} THEN X ELSE PartStep(tr, it[s \ {Max(s)}], q[Max(s)], i)]
<1>0. X \in D /\ q \in Seq(Q)
  OBVIOUS
<1>1. ASSUME NEW y \in D, NEW t \in Q
      PROVE  PartStep(tr, y, t, i) \in D
  <2>1. seg(i, {}) \in SegmentType /\ seg(i, {}).itv = i
    BY SegTyped
  <2> QED BY <1>1, <2>1, SectionStepsFit
<1>2. g \in [D \X Q -> D]
  <2>1. \A p \in D \X Q : PartStep(tr, p[1], p[2], i) \in D
    BY <1>1
  <2> QED BY <2>1, Zenon
<1>3. \A y \in D, t \in Q : g[<<y, t>>] = PartStep(tr, y, t, i)
  <2> HIDE DEF D, Q
  <2> QED OBVIOUS
<1> HIDE DEF g, D, Q
<1>4. PICK it \in [SUBSET DOMAIN q -> D] : Solves(it, D, Q, g, X, q)
  BY <1>0, <1>2, FoldSolved
<1>5. it = [s \in SUBSET DOMAIN q |->
              IF s = {} THEN X ELSE PartStep(tr, it[s \ {Max(s)}], q[Max(s)], i)]
  <2>1. \A s \in SUBSET DOMAIN q :
          it[s] = IF s = {} THEN X ELSE PartStep(tr, it[s \ {Max(s)}], q[Max(s)], i)
    <3>1. it[{}] = X
      BY <1>4 DEF Solves
    <3>2. ASSUME NEW s \in SUBSET DOMAIN q, s # {}
          PROVE  it[s] = PartStep(tr, it[s \ {Max(s)}], q[Max(s)], i)
      <4>1. /\ it[s \ {Max(s)}] \in D /\ q[Max(s)] \in Q
            /\ it[s] = g[<<it[s \ {Max(s)}], q[Max(s)]>>]
        BY <1>4, <3>2 DEF Solves
      <4> QED BY <1>3, <4>1
    <3> QED BY <3>1, <3>2
  <2>2. it = [s \in SUBSET DOMAIN q |-> it[s]]
    OBVIOUS
  <2> QED BY <2>1, <2>2, Zenon
<1>6. iter = [s \in SUBSET DOMAIN q |->
                IF s = {} THEN X ELSE PartStep(tr, iter[s \ {Max(s)}], q[Max(s)], i)]
  BY <1>5, Zenon
<1>7. iter[DOMAIN q] = KeysSection(tr, X, M, i)
  BY Zenon DEF KeysSection, ForSegments, FoldLeft, MapThenFoldSet
<1> HIDE DEF iter
<1>8. \A s \in SUBSET DOMAIN q :
        iter[s] = IF s = {} THEN X ELSE PartStep(tr, iter[s \ {Max(s)}], q[Max(s)], i)
  BY <1>6
<1>9. SolvesWithin(iter, D, g, X, q)
  <2>1. iter[{}] = X
    BY <1>8
  <2>2. ASSUME NEW s \in SUBSET DOMAIN q, s # {}, iter[s \ {Max(s)}] \in D
        PROVE  iter[s] = g[<<iter[s \ {Max(s)}], q[Max(s)]>>]
    <3>1. q[Max(s)] \in Q
      BY <1>4, <2>2 DEF Solves
    <3>2. g[<<iter[s \ {Max(s)}], q[Max(s)]>>] = PartStep(tr, iter[s \ {Max(s)}], q[Max(s)], i)
      BY <1>3, <2>2, <3>1
    <3>3. iter[s] = PartStep(tr, iter[s \ {Max(s)}], q[Max(s)], i)
      BY <1>8, <2>2
    <3> QED BY <3>2, <3>3
  <2> QED BY <2>1, <2>2 DEF SolvesWithin
<1>10. PICK h \in [0 .. Len(q) -> D] : Passes(h, Q, g, X, q, iter[DOMAIN q])
  BY <1>0, <1>2, <1>9, FoldStates
<1>11. ASSUME NEW k \in 1 .. Len(q)
       PROVE  h[k] = PartStep(tr, h[k - 1], q[k], i) /\ q[k] \in Q
  <2>1. h[k - 1] \in D
    <3>1. k - 1 \in 0 .. Len(q)
      <4>1. Len(q) \in Nat
        BY <1>0, LenProperties
      <4> QED BY <4>1, PassBefore
    <3>2. \A j \in 0 .. Len(q) : h[j] \in D
      BY <1>10
    <3> QED BY <3>1, <3>2
  <2> QED BY <1>3, <1>10, <2>1 DEF Passes
<1> QED BY <1>7, <1>10, <1>11 DEF D, Q, Passes, SectionKeysRuns


\* The section S is X with what the function r has for the keys of i that M has.
SectionOf(tr, X, M, i, r, S) ==
  /\ MapFit(tr, S)
  /\ \A e \in Int : ValueAt(S, e) = IF In(e, i) /\ ValueAt(M, e) # NoValue THEN r[e]
                                                                        ELSE ValueAt(X, e)

\* What a segment with the value w of which the part c is added, and combined with
\* v, leaves at a key that had no value.
LEMMA SectionCell ==
  ASSUME NEW tr, NEW x, MapFit(tr, x), NEW c \in Interval, NEW w \in SUBSET Values,
         ~ is_absorbable(tr, w), NEW v \in SUBSET Values,
         \A e \in Int : In(e, c) => ValueAt(x, e) = NoValue,
         NEW P, P = CombineAt(tr, "plus", x, seg(c, w)),
         NEW S, S = CombineAt(tr, "et", P, seg(c, v))
  PROVE  /\ MapFit(tr, P) /\ MapFit(tr, S)
         /\ \A e \in Int : ValueAt(P, e) = IF In(e, c) THEN w ELSE ValueAt(x, e)
         /\ \A e \in Int : ValueAt(S, e) = IF In(e, c) THEN cell_section(tr, w, v) ELSE ValueAt(x, e)
<1>0. w # NoValue
  BY ContainersAssumption
<1>1. /\ seg(c, w) \in SegmentType /\ seg(c, w).itv = c /\ seg(c, w).val = w
      /\ seg(c, v) \in SegmentType /\ seg(c, v).itv = c /\ seg(c, v).val = v
  BY SegTyped
<1>2. CombinedAt(tr, "plus", x, c, w, P)
  BY <1>1, CombineIs
<1>3. /\ MapFit(tr, P)
      /\ \A e \in Int : ValueAt(P, e) = IF In(e, c) THEN w ELSE ValueAt(x, e)
  BY <1>2 DEF CombinedAt, CombinedCell
<1>4. CombinedAt(tr, "et", P, c, v, S)
  BY <1>1, <1>3, CombineIs
<1>5. /\ MapFit(tr, S)
      /\ \A e \in Int : ValueAt(S, e) = IF In(e, c) /\ ~ is_absorbable(tr, v)
                                        THEN CombinedCell(tr, "et", ValueAt(P, e), v)
                                        ELSE ValueAt(P, e)
  BY <1>4 DEF CombinedAt
<1>6. cell_section(tr, w, v) = IF is_absorbable(tr, v) THEN w ELSE Kept(tr, w \cap v)
  BY <1>0 DEF cell_section, Absorbable, is_absorbable
<1>7. CombinedCell(tr, "et", w, v) = Kept(tr, w \cap v)
  BY <1>0 DEF CombinedCell, combine, inplace_et
<1> QED BY <1>3, <1>5, <1>6, <1>7

\* add_intersection with a segment: the section of the keys that M has, of a
\* section that has none of them yet.
LEMMA SectionSegmentIs ==
  ASSUME NEW tr, NEW M, MapFit(tr, M), NEW X, MapFit(tr, X), NEW s \in SegmentType,
         \A e \in Int : In(e, s.itv) => ValueAt(X, e) = NoValue
  PROVE  SectionOf(tr, X, M, s.itv, [e \in Int |-> cell_section(tr, ValueAt(M, e), s.val)],
                   SectionWithSegment(tr, X, M, s))
<1> DEFINE i == s.itv
           q == SegmentsInOrder(overlap(M, i))
           r == [e \in Int |-> cell_section(tr, ValueAt(M, e), s.val)]
           S == SectionWithSegment(tr, X, M, s)
<1>m. Mapped(M)
  BY DEF MapFit
<1>r. \A e \in Int : r[e] = cell_section(tr, ValueAt(M, e), s.val)
  OBVIOUS
<1>t. i \in Interval /\ s.val \in SUBSET Values
  BY DEF SegmentType
<1>1. CASE ~ Proper(i)
  <2>1. S = X
    BY <1>1, <1>t, ProperIs DEF SectionWithSegment
  <2>2. \A e \in Int : ~ In(e, i)
    BY <1>1, <1>t, NoKeys
  <2> HIDE DEF S, r
  <2>3. SectionOf(tr, X, M, i, r, S)
    BY <2>1, <2>2 DEF SectionOf
  <2> QED BY <2>3 DEF S, r
<1>2. CASE Proper(i)
  <2> DEFINE c == PartsOf(q, i)
  <2>1. /\ q \in Seq(Wholes) /\ Len(q) \in Nat /\ Disjoint(c, Len(q))
        /\ \A k \in 1 .. Len(q) :
             /\ q[k] \in M /\ c[k] = common(q[k].itv, i)
             /\ common(q[k].itv, i) \in Interval
             /\ \A e \in Int : In(e, common(q[k].itv, i)) <=> Within(e, q[k]) /\ In(e, i)
        /\ \A e \in Int : (\E j \in 1 .. Len(q) : In(e, c[j])) <=> In(e, i) /\ ValueAt(M, e) # NoValue
    BY <1>m, <1>2, PartsInOrder
  <2> HIDE DEF c, r
  <2>2. SectionSegmentRuns(tr, X, M, s, q)
    <3>1. X \in FitMaps(tr)
      BY FitMapsAre
    <3> QED BY <2>1, <3>1, SectionSegmentLoop
  <2>s. SectionWithSegment(tr, X, M, s) = SegmentSection(tr, X, M, s)
    <3>1. ~ is_empty(s.itv)
      BY <1>2, ProperEnds
    <3> QED BY <3>1, SectionIsLoop
  <2> HIDE DEF q, S
  <2>3. PICK h \in [0 .. Len(q) -> FitMaps(tr)] :
          /\ h[0] = X
          /\ SectionWithSegment(tr, X, M, s) = h[Len(q)]
          /\ \A k \in 1 .. Len(q) : h[k] = SectionStep(tr, h[k - 1], q[k], s) /\ q[k] \in Wholes
    BY <2>2, <2>s DEF SectionSegmentRuns
  <2>4. ASSUME NEW k \in 1 .. Len(q)
        PROVE  Touches(tr, h[0], h[k - 1], c[k], r, h[k])
    <3> DEFINE x == h[k - 1]
               w == q[k].val
    <3> SUFFICES ASSUME MapFit(tr, x), \A e \in Int : In(e, c[k]) => ValueAt(x, e) = ValueAt(h[0], e)
                 PROVE  /\ MapFit(tr, h[k])
                        /\ \A e \in Int : ValueAt(h[k], e) = IF In(e, c[k]) THEN r[e] ELSE ValueAt(x, e)
      BY DEF Touches
    <3> HIDE DEF x
    <3>1. /\ c[k] \in Interval /\ q[k] \in M
          /\ \A e \in Int : In(e, c[k]) <=> Within(e, q[k]) /\ In(e, i)
      BY <2>1
    <3>2. \A e \in Int : In(e, c[k]) => ValueAt(x, e) = NoValue
      BY <2>3, <3>1
    <3>3. \A e \in Int : In(e, c[k]) => ValueAt(M, e) = w
      BY <1>m, <3>1, ValueIn DEF Within
    <3>4. w \in SUBSET Values /\ ~ is_absorbable(tr, w)
      BY <3>1, MapEnds DEF MapFit, is_absorbable
    <3>5. h[k] = SectionStep(tr, x, q[k], s) /\ c[k] = common(q[k].itv, s.itv)
      BY <2>1, <2>3 DEF x
    <3>6. CASE is_empty(c[k])
      <4>1. h[k] = x
        BY <3>5, <3>6 DEF SectionStep
      <4>2. \A e \in Int : ~ In(e, c[k])
        BY <3>1, <3>6, NoKeys, ProperIs
      <4> QED BY <4>1, <4>2
    <3>7. CASE ~ is_empty(c[k])
      <4> DEFINE P == CombineAt(tr, "plus", x, seg(c[k], w))
      <4>1. h[k] = CombineAt(tr, "et", P, seg(c[k], s.val))
        BY <3>5, <3>7 DEF SectionStep
      <4>2. P = CombineAt(tr, "plus", x, seg(c[k], w))
        OBVIOUS
      <4> HIDE DEF P, w
      <4>3. /\ MapFit(tr, P) /\ MapFit(tr, h[k])
            /\ \A e \in Int : ValueAt(P, e) = IF In(e, c[k]) THEN w ELSE ValueAt(x, e)
            /\ \A e \in Int : ValueAt(h[k], e) = IF In(e, c[k]) THEN cell_section(tr, w, s.val) ELSE ValueAt(x, e)
        BY <1>t, <3>1, <3>2, <3>4, <4>1, <4>2, SectionCell
      <4> QED BY <1>r, <3>3, <4>3
    <3> QED BY <3>6, <3>7
  <2>5. MapFit(tr, h[0])
    BY <2>3
  <2>6. TouchedBy(tr, h[0], c, Len(q), r, h[Len(q)])
    BY <2>1, <2>4, <2>5, TouchedOnce
  <2>7. SectionOf(tr, X, M, i, r, h[Len(q)])
    BY <2>1, <2>3, <2>6 DEF TouchedBy, SectionOf
  <2> QED BY <2>3, <2>7 DEF r, S
<1> QED BY <1>1, <1>2

\* add_intersection with an interval: the values that M has there.
LEMMA SectionKeysIs ==
  ASSUME NEW tr, NEW M, MapFit(tr, M), NEW X, MapFit(tr, X), NEW i \in Interval,
         \A e \in Int : In(e, i) => ValueAt(X, e) = NoValue
  PROVE  SectionOf(tr, X, M, i, [e \in Int |-> ValueAt(M, e)], SectionWithKeys(tr, X, M, i))
<1> DEFINE q == SegmentsInOrder(overlap(M, i))
           r == [e \in Int |-> ValueAt(M, e)]
           S == SectionWithKeys(tr, X, M, i)
<1>m. Mapped(M)
  BY DEF MapFit
<1>r. \A e \in Int : r[e] = ValueAt(M, e)
  OBVIOUS
<1>1. CASE ~ Proper(i)
  <2>1. S = X
    BY <1>1, ProperIs DEF SectionWithKeys
  <2>2. \A e \in Int : ~ In(e, i)
    BY <1>1, NoKeys
  <2> HIDE DEF S, r
  <2>3. SectionOf(tr, X, M, i, r, S)
    BY <2>1, <2>2 DEF SectionOf
  <2> QED BY <2>3 DEF S, r
<1>2. CASE Proper(i)
  <2> DEFINE c == PartsOf(q, i)
  <2>1. /\ q \in Seq(Wholes) /\ Len(q) \in Nat /\ Disjoint(c, Len(q))
        /\ \A k \in 1 .. Len(q) :
             /\ q[k] \in M /\ c[k] = common(q[k].itv, i)
             /\ common(q[k].itv, i) \in Interval
             /\ \A e \in Int : In(e, common(q[k].itv, i)) <=> Within(e, q[k]) /\ In(e, i)
        /\ \A e \in Int : (\E j \in 1 .. Len(q) : In(e, c[j])) <=> In(e, i) /\ ValueAt(M, e) # NoValue
    BY <1>m, <1>2, PartsInOrder
  <2> HIDE DEF c, r
  <2>2. SectionKeysRuns(tr, X, M, i, q)
    <3>1. X \in FitMaps(tr)
      BY FitMapsAre
    <3> QED BY <2>1, <3>1, SectionKeysLoop
  <2>s. SectionWithKeys(tr, X, M, i) = KeysSection(tr, X, M, i)
    <3>1. ~ is_empty(i) /\ seg(i, {}).itv = i
      BY <1>2, ProperEnds, SegTyped
    <3>2. ~ is_empty(seg(i, {}).itv)
      BY <3>1
    <3>3. SectionWithKeys(tr, X, M, seg(i, {}).itv) = KeysSection(tr, X, M, seg(i, {}).itv)
      BY <3>2, SectionIsLoop
    <3> QED BY <3>1, <3>3
  <2> HIDE DEF q, S
  <2>3. PICK h \in [0 .. Len(q) -> FitMaps(tr)] :
          /\ h[0] = X
          /\ SectionWithKeys(tr, X, M, i) = h[Len(q)]
          /\ \A k \in 1 .. Len(q) : h[k] = PartStep(tr, h[k - 1], q[k], i) /\ q[k] \in Wholes
    BY <2>2, <2>s DEF SectionKeysRuns
  <2>4. ASSUME NEW k \in 1 .. Len(q)
        PROVE  Touches(tr, h[0], h[k - 1], c[k], r, h[k])
    <3> DEFINE x == h[k - 1]
               w == q[k].val
    <3> SUFFICES ASSUME MapFit(tr, x), \A e \in Int : In(e, c[k]) => ValueAt(x, e) = ValueAt(h[0], e)
                 PROVE  /\ MapFit(tr, h[k])
                        /\ \A e \in Int : ValueAt(h[k], e) = IF In(e, c[k]) THEN r[e] ELSE ValueAt(x, e)
      BY DEF Touches
    <3> HIDE DEF x
    <3>1. /\ c[k] \in Interval /\ q[k] \in M
          /\ \A e \in Int : In(e, c[k]) <=> Within(e, q[k]) /\ In(e, i)
      BY <2>1
    <3>2. \A e \in Int : In(e, c[k]) => ValueAt(x, e) = NoValue
      BY <2>3, <3>1
    <3>3. \A e \in Int : In(e, c[k]) => ValueAt(M, e) = w
      BY <1>m, <3>1, ValueIn DEF Within
    <3>4. w \in SUBSET Values /\ ~ is_absorbable(tr, w)
      BY <3>1, MapEnds DEF MapFit, is_absorbable
    <3>5. h[k] = CombineAt(tr, "plus", x, seg(c[k], w))
      BY <2>1, <2>3 DEF x, PartStep, AddSegment
    <3> DEFINE T == CombineAt(tr, "et", h[k], seg(c[k], w))
    <3>6. T = CombineAt(tr, "et", h[k], seg(c[k], w))
      OBVIOUS
    <3> HIDE DEF T, w
    <3>7. /\ MapFit(tr, h[k]) /\ MapFit(tr, T)
          /\ \A e \in Int : ValueAt(h[k], e) = IF In(e, c[k]) THEN w ELSE ValueAt(x, e)
          /\ \A e \in Int : ValueAt(T, e) = IF In(e, c[k]) THEN cell_section(tr, w, w) ELSE ValueAt(x, e)
      BY <3>1, <3>2, <3>4, <3>5, <3>6, SectionCell
    <3> QED BY <1>r, <3>3, <3>7
  <2>5. MapFit(tr, h[0])
    BY <2>3
  <2>6. TouchedBy(tr, h[0], c, Len(q), r, h[Len(q)])
    BY <2>1, <2>4, <2>5, TouchedOnce
  <2>7. SectionOf(tr, X, M, i, r, h[Len(q)])
    BY <2>1, <2>3, <2>6 DEF TouchedBy, SectionOf
  <2> QED BY <2>3, <2>7 DEF r, S
<1> QED BY <1>1, <1>2

\* The empty map fits every type.
LEMMA NoSegmentsFit ==
  ASSUME NEW tr
  PROVE  MapFit(tr, {}) /\ Mapped({}) /\ \A e \in Int : ValueAt({}, e) = NoValue
<1>1. Mapped({})
  BY FS_EmptySet DEF Mapped
<1>2. \A e \in Int : ValueAt({}, e) = NoValue
  BY ValueOut
<1>3. \A k \in Int : ~ Seam({}, k)
  BY DEF Seam
<1> QED BY <1>1, <1>2, <1>3 DEF MapFit

\* A map has segments if some key has a value.
LEMMA SomeSegments ==
  ASSUME NEW M, Mapped(M)
  PROVE  M # {} <=> \E e \in Int : ValueAt(M, e) # NoValue
<1>1. ASSUME NEW s \in M
      PROVE  \E e \in Int : ValueAt(M, e) # NoValue
  <2>1. Lo(s) \in Int /\ Hi(s) \in Int /\ Lo(s) <= Hi(s) /\ s.val # NoValue
    BY MapEnds
  <2>2. ValueAt(M, Lo(s)) = s.val
    BY <2>1, ValueIn
  <2> QED BY <2>1, <2>2
<1>2. M = {} => \A e \in Int : ValueAt(M, e) = NoValue
  BY ValueOut
<1> QED BY <1>1, <1>2

\* add_intersection keeps to maps that fit the type, whatever the section.
LEMMA SectionsFit ==
  ASSUME NEW tr, NEW M, MapFit(tr, M), NEW X \in FitMaps(tr), NEW t \in SegmentType
  PROVE  /\ SectionWithSegment(tr, X, M, t) \in FitMaps(tr)
         /\ SectionWithKeys(tr, X, M, t.itv) \in FitMaps(tr)
<1> DEFINE i == t.itv
           q == SegmentsInOrder(overlap(M, i))
           A == SectionWithSegment(tr, X, M, t)
           B == SectionWithKeys(tr, X, M, i)
<1>m. Mapped(M)
  BY DEF MapFit
<1>t. i \in Interval
  BY DEF SegmentType
<1>1. CASE is_empty(i)
  BY <1>1 DEF SectionWithSegment, SectionWithKeys
<1>2. CASE ~ is_empty(i)
  <2>1. q \in Seq(Wholes) /\ Len(q) \in Nat
    BY <1>m, <1>t, <1>2, ProperIs, PartsInOrder
  <2>2. SectionSegmentRuns(tr, X, M, t, q) /\ SectionKeysRuns(tr, X, M, i, q)
    BY <1>t, <2>1, SectionSegmentLoop, SectionKeysLoop
  <2>3. A = SegmentSection(tr, X, M, t) /\ B = KeysSection(tr, X, M, i)
    BY <1>2, SectionIsLoop
  <2>4. Len(q) \in 0 .. Len(q)
    BY <2>1
  <2> HIDE DEF A, B, q
  <2>5. A \in FitMaps(tr)
    BY <2>2, <2>3, <2>4 DEF SectionSegmentRuns
  <2>6. B \in FitMaps(tr)
    BY <2>2, <2>3, <2>4 DEF SectionKeysRuns
  <2> QED BY <2>5, <2>6 DEF A, B
<1> QED BY <1>1, <1>2

\* The same with an interval.
LEMMA KeysSectionsFit ==
  ASSUME NEW tr, NEW M, MapFit(tr, M), NEW X \in FitMaps(tr), NEW i \in Interval
  PROVE  SectionWithKeys(tr, X, M, i) \in FitMaps(tr)
<1> DEFINE t == seg(i, {})
<1>1. t \in SegmentType /\ t.itv = i
  BY SegTyped
<1> HIDE DEF t
<1>2. SectionWithKeys(tr, X, M, t.itv) \in FitMaps(tr)
  BY <1>1, SectionsFit
<1> QED BY <1>1, <1>2

\* The states h of the loop of operator &= with a map.
SectionMapRuns(tr, M, T, q) ==
  \E h \in [0 .. Len(q) -> FitMaps(tr)] :
    /\ h[0] = {}
    /\ h[Len(q)] = SectionWithMap(tr, M, T)
    /\ \A k \in 1 .. Len(q) : h[k] = SectionWithSegment(tr, h[k - 1], M, q[k]) /\ q[k] \in Wholes

\* The loop of operator &= with a map.
LEMMA SectionMapLoop ==
  ASSUME NEW tr, NEW M, MapFit(tr, M), NEW T,
         {} \in FitMaps(tr), NEW q \in Seq(Wholes), q = SegmentsInOrder(map_common_range(T, M))
  PROVE  SectionMapRuns(tr, M, T, q)
<1> DEFINE D == FitMaps(tr)
           Q == Wholes
           g == [p \in D \X Q |-> SectionWithSegment(tr, p[1], M, p[2])]
           iter == CHOOSE it : it = [s \in SUBSET DOMAIN q |->
                     IF s = {} THEN {} ELSE SectionWithSegment(tr, it[s \ {Max(s)}], M, q[Max(s)])]
<1>0. {} \in D /\ q \in Seq(Q)
  OBVIOUS
<1>1. ASSUME NEW y \in D, NEW t \in Q
      PROVE  SectionWithSegment(tr, y, M, t) \in D
  BY <1>1, SectionsFit DEF Wholes
<1>2. g \in [D \X Q -> D]
  <2>1. \A p \in D \X Q : SectionWithSegment(tr, p[1], M, p[2]) \in D
    BY <1>1
  <2> QED BY <2>1, Zenon
<1>3. \A y \in D, t \in Q : g[<<y, t>>] = SectionWithSegment(tr, y, M, t)
  <2> HIDE DEF D, Q
  <2> QED OBVIOUS
<1> HIDE DEF g, D, Q
<1>4. PICK it \in [SUBSET DOMAIN q -> D] : Solves(it, D, Q, g, {}, q)
  BY <1>0, <1>2, FoldSolved
<1>5. it = [s \in SUBSET DOMAIN q |->
              IF s = {} THEN {} ELSE SectionWithSegment(tr, it[s \ {Max(s)}], M, q[Max(s)])]
  <2>1. \A s \in SUBSET DOMAIN q :
          it[s] = IF s = {} THEN {} ELSE SectionWithSegment(tr, it[s \ {Max(s)}], M, q[Max(s)])
    <3>1. it[{}] = {}
      BY <1>4 DEF Solves
    <3>2. ASSUME NEW s \in SUBSET DOMAIN q, s # {}
          PROVE  it[s] = SectionWithSegment(tr, it[s \ {Max(s)}], M, q[Max(s)])
      <4>1. /\ it[s \ {Max(s)}] \in D /\ q[Max(s)] \in Q
            /\ it[s] = g[<<it[s \ {Max(s)}], q[Max(s)]>>]
        BY <1>4, <3>2 DEF Solves
      <4> QED BY <1>3, <4>1
    <3> QED BY <3>1, <3>2
  <2>2. it = [s \in SUBSET DOMAIN q |-> it[s]]
    OBVIOUS
  <2> QED BY <2>1, <2>2, Zenon
<1>6. iter = [s \in SUBSET DOMAIN q |->
                IF s = {} THEN {} ELSE SectionWithSegment(tr, iter[s \ {Max(s)}], M, q[Max(s)])]
  BY <1>5, Zenon
<1>7. iter[DOMAIN q] = SectionWithMap(tr, M, T)
  BY Zenon DEF SectionWithMap, ForSegments, FoldLeft, MapThenFoldSet
<1> HIDE DEF iter
<1>8. \A s \in SUBSET DOMAIN q :
        iter[s] = IF s = {} THEN {} ELSE SectionWithSegment(tr, iter[s \ {Max(s)}], M, q[Max(s)])
  BY <1>6
<1>9. SolvesWithin(iter, D, g, {}, q)
  <2>1. iter[{}] = {}
    BY <1>8
  <2>2. ASSUME NEW s \in SUBSET DOMAIN q, s # {}, iter[s \ {Max(s)}] \in D
        PROVE  iter[s] = g[<<iter[s \ {Max(s)}], q[Max(s)]>>]
    <3>1. q[Max(s)] \in Q
      BY <1>4, <2>2 DEF Solves
    <3>2. g[<<iter[s \ {Max(s)}], q[Max(s)]>>] = SectionWithSegment(tr, iter[s \ {Max(s)}], M, q[Max(s)])
      BY <1>3, <2>2, <3>1
    <3>3. iter[s] = SectionWithSegment(tr, iter[s \ {Max(s)}], M, q[Max(s)])
      BY <1>8, <2>2
    <3> QED BY <3>2, <3>3
  <2> QED BY <2>1, <2>2 DEF SolvesWithin
<1>10. PICK h \in [0 .. Len(q) -> D] : Passes(h, Q, g, {}, q, iter[DOMAIN q])
  BY <1>0, <1>2, <1>9, FoldStates
<1>11. ASSUME NEW k \in 1 .. Len(q)
       PROVE  h[k] = SectionWithSegment(tr, h[k - 1], M, q[k]) /\ q[k] \in Q
  <2>1. h[k - 1] \in D
    <3>1. k - 1 \in 0 .. Len(q)
      <4>1. Len(q) \in Nat
        BY <1>0, LenProperties
      <4> QED BY <4>1, PassBefore
    <3>2. \A j \in 0 .. Len(q) : h[j] \in D
      BY <1>10
    <3> QED BY <3>1, <3>2
  <2> QED BY <1>3, <1>10, <2>1 DEF Passes
<1> QED BY <1>7, <1>10, <1>11 DEF D, Q, Passes, SectionMapRuns

\* The states h of the loop of operator &= with a set of keys.
SectionSet2Runs(tr, M, K, q) ==
  \E h \in [0 .. Len(q) -> FitMaps(tr)] :
    /\ h[0] = {}
    /\ h[Len(q)] = SectionWithSet2(tr, M, K)
    /\ \A k \in 1 .. Len(q) : h[k] = SectionWithKeys(tr, h[k - 1], M, q[k]) /\ q[k] \in Interval

\* The loop of operator &= with a set of keys.
LEMMA SectionSet2Loop ==
  ASSUME NEW tr, NEW M, MapFit(tr, M), NEW K,
         {} \in FitMaps(tr), NEW q \in Seq(Interval), q = InOrder(common_range(K, KeysOf(M)))
  PROVE  SectionSet2Runs(tr, M, K, q)
<1> DEFINE D == FitMaps(tr)
           Q == Interval
           g == [p \in D \X Q |-> SectionWithKeys(tr, p[1], M, p[2])]
           iter == CHOOSE it : it = [s \in SUBSET DOMAIN q |->
                     IF s = {} THEN {} ELSE SectionWithKeys(tr, it[s \ {Max(s)}], M, q[Max(s)])]
<1>0. {} \in D /\ q \in Seq(Q)
  OBVIOUS
<1>1. ASSUME NEW y \in D, NEW t \in Q
      PROVE  SectionWithKeys(tr, y, M, t) \in D
  BY <1>1, KeysSectionsFit
<1>2. g \in [D \X Q -> D]
  <2>1. \A p \in D \X Q : SectionWithKeys(tr, p[1], M, p[2]) \in D
    BY <1>1
  <2> QED BY <2>1, Zenon
<1>3. \A y \in D, t \in Q : g[<<y, t>>] = SectionWithKeys(tr, y, M, t)
  <2> HIDE DEF D, Q
  <2> QED OBVIOUS
<1> HIDE DEF g, D, Q
<1>4. PICK it \in [SUBSET DOMAIN q -> D] : Solves(it, D, Q, g, {}, q)
  BY <1>0, <1>2, FoldSolved
<1>5. it = [s \in SUBSET DOMAIN q |->
              IF s = {} THEN {} ELSE SectionWithKeys(tr, it[s \ {Max(s)}], M, q[Max(s)])]
  <2>1. \A s \in SUBSET DOMAIN q :
          it[s] = IF s = {} THEN {} ELSE SectionWithKeys(tr, it[s \ {Max(s)}], M, q[Max(s)])
    <3>1. it[{}] = {}
      BY <1>4 DEF Solves
    <3>2. ASSUME NEW s \in SUBSET DOMAIN q, s # {}
          PROVE  it[s] = SectionWithKeys(tr, it[s \ {Max(s)}], M, q[Max(s)])
      <4>1. /\ it[s \ {Max(s)}] \in D /\ q[Max(s)] \in Q
            /\ it[s] = g[<<it[s \ {Max(s)}], q[Max(s)]>>]
        BY <1>4, <3>2 DEF Solves
      <4> QED BY <1>3, <4>1
    <3> QED BY <3>1, <3>2
  <2>2. it = [s \in SUBSET DOMAIN q |-> it[s]]
    OBVIOUS
  <2> QED BY <2>1, <2>2, Zenon
<1>6. iter = [s \in SUBSET DOMAIN q |->
                IF s = {} THEN {} ELSE SectionWithKeys(tr, iter[s \ {Max(s)}], M, q[Max(s)])]
  BY <1>5, Zenon
<1>7. iter[DOMAIN q] = SectionWithSet2(tr, M, K)
  BY Zenon DEF SectionWithSet2, ForAll, FoldLeft, MapThenFoldSet
<1> HIDE DEF iter
<1>8. \A s \in SUBSET DOMAIN q :
        iter[s] = IF s = {} THEN {} ELSE SectionWithKeys(tr, iter[s \ {Max(s)}], M, q[Max(s)])
  BY <1>6
<1>9. SolvesWithin(iter, D, g, {}, q)
  <2>1. iter[{}] = {}
    BY <1>8
  <2>2. ASSUME NEW s \in SUBSET DOMAIN q, s # {}, iter[s \ {Max(s)}] \in D
        PROVE  iter[s] = g[<<iter[s \ {Max(s)}], q[Max(s)]>>]
    <3>1. q[Max(s)] \in Q
      BY <1>4, <2>2 DEF Solves
    <3>2. g[<<iter[s \ {Max(s)}], q[Max(s)]>>] = SectionWithKeys(tr, iter[s \ {Max(s)}], M, q[Max(s)])
      BY <1>3, <2>2, <3>1
    <3>3. iter[s] = SectionWithKeys(tr, iter[s \ {Max(s)}], M, q[Max(s)])
      BY <1>8, <2>2
    <3> QED BY <3>2, <3>3
  <2> QED BY <2>1, <2>2 DEF SolvesWithin
<1>10. PICK h \in [0 .. Len(q) -> D] : Passes(h, Q, g, {}, q, iter[DOMAIN q])
  BY <1>0, <1>2, <1>9, FoldStates
<1>11. ASSUME NEW k \in 1 .. Len(q)
       PROVE  h[k] = SectionWithKeys(tr, h[k - 1], M, q[k]) /\ q[k] \in Q
  <2>1. h[k - 1] \in D
    <3>1. k - 1 \in 0 .. Len(q)
      <4>1. Len(q) \in Nat
        BY <1>0, LenProperties
      <4> QED BY <4>1, PassBefore
    <3>2. \A j \in 0 .. Len(q) : h[j] \in D
      BY <1>10
    <3> QED BY <3>1, <3>2
  <2> QED BY <1>3, <1>10, <2>1 DEF Passes
<1> QED BY <1>7, <1>10, <1>11 DEF D, Q, Passes, SectionSet2Runs


\* The section of two maps is that of icl::map: it has the common keys.
LEMMA SectionMapIs ==
  ASSUME NEW tr, NEW M, MapFit(tr, M), NEW T, Mapped(T)
  PROVE  /\ MapFit(tr, SectionWithMap(tr, M, T))
         /\ \A e \in Int : ValueAt(SectionWithMap(tr, M, T), e) =
              IF ValueAt(T, e) = NoValue THEN NoValue
              ELSE cell_section(tr, ValueAt(M, e), ValueAt(T, e))
<1> DEFINE C == map_common_range(T, M)
           q == SegmentsInOrder(C)
           c == IntervalsOf(q)
           r == [e \in Int |-> cell_section(tr, ValueAt(M, e), ValueAt(T, e))]
           S == SectionWithMap(tr, M, T)
<1>m. Mapped(M)
  BY DEF MapFit
<1>n. MapFit(tr, {}) /\ \A e \in Int : ValueAt({}, e) = NoValue
  BY NoSegmentsFit
<1>0. /\ C \in SUBSET T /\ Mapped(C)
      /\ \A e \in Int : ValueAt(M, e) # NoValue => ValueAt(C, e) = ValueAt(T, e)
      /\ \A e \in Int : ValueAt(C, e) \in {NoValue, ValueAt(T, e)}
  BY <1>m, MapCommonRangeIs
<1> HIDE DEF C
<1>1. q \in Seq(Wholes) /\ {} \in FitMaps(tr)
  BY <1>0, <1>n, ListOfWholes, FitMapsAre
<1>2. SectionMapRuns(tr, M, T, q)
  BY <1>1, SectionMapLoop DEF C
<1> HIDE DEF S
<1>3. PICK h \in [0 .. Len(q) -> FitMaps(tr)] :
        /\ h[0] = {}
        /\ S = h[Len(q)]
        /\ \A k \in 1 .. Len(q) : h[k] = SectionWithSegment(tr, h[k - 1], M, q[k]) /\ q[k] \in Wholes
  BY <1>2 DEF SectionMapRuns, S
<1>4. /\ Len(q) \in Nat /\ Disjoint(c, Len(q))
      /\ \A k \in 1 .. Len(q) : q[k] \in C /\ c[k] = q[k].itv
      /\ \A e \in Int : (\E j \in 1 .. Len(q) : In(e, c[j])) <=> ValueAt(C, e) # NoValue
  BY <1>0, IntervalsInOrder
<1>r. \A e \in Int : r[e] = cell_section(tr, ValueAt(M, e), ValueAt(T, e))
  OBVIOUS
<1> HIDE DEF q, c, r
<1>5. ASSUME NEW k \in 1 .. Len(q)
      PROVE  Touches(tr, h[0], h[k - 1], c[k], r, h[k])
  <2> DEFINE x == h[k - 1]
             s == q[k]
             u == [e \in Int |-> cell_section(tr, ValueAt(M, e), s.val)]
  <2> SUFFICES ASSUME MapFit(tr, x), \A e \in Int : In(e, c[k]) => ValueAt(x, e) = ValueAt(h[0], e)
               PROVE  /\ MapFit(tr, h[k])
                      /\ \A e \in Int : ValueAt(h[k], e) = IF In(e, c[k]) THEN r[e] ELSE ValueAt(x, e)
    BY DEF Touches
  <2>1. s \in SegmentType /\ s \in T /\ c[k] = s.itv
    BY <1>0, <1>3, <1>4 DEF Wholes
  <2>2. h[k] = SectionWithSegment(tr, x, M, s)
    BY <1>3
  <2>u. \A e \in Int : u[e] = cell_section(tr, ValueAt(M, e), s.val)
    OBVIOUS
  <2> HIDE DEF x, s
  <2>3. \A e \in Int : In(e, s.itv) => ValueAt(x, e) = NoValue
    BY <1>n, <1>3, <2>1
  <2>4. SectionOf(tr, x, M, s.itv, u, h[k])
    BY <2>1, <2>2, <2>3, SectionSegmentIs
  <2> HIDE DEF u
  <2>5. \A e \in Int : In(e, s.itv) => ValueAt(T, e) = s.val
    BY <2>1, ValueIn DEF In, Lo, Hi
  <2>6. /\ MapFit(tr, h[k])
        /\ \A e \in Int : ValueAt(h[k], e) =
             IF In(e, s.itv) /\ ValueAt(M, e) # NoValue THEN u[e] ELSE ValueAt(x, e)
    BY <2>4 DEF SectionOf
  <2>7. \A v : cell_section(tr, NoValue, v) = NoValue
    BY DEF cell_section
  <2> QED BY <1>r, <2>1, <2>3, <2>5, <2>6, <2>7, <2>u
<1>6. TouchedBy(tr, h[0], c, Len(q), r, h[Len(q)])
  BY <1>3, <1>4, <1>5, <1>n, TouchedOnce
<1>7. /\ MapFit(tr, S)
      /\ \A e \in Int : ValueAt(S, e) = IF ValueAt(C, e) # NoValue THEN r[e] ELSE NoValue
  BY <1>3, <1>4, <1>6, <1>n DEF TouchedBy
<1>8. \A v : cell_section(tr, NoValue, v) = NoValue
  BY DEF cell_section
<1>9. \A e \in Int : ValueAt(S, e) = IF ValueAt(T, e) = NoValue THEN NoValue
                                     ELSE cell_section(tr, ValueAt(M, e), ValueAt(T, e))
  BY <1>0, <1>7, <1>8, <1>r
<1> QED BY <1>7, <1>9 DEF S

\* The section with a set of keys has the values of these keys.
LEMMA SectionSet2Is ==
  ASSUME NEW tr, NEW M, MapFit(tr, M), NEW K, Laid(K)
  PROVE  /\ MapFit(tr, SectionWithSet2(tr, M, K))
         /\ \A e \in Int : ValueAt(SectionWithSet2(tr, M, K), e) =
              IF Has(K, e) THEN ValueAt(M, e) ELSE NoValue
<1> DEFINE C == common_range(K, KeysOf(M))
           q == InOrder(C)
           r == [e \in Int |-> ValueAt(M, e)]
           S == SectionWithSet2(tr, M, K)
<1>m. Mapped(M)
  BY DEF MapFit
<1>n. MapFit(tr, {}) /\ \A e \in Int : ValueAt({}, e) = NoValue
  BY NoSegmentsFit
<1>k. Laid(KeysOf(M)) /\ \A k \in Int : Has(KeysOf(M), k) <=> ValueAt(M, k) # NoValue
  BY <1>m, KeysOfIs
<1>0. /\ C \in SUBSET K /\ Laid(C)
      /\ \A s \in K, k \in Int : In(k, s) /\ Has(KeysOf(M), k) => s \in C
  BY <1>k, CommonRangeIs
<1> HIDE DEF C
<1>1. /\ q \in Seq(Interval) /\ Len(q) \in Nat /\ Disjoint(q, Len(q))
      /\ \A k \in 1 .. Len(q) : q[k] \in C /\ Proper(q[k])
      /\ \A e \in Int : (\E j \in 1 .. Len(q) : In(e, q[j])) <=> Has(C, e)
  BY <1>0, KeysInOrder
<1>2. SectionSet2Runs(tr, M, K, q)
  BY <1>1, <1>n, FitMapsAre, SectionSet2Loop DEF C
<1> HIDE DEF q, S
<1>3. PICK h \in [0 .. Len(q) -> FitMaps(tr)] :
        /\ h[0] = {}
        /\ S = h[Len(q)]
        /\ \A k \in 1 .. Len(q) : h[k] = SectionWithKeys(tr, h[k - 1], M, q[k]) /\ q[k] \in Interval
  BY <1>2 DEF SectionSet2Runs, S
<1>r. \A e \in Int : r[e] = ValueAt(M, e)
  OBVIOUS
<1>5. ASSUME NEW k \in 1 .. Len(q)
      PROVE  Touches(tr, h[0], h[k - 1], q[k], r, h[k])
  <2> DEFINE x == h[k - 1]
             i == q[k]
  <2> SUFFICES ASSUME MapFit(tr, x), \A e \in Int : In(e, i) => ValueAt(x, e) = ValueAt(h[0], e)
               PROVE  /\ MapFit(tr, h[k])
                      /\ \A e \in Int : ValueAt(h[k], e) = IF In(e, i) THEN r[e] ELSE ValueAt(x, e)
    BY DEF Touches
  <2>1. i \in Interval /\ h[k] = SectionWithKeys(tr, x, M, i)
    BY <1>3
  <2> HIDE DEF x, i
  <2>3. \A e \in Int : In(e, i) => ValueAt(x, e) = NoValue
    BY <1>n, <1>3
  <2>4. SectionOf(tr, x, M, i, r, h[k])
    BY <2>1, <2>3, SectionKeysIs
  <2> HIDE DEF r
  <2>6. /\ MapFit(tr, h[k])
        /\ \A e \in Int : ValueAt(h[k], e) =
             IF In(e, i) /\ ValueAt(M, e) # NoValue THEN r[e] ELSE ValueAt(x, e)
    BY <2>4 DEF SectionOf
  <2> QED BY <1>r, <2>3, <2>6
<1> HIDE DEF r
<1>6. TouchedBy(tr, h[0], q, Len(q), r, h[Len(q)])
  BY <1>1, <1>3, <1>5, <1>n, TouchedOnce
<1>7. /\ MapFit(tr, S)
      /\ \A e \in Int : ValueAt(S, e) = IF Has(C, e) THEN ValueAt(M, e) ELSE NoValue
  BY <1>1, <1>3, <1>6, <1>n, <1>r DEF TouchedBy
<1>8. \A e \in Int : ValueAt(M, e) # NoValue => (Has(C, e) <=> Has(K, e))
  BY <1>0, <1>k DEF Has
<1>9. \A e \in Int : Has(C, e) => Has(K, e)
  BY <1>0 DEF Has
<1> QED BY <1>7, <1>8, <1>9 DEF S

\* intersects with a segment: some key of it is in the section.
LEMMA IntersectsSegmentIs ==
  ASSUME NEW tr, NEW M, MapFit(tr, M), NEW s \in SegmentType
  PROVE  IntersectsSegment(tr, M, s) <=>
           \E e \in Int : In(e, s.itv) /\ cell_section(tr, ValueAt(M, e), s.val) # NoValue
<1> DEFINE S == SectionWithSegment(tr, {}, M, s)
           u == [e \in Int |-> cell_section(tr, ValueAt(M, e), s.val)]
<1>n. MapFit(tr, {}) /\ \A e \in Int : ValueAt({}, e) = NoValue
  BY NoSegmentsFit
<1>1. SectionOf(tr, {}, M, s.itv, u, S)
  BY <1>n, SectionSegmentIs
<1>u. \A e \in Int : u[e] = cell_section(tr, ValueAt(M, e), s.val)
  OBVIOUS
<1>2. IntersectsSegment(tr, M, s) <=> S # {}
  BY DEF IntersectsSegment
<1> HIDE DEF S, u
<1>3. /\ MapFit(tr, S)
      /\ \A e \in Int : ValueAt(S, e) =
           IF In(e, s.itv) /\ ValueAt(M, e) # NoValue THEN u[e] ELSE NoValue
  BY <1>1, <1>n DEF SectionOf
<1>4. S # {} <=> \E e \in Int : ValueAt(S, e) # NoValue
  BY <1>3, SomeSegments DEF MapFit
<1>5. \A v : cell_section(tr, NoValue, v) = NoValue
  BY DEF cell_section
<1> QED BY <1>2, <1>3, <1>4, <1>5, <1>u

\* intersects of two maps: some key is in their section.
LEMMA IntersectsMapIs ==
  ASSUME NEW tr, NEW M, MapFit(tr, M), NEW T, Mapped(T)
  PROVE  IntersectsMap(tr, M, T) <=>
           \E e \in Int : ValueAt(T, e) # NoValue /\ cell_section(tr, ValueAt(M, e), ValueAt(T, e)) # NoValue
<1> DEFINE C == map_common_range(T, M)
<1>m. Mapped(M)
  BY DEF MapFit
<1>0. /\ C \in SUBSET T
      /\ \A t \in T, e \in Int : Within(e, t) /\ ValueAt(M, e) # NoValue => t \in C
  BY <1>m, MapCommonRangeIs
<1>1. IntersectsMap(tr, M, T) <=> \E t \in C : IntersectsSegment(tr, M, t)
  BY DEF IntersectsMap
<1> HIDE DEF C
<1>2. \A t \in T : t \in SegmentType
  BY MapEnds DEF Whole
<1>3. \A t \in T, e \in Int : In(e, t.itv) <=> Within(e, t)
  BY DEF In, Within, Lo, Hi
<1>4. \A t \in C : IntersectsSegment(tr, M, t) <=>
           \E e \in Int : Within(e, t) /\ cell_section(tr, ValueAt(M, e), t.val) # NoValue
  BY <1>0, <1>2, <1>3, IntersectsSegmentIs
<1>5. \A v : cell_section(tr, NoValue, v) = NoValue
  BY DEF cell_section
<1>6. ASSUME NEW t \in T, NEW e \in Int, Within(e, t)
      PROVE  ValueAt(T, e) = t.val /\ t.val # NoValue
  BY <1>6, ValueIn, MapEnds DEF Within
<1>7. ASSUME NEW e \in Int, ValueAt(T, e) # NoValue
      PROVE  \E t \in T : Within(e, t)
  BY <1>7, ValueIs DEF Within
<1> QED BY <1>0, <1>1, <1>4, <1>5, <1>6, <1>7

\* intersects of a map and a set of keys: some key of it has a value.
LEMMA IntersectsKeysIs ==
  ASSUME NEW tr, NEW M, MapFit(tr, M), NEW K, Laid(K)
  PROVE  IntersectsKeys(tr, M, K) <=> \E e \in Int : Has(K, e) /\ ValueAt(M, e) # NoValue
<1> DEFINE C == common_range(K, KeysOf(M))
           r == [e \in Int |-> ValueAt(M, e)]
<1>m. Mapped(M)
  BY DEF MapFit
<1>n. MapFit(tr, {}) /\ \A e \in Int : ValueAt({}, e) = NoValue
  BY NoSegmentsFit
<1>k. Laid(KeysOf(M)) /\ \A k \in Int : Has(KeysOf(M), k) <=> ValueAt(M, k) # NoValue
  BY <1>m, KeysOfIs
<1>0. /\ C \in SUBSET K /\ Laid(C)
      /\ \A s \in K, k \in Int : In(k, s) /\ Has(KeysOf(M), k) => s \in C
  BY <1>k, CommonRangeIs
<1>1. IntersectsKeys(tr, M, K) <=> \E i \in C : SectionWithKeys(tr, {}, M, i) # {}
  BY DEF IntersectsKeys
<1> HIDE DEF C
<1>2. ASSUME NEW i \in C
      PROVE  SectionWithKeys(tr, {}, M, i) # {} <=> \E e \in Int : In(e, i) /\ ValueAt(M, e) # NoValue
  <2> DEFINE S == SectionWithKeys(tr, {}, M, i)
  <2>1. i \in Interval
    BY <1>0, LaidEnds
  <2>2. SectionOf(tr, {}, M, i, r, S)
    BY <1>n, <2>1, SectionKeysIs
  <2>r. \A e \in Int : r[e] = ValueAt(M, e)
    OBVIOUS
  <2> HIDE DEF S, r
  <2>3. /\ MapFit(tr, S)
        /\ \A e \in Int : ValueAt(S, e) =
             IF In(e, i) /\ ValueAt(M, e) # NoValue THEN r[e] ELSE NoValue
    BY <2>2, <1>n DEF SectionOf
  <2>4. S # {} <=> \E e \in Int : ValueAt(S, e) # NoValue
    BY <2>3, SomeSegments DEF MapFit
  <2>5. S # {} <=> \E e \in Int : In(e, i) /\ ValueAt(M, e) # NoValue
    BY <2>3, <2>4, <2>r
  <2> QED BY <2>5 DEF S
<1> QED BY <1>0, <1>1, <1>2, <1>k DEF Has

-----------------------------------------------------------------------------
(***************************************************************************)
(* Symmetric difference.                                                   *)
(***************************************************************************)

\* A key of i before f that has a value, or that has none.
Met(M, i, f, e) == In(e, i) /\ e < f /\ ValueAt(M, e) # NoValue
Missed(M, i, f, e) == In(e, i) /\ e < f /\ ValueAt(M, e) = NoValue

\* The loop of flip with v: the keys of i before f that had no value have v, those
\* that had one are in the eraser, and inter has their new values.
FlippingMap(tr, M, i, v, x, f, U) ==
  /\ Walks(x.span, f, M, i, U)
  /\ MapFit(tr, x.M) /\ Fit("joining", x.eraser) /\ MapFit(tr, x.inter)
  /\ \A e \in Int : ValueAt(x.M, e) = IF Missed(M, i, f, e) THEN Kept(tr, v) ELSE ValueAt(M, e)
  /\ \A e \in Int : Has(x.eraser, e) <=> Met(M, i, f, e)
  /\ \A e \in Int : ValueAt(x.inter, e) =
       IF Met(M, i, f, e) THEN Kept(tr, inplace_caret(v, ValueAt(M, e))) ELSE NoValue

\* What adding v to a key without a value leaves.
LEMMA CellAdd ==
  ASSUME NEW tr
  PROVE  /\ \A v : cell("add", tr, NoValue, v) = Kept(tr, v)
         /\ \A v : Kept(tr, Kept(tr, v)) = Kept(tr, v)
<1>1. \A v : cell("add", tr, NoValue, v) = Kept(tr, v)
  BY DEF cell, cell_add, Kept, Absorbable
<1>2. \A v : Kept(tr, Kept(tr, v)) = Kept(tr, v)
  BY DEF Kept, Absorbable
<1> QED BY <1>1, <1>2

\* A symmetric difference is a value.
LEMMA CaretTyped ==
  ASSUME NEW v \in SUBSET Values, NEW w \in SUBSET Values
  PROVE  inplace_caret(v, w) \in SUBSET Values
BY DEF inplace_caret

\* A pass of the loop.
LEMMA FlipGoesOn ==
  ASSUME NEW tr, NEW M, Mapped(M), NEW i, Proper(i), NEW v \in SUBSET Values,
         NEW x, NEW f, NEW U, FlippingMap(tr, M, i, v, x, f, U),
         NEW cur, Foremost(cur, U)
  PROVE  FlippingMap(tr, M, i, v, FlipStep(tr, v, x, cur), After(cur, i), U \ {cur})
<1> DEFINE gap == left_over_of(x.span, cur.itv)
           mid == common(x.span, cur.itv)
           r == right_over_of(x.span, cur.itv)
           g == After(cur, i)
           y == FlipStep(tr, v, x, cur)
           w == inplace_caret(v, cur.val)
<1>1. /\ Walks(x.span, f, M, i, U)
      /\ MapFit(tr, x.M) /\ Fit("joining", x.eraser) /\ MapFit(tr, x.inter)
      /\ \A e \in Int : ValueAt(x.M, e) = IF Missed(M, i, f, e) THEN Kept(tr, v) ELSE ValueAt(M, e)
      /\ \A e \in Int : Has(x.eraser, e) <=> Met(M, i, f, e)
      /\ \A e \in Int : ValueAt(x.inter, e) =
           IF Met(M, i, f, e) THEN Kept(tr, inplace_caret(v, ValueAt(M, e))) ELSE NoValue
  BY DEF FlippingMap
<1>2. Walks(r, g, M, i, U \ {cur}) /\ Passed(f, g, M, i, cur, gap, mid)
  BY <1>1, WalkGoesOn
<1>3. /\ y.M = AddSegment(tr, x.M, seg(gap, v)) /\ y.span = r
      /\ y.eraser = AddInterval("joining", x.eraser, mid)
      /\ y.inter = AddSegment(tr, x.inter, seg(mid, w))
  BY DEF FlipStep
<1>c. cur.val # NoValue /\ cur.val \in SUBSET Values
  <2>1. cur \in M
    BY <1>1 DEF Walks, Foremost
  <2> QED BY <2>1, MapEnds
<1>w. w \in SUBSET Values
  BY <1>c, CaretTyped
<1> HIDE DEF gap, mid, r, g, y, w
<1>4. /\ gap \in Interval /\ mid \in Interval
      /\ \A k \in Int : (In(k, i) /\ k < g) <=> ((In(k, i) /\ k < f) \/ In(k, gap) \/ In(k, mid))
      /\ \A k \in Int : In(k, gap) => ValueAt(M, k) = NoValue /\ ~ (k < f)
      /\ \A k \in Int : In(k, mid) => ValueAt(M, k) = cur.val /\ ~ (k < f)
  BY <1>2 DEF Passed
<1>5. \A e \in Int : /\ Missed(M, i, g, e) <=> Missed(M, i, f, e) \/ In(e, gap)
                     /\ Met(M, i, g, e) <=> Met(M, i, f, e) \/ In(e, mid)
                     /\ In(e, gap) => ~ Missed(M, i, f, e) /\ ~ Met(M, i, f, e)
                     /\ In(e, mid) => ~ Missed(M, i, f, e) /\ ~ Met(M, i, f, e)
  BY <1>4, <1>c DEF Missed, Met
<1>6. /\ seg(gap, v) \in SegmentType /\ seg(gap, v).itv = gap /\ seg(gap, v).val = v
      /\ seg(mid, w) \in SegmentType /\ seg(mid, w).itv = mid /\ seg(mid, w).val = w
  BY <1>4, <1>w, SegTyped
<1>7. OpAt("add", tr, x.M, gap, v, y.M)
  BY <1>1, <1>3, <1>6, AddSegmentIs
<1>8. OpAt("add", tr, x.inter, mid, w, y.inter)
  BY <1>1, <1>3, <1>6, AddSegmentIs
<1>9. /\ Fit("joining", y.eraser)
      /\ \A e \in Int : Has(y.eraser, e) <=> Has(x.eraser, e) \/ In(e, mid)
  <2>1. "joining" \in Styles
    BY DEF Styles
  <2> QED BY <1>1, <1>3, <1>4, <2>1, AddIs
<1>10. /\ MapFit(tr, y.M)
       /\ \A e \in Int : ValueAt(y.M, e) = IF Missed(M, i, g, e) THEN Kept(tr, v) ELSE ValueAt(M, e)
  <2>1. /\ MapFit(tr, y.M)
        /\ \A k \in Int : ValueAt(y.M, k) = IF In(k, gap) THEN cell("add", tr, ValueAt(x.M, k), v)
                                                          ELSE ValueAt(x.M, k)
    BY <1>7 DEF OpAt
  <2>2. \A k \in Int : In(k, gap) => ValueAt(x.M, k) = NoValue
    BY <1>1, <1>4, <1>5
  <2> QED BY <1>1, <1>5, <2>1, <2>2, CellAdd
<1>11. /\ MapFit(tr, y.inter)
       /\ \A e \in Int : ValueAt(y.inter, e) =
            IF Met(M, i, g, e) THEN Kept(tr, inplace_caret(v, ValueAt(M, e))) ELSE NoValue
  <2>1. /\ MapFit(tr, y.inter)
        /\ \A k \in Int : ValueAt(y.inter, k) = IF In(k, mid) THEN cell("add", tr, ValueAt(x.inter, k), w)
                                                              ELSE ValueAt(x.inter, k)
    BY <1>8 DEF OpAt
  <2>2. \A k \in Int : In(k, mid) => ValueAt(x.inter, k) = NoValue
    BY <1>1, <1>5
  <2>3. \A k \in Int : In(k, mid) => inplace_caret(v, ValueAt(M, k)) = w
    BY <1>4 DEF w
  <2> QED BY <1>1, <1>5, <2>1, <2>2, <2>3, CellAdd
<1>12. FlippingMap(tr, M, i, v, y, g, U \ {cur})
  BY <1>1, <1>2, <1>3, <1>5, <1>9, <1>10, <1>11 DEF FlippingMap
<1> QED BY <1>12 DEF y, g

\* flip rewrites the keys that had a value: it erases them and adds inter.
LEMMA FlipRewriteIs ==
  ASSUME NEW tr, NEW M, NEW K, NEW T
  PROVE  FlipRewrite(tr, M, K, T) = AddMap(tr, EraseKeys(M, K), T)
BY Zenon DEF FlipRewrite, AddMap, EraseKeys

\* What is left of i behind its last segment gets the value, and the keys that had
\* one are rewritten.
LEMMA FlipEnds ==
  ASSUME NEW tr, NEW M, Mapped(M), NEW i, Proper(i), NEW v \in SUBSET Values,
         NEW x, NEW f, FlippingMap(tr, M, i, v, x, f, {})
  PROVE  OpAt("flip", tr, M, i, v, FlipRest(tr, v, x))
<1> DEFINE A == AddSegment(tr, x.M, seg(x.span, v))
           B == EraseKeys(A, x.eraser)
           H == FlipRest(tr, v, x)
<1>1. /\ Walks(x.span, f, M, i, {})
      /\ MapFit(tr, x.M) /\ Fit("joining", x.eraser) /\ MapFit(tr, x.inter)
      /\ \A e \in Int : ValueAt(x.M, e) = IF Missed(M, i, f, e) THEN Kept(tr, v) ELSE ValueAt(M, e)
      /\ \A e \in Int : Has(x.eraser, e) <=> Met(M, i, f, e)
      /\ \A e \in Int : ValueAt(x.inter, e) =
           IF Met(M, i, f, e) THEN Kept(tr, inplace_caret(v, ValueAt(M, e))) ELSE NoValue
  BY DEF FlippingMap
<1>2. /\ x.span \in Interval
      /\ \A k \in Int : In(k, x.span) <=> In(k, i) /\ ~ (k < f)
      /\ \A k \in Int : In(k, x.span) => ValueAt(M, k) = NoValue
  BY <1>1, WalkEnds
<1>3. H = AddMap(tr, B, x.inter)
  BY FlipRewriteIs DEF FlipRest
<1>4. seg(x.span, v) \in SegmentType /\ seg(x.span, v).itv = x.span /\ seg(x.span, v).val = v
  BY <1>2, SegTyped
<1>5. OpAt("add", tr, x.M, x.span, v, A)
  BY <1>1, <1>4, AddSegmentIs
<1> HIDE DEF A, H
<1>6. /\ MapFit(tr, A)
      /\ \A e \in Int : ValueAt(A, e) = IF In(e, i) /\ ValueAt(M, e) = NoValue
                                        THEN Kept(tr, v) ELSE ValueAt(M, e)
  <2>1. /\ MapFit(tr, A)
        /\ \A k \in Int : ValueAt(A, k) = IF In(k, x.span) THEN cell("add", tr, ValueAt(x.M, k), v)
                                                           ELSE ValueAt(x.M, k)
    BY <1>5 DEF OpAt
  <2>2. \A k \in Int : In(k, x.span) => ValueAt(x.M, k) = NoValue
    BY <1>1, <1>2 DEF Missed
  <2>3. \A k \in Int : ValueAt(A, k) = IF In(k, x.span) THEN Kept(tr, v) ELSE ValueAt(x.M, k)
    BY <2>1, <2>2, CellAdd
  <2> QED BY <1>1, <1>2, <2>1, <2>3 DEF Missed
<1>7. /\ MapFit(tr, B)
      /\ \A e \in Int : ValueAt(B, e) = IF Has(x.eraser, e) THEN NoValue ELSE ValueAt(A, e)
  BY <1>1, <1>6, EraseKeysIs DEF Fit
<1> HIDE DEF B
<1>8. OpWith("add", tr, B, x.inter, H)
  BY <1>1, <1>3, <1>7, MapOpsAre DEF MapFit
<1>9. /\ MapFit(tr, H)
      /\ \A e \in Int : ValueAt(H, e) = IF ValueAt(x.inter, e) # NoValue
                                        THEN cell("add", tr, ValueAt(B, e), ValueAt(x.inter, e))
                                        ELSE ValueAt(B, e)
  BY <1>8 DEF OpWith
<1>10. ASSUME NEW e \in Int
       PROVE  ValueAt(H, e) = IF In(e, i) THEN cell_flip(tr, ValueAt(M, e), v) ELSE ValueAt(M, e)
  <2>1. CASE Met(M, i, f, e)
    <3> DEFINE k == Kept(tr, inplace_caret(v, ValueAt(M, e)))
    <3>1. ValueAt(B, e) = NoValue /\ ValueAt(x.inter, e) = k
      BY <1>1, <1>7, <2>1
    <3>2. Kept(tr, k) = k /\ \A u : cell("add", tr, NoValue, u) = Kept(tr, u)
      BY CellAdd
    <3> HIDE DEF k
    <3>3. ValueAt(H, e) = k
      BY <1>9, <3>1, <3>2
    <3>4. In(e, i) /\ ValueAt(M, e) # NoValue
      BY <2>1 DEF Met
    <3>5. cell_flip(tr, ValueAt(M, e), v) = k
      <4>1. inplace_caret(v, ValueAt(M, e)) = (ValueAt(M, e) \ v) \cup (v \ ValueAt(M, e))
        BY DEF inplace_caret
      <4> QED BY <3>4, <4>1 DEF cell_flip, k
    <3> QED BY <3>3, <3>4, <3>5
  <2>2. CASE ~ Met(M, i, f, e)
    <3>1. ValueAt(H, e) = ValueAt(A, e)
      BY <1>1, <1>7, <1>9, <2>2
    <3>2. ~ (In(e, i) /\ ValueAt(M, e) # NoValue)
      BY <1>2, <2>2 DEF Met
    <3> QED BY <1>6, <3>1, <3>2 DEF cell_flip
  <2> QED BY <2>1, <2>2
<1>11. \A c : cell("flip", tr, c, v) = cell_flip(tr, c, v)
  BY DEF cell
<1>12. OpAt("flip", tr, M, i, v, H)
  BY <1>9, <1>10, <1>11 DEF OpAt
<1> QED BY <1>12 DEF H

\* What the loop of flip passes through.
FlipMapStates(tr) ==
  [M : FitMaps(tr), span : Interval, eraser : FitSets("joining"), inter : FitMaps(tr)]

\* A step of the loop keeps to it.
LEMMA FlipStepTyped ==
  ASSUME NEW tr, NEW v \in SUBSET Values, NEW x \in FlipMapStates(tr), NEW cur \in Wholes
  PROVE  FlipStep(tr, v, x, cur) \in FlipMapStates(tr)
<1> DEFINE gap == left_over_of(x.span, cur.itv)
           mid == common(x.span, cur.itv)
           r == right_over_of(x.span, cur.itv)
           w == inplace_caret(v, cur.val)
<1>1. /\ x.M \in FitMaps(tr) /\ x.span \in Interval /\ x.eraser \in FitSets("joining")
      /\ x.inter \in FitMaps(tr)
  BY DEF FlipMapStates
<1>2. cur.itv \in Interval /\ cur.val \in SUBSET Values
  BY DEF Wholes, SegmentType
<1>3. gap \in Interval /\ mid \in Interval /\ r \in Interval
  BY <1>1, <1>2, OperationsTyped
<1>4. w \in SUBSET Values
  BY <1>2, CaretTyped
<1>5. FlipStep(tr, v, x, cur) =
        [M |-> AddSegment(tr, x.M, seg(gap, v)), span |-> r,
         eraser |-> AddInterval("joining", x.eraser, mid),
         inter |-> AddSegment(tr, x.inter, seg(mid, w))]
  BY DEF FlipStep
<1> HIDE DEF gap, mid, r, w
<1>6. seg(gap, v) \in SegmentType /\ seg(mid, w) \in SegmentType
  BY <1>3, <1>4, SegTyped
<1>7. MapFit(tr, x.M) /\ MapFit(tr, x.inter) /\ Fit("joining", x.eraser)
  BY <1>1, FitMapsAre, FitIs
<1>8. AddSegment(tr, x.M, seg(gap, v)) \in FitMaps(tr) /\ AddSegment(tr, x.inter, seg(mid, w)) \in FitMaps(tr)
  BY <1>6, <1>7, AddSegmentIs, FitMapsAre DEF OpAt
<1>9. AddInterval("joining", x.eraser, mid) \in FitSets("joining")
  <2>1. "joining" \in Styles
    BY DEF Styles
  <2> QED BY <1>3, <1>7, <2>1, AddIs, FitIs
<1> QED BY <1>3, <1>5, <1>8, <1>9 DEF FlipMapStates

\* What the loop of flip leaves.
FlipPassed(tr, M, sg) ==
  ForSegments(LAMBDA x, cur : FlipStep(tr, sg.val, x, cur),
              [M |-> M, span |-> sg.itv, eraser |-> {}, inter |-> {}], overlap(M, sg.itv))

\* flip is the loop and what follows it.
LEMMA FlipIsLoop ==
  ASSUME NEW tr, NEW M, NEW sg
  PROVE  FlipSegment(tr, M, sg) = FlipRest(tr, sg.val, FlipPassed(tr, M, sg))
BY Zenon DEF FlipSegment, FlipPassed

\* The states h of the loop of flip.
FlipRuns(tr, M, sg, q) ==
  \E h \in [0 .. Len(q) -> FlipMapStates(tr)] :
    /\ h[0] = [M |-> M, span |-> sg.itv, eraser |-> {}, inter |-> {}]
    /\ h[Len(q)] = FlipPassed(tr, M, sg)
    /\ \A k \in 1 .. Len(q) : h[k] = FlipStep(tr, sg.val, h[k - 1], q[k]) /\ q[k] \in Wholes

\* The loop of flip: every pass is FlipStep.
LEMMA FlipLoop ==
  ASSUME NEW tr, NEW M, NEW sg, sg.val \in SUBSET Values,
         [M |-> M, span |-> sg.itv, eraser |-> {}, inter |-> {}] \in FlipMapStates(tr), NEW q \in Seq(Wholes), q = SegmentsInOrder(overlap(M, sg.itv))
  PROVE  FlipRuns(tr, M, sg, q)
<1> DEFINE D == FlipMapStates(tr)
           Q == Wholes
           g == [p \in D \X Q |-> FlipStep(tr, sg.val, p[1], p[2])]
           iter == CHOOSE it : it = [s \in SUBSET DOMAIN q |->
                     IF s = {} THEN [M |-> M, span |-> sg.itv, eraser |-> {}, inter |-> {}] ELSE FlipStep(tr, sg.val, it[s \ {Max(s)}], q[Max(s)])]
<1>0. [M |-> M, span |-> sg.itv, eraser |-> {}, inter |-> {}] \in D /\ q \in Seq(Q)
  OBVIOUS
<1>1. ASSUME NEW y \in D, NEW t \in Q
      PROVE  FlipStep(tr, sg.val, y, t) \in D
  BY <1>1, FlipStepTyped
<1>2. g \in [D \X Q -> D]
  <2>1. \A p \in D \X Q : FlipStep(tr, sg.val, p[1], p[2]) \in D
    BY <1>1
  <2> QED BY <2>1, Zenon
<1>3. \A y \in D, t \in Q : g[<<y, t>>] = FlipStep(tr, sg.val, y, t)
  <2> HIDE DEF D, Q
  <2> QED OBVIOUS
<1> HIDE DEF g, D, Q
<1>4. PICK it \in [SUBSET DOMAIN q -> D] : Solves(it, D, Q, g, [M |-> M, span |-> sg.itv, eraser |-> {}, inter |-> {}], q)
  BY <1>0, <1>2, FoldSolved
<1>5. it = [s \in SUBSET DOMAIN q |->
              IF s = {} THEN [M |-> M, span |-> sg.itv, eraser |-> {}, inter |-> {}] ELSE FlipStep(tr, sg.val, it[s \ {Max(s)}], q[Max(s)])]
  <2>1. \A s \in SUBSET DOMAIN q :
          it[s] = IF s = {} THEN [M |-> M, span |-> sg.itv, eraser |-> {}, inter |-> {}] ELSE FlipStep(tr, sg.val, it[s \ {Max(s)}], q[Max(s)])
    <3>1. it[{}] = [M |-> M, span |-> sg.itv, eraser |-> {}, inter |-> {}]
      BY <1>4 DEF Solves
    <3>2. ASSUME NEW s \in SUBSET DOMAIN q, s # {}
          PROVE  it[s] = FlipStep(tr, sg.val, it[s \ {Max(s)}], q[Max(s)])
      <4>1. /\ it[s \ {Max(s)}] \in D /\ q[Max(s)] \in Q
            /\ it[s] = g[<<it[s \ {Max(s)}], q[Max(s)]>>]
        BY <1>4, <3>2 DEF Solves
      <4> QED BY <1>3, <4>1
    <3> QED BY <3>1, <3>2
  <2>2. it = [s \in SUBSET DOMAIN q |-> it[s]]
    OBVIOUS
  <2> QED BY <2>1, <2>2, Zenon
<1>6. iter = [s \in SUBSET DOMAIN q |->
                IF s = {} THEN [M |-> M, span |-> sg.itv, eraser |-> {}, inter |-> {}] ELSE FlipStep(tr, sg.val, iter[s \ {Max(s)}], q[Max(s)])]
  BY <1>5, Zenon
<1>7. iter[DOMAIN q] = FlipPassed(tr, M, sg)
  BY Zenon DEF FlipPassed, ForSegments, FoldLeft, MapThenFoldSet
<1> HIDE DEF iter
<1>8. \A s \in SUBSET DOMAIN q :
        iter[s] = IF s = {} THEN [M |-> M, span |-> sg.itv, eraser |-> {}, inter |-> {}] ELSE FlipStep(tr, sg.val, iter[s \ {Max(s)}], q[Max(s)])
  BY <1>6
<1>9. SolvesWithin(iter, D, g, [M |-> M, span |-> sg.itv, eraser |-> {}, inter |-> {}], q)
  <2>1. iter[{}] = [M |-> M, span |-> sg.itv, eraser |-> {}, inter |-> {}]
    BY <1>8
  <2>2. ASSUME NEW s \in SUBSET DOMAIN q, s # {}, iter[s \ {Max(s)}] \in D
        PROVE  iter[s] = g[<<iter[s \ {Max(s)}], q[Max(s)]>>]
    <3>1. q[Max(s)] \in Q
      BY <1>4, <2>2 DEF Solves
    <3>2. g[<<iter[s \ {Max(s)}], q[Max(s)]>>] = FlipStep(tr, sg.val, iter[s \ {Max(s)}], q[Max(s)])
      BY <1>3, <2>2, <3>1
    <3>3. iter[s] = FlipStep(tr, sg.val, iter[s \ {Max(s)}], q[Max(s)])
      BY <1>8, <2>2
    <3> QED BY <3>2, <3>3
  <2> QED BY <2>1, <2>2 DEF SolvesWithin
<1>10. PICK h \in [0 .. Len(q) -> D] : Passes(h, Q, g, [M |-> M, span |-> sg.itv, eraser |-> {}, inter |-> {}], q, iter[DOMAIN q])
  BY <1>0, <1>2, <1>9, FoldStates
<1>11. ASSUME NEW k \in 1 .. Len(q)
       PROVE  h[k] = FlipStep(tr, sg.val, h[k - 1], q[k]) /\ q[k] \in Q
  <2>1. h[k - 1] \in D
    <3>1. k - 1 \in 0 .. Len(q)
      <4>1. Len(q) \in Nat
        BY <1>0, LenProperties
      <4> QED BY <4>1, PassBefore
    <3>2. \A j \in 0 .. Len(q) : h[j] \in D
      BY <1>10
    <3> QED BY <3>1, <3>2
  <2> QED BY <1>3, <1>10, <2>1 DEF Passes
<1> QED BY <1>7, <1>10, <1>11 DEF D, Q, Passes, FlipRuns


\* What the loop of flip comes to.
FlippedSoFar(tr, M, i, v, x, U) == \E f : FlippingMap(tr, M, i, v, x, f, U)

\* The loop of flip passes every segment.
LEMMA FlipLoopPasses ==
  ASSUME NEW tr, NEW M, Mapped(M), NEW i, Proper(i), NEW v \in SUBSET Values,
         NEW E, Mapped(E),
         NEW q, q = SegmentsInOrder(E), NEW h, FlippedSoFar(tr, M, i, v, h[0], E),
         \A k \in 1 .. Len(q) : h[k] = FlipStep(tr, v, h[k - 1], q[k])
  PROVE  FlippedSoFar(tr, M, i, v, h[Len(q)], {})
<1> DEFINE n == Len(q)
           U(k) == Rest(q, k)
           R(k) == FlippedSoFar(tr, M, i, v, h[k], U(k))
           P == [k \in 0 .. n |-> R(k)]
<1>1. q \in Seq(E) /\ n \in Nat
  BY SegmentsIterated
<1>2. /\ U(0) = E /\ U(n) = {}
      /\ \A k \in 1 .. n : Foremost(q[k], U(k - 1)) /\ U(k) = U(k - 1) \ {q[k]}
  BY SegmentsRest DEF Foremost
<1>6. P \in [0 .. n -> BOOLEAN] /\ \A k \in 0 .. n : P[k] <=> R(k)
  BY DEF FlippedSoFar
<1> HIDE DEF P, n, U
<1>7. P[0]
  <2>1. R(0)
    BY <1>2
  <2>2. 0 \in 0 .. n
    BY <1>1
  <2> HIDE DEF R
  <2> QED BY <1>6, <2>1, <2>2
<1>8. ASSUME NEW k \in 1 .. n, P[k - 1]
      PROVE  P[k]
  <2>1. k - 1 \in 0 .. n /\ k \in 0 .. n
    BY <1>1
  <2>2. R(k - 1)
    BY <1>6, <1>8, <2>1
  <2>3. PICK f : FlippingMap(tr, M, i, v, h[k - 1], f, U(k - 1))
    BY <2>2 DEF FlippedSoFar
  <2>4. Foremost(q[k], U(k - 1)) /\ U(k) = U(k - 1) \ {q[k]}
    BY <1>2
  <2>5. FlippingMap(tr, M, i, v, FlipStep(tr, v, h[k - 1], q[k]), After(q[k], i), U(k - 1) \ {q[k]})
    BY <2>3, <2>4, FlipGoesOn
  <2>6. h[k] = FlipStep(tr, v, h[k - 1], q[k])
    BY DEF n
  <2>7. R(k)
    BY <2>4, <2>5, <2>6 DEF FlippedSoFar
  <2> HIDE DEF R
  <2> QED BY <1>6, <2>1, <2>7
<1>9. R(n)
  <2>1. n \in 0 .. n
    BY <1>1
  <2>2. P[n]
    BY <1>1, <1>6, <1>7, <1>8, <2>1, Upwards
  <2> HIDE DEF R
  <2> QED BY <1>6, <2>1, <2>2
<1> QED BY <1>2, <1>9 DEF n

\* flip of a segment is that of icl::map at each of its keys.
LEMMA FlipSegmentIs ==
  ASSUME NEW tr, NEW M, MapFit(tr, M), NEW s \in SegmentType, ~ is_empty(s.itv)
  PROVE  OpAt("flip", tr, M, s.itv, s.val, FlipSegment(tr, M, s))
<1> DEFINE i == s.itv
           v == s.val
           E == overlap(M, i)
           x == [M |-> M, span |-> i, eraser |-> {}, inter |-> {}]
           q == SegmentsInOrder(E)
<1>1. Mapped(M)
  BY DEF MapFit
<1>2. Proper(i) /\ i \in Interval /\ v \in SUBSET Values /\ first(i) \in Int
  BY ProperIs, ProperEnds DEF SegmentType
<1>4. /\ E \in SUBSET M /\ Mapped(E)
      /\ \A t \in M : t \in E <=> Lo(t) <= last(i) /\ first(i) <= Hi(t)
  BY <1>1, <1>2, OverlapIs
<1>5. /\ MapFit(tr, {}) /\ \A e \in Int : ValueAt({}, e) = NoValue
      /\ Fit("joining", {}) /\ \A e \in Int : ~ Has({}, e)
  BY NoSegmentsFit, NoneIsFit DEF Has
<1>x. x.M = M /\ x.span = i /\ x.eraser = {} /\ x.inter = {}
  OBVIOUS
<1>3. x \in FlipMapStates(tr)
  <2>1. M \in FitMaps(tr) /\ {} \in FitMaps(tr) /\ {} \in FitSets("joining")
    BY <1>5, FitMapsAre, FitIs
  <2> QED BY <1>2, <2>1 DEF FlipMapStates
<1>6. FlippingMap(tr, M, i, v, x, first(i), E)
  <2>1. Walks(i, first(i), M, i, E)
    BY <1>1, <1>2, WalkBegins
  <2>2. \A k \in Int : ~ (In(k, i) /\ k < first(i))
    BY <1>2 DEF In
  <2>3. \A k \in Int : ~ Met(M, i, first(i), k) /\ ~ Missed(M, i, first(i), k)
    BY <2>2 DEF Met, Missed
  <2> HIDE DEF x, E
  <2> QED BY <1>5, <1>x, <2>1, <2>3 DEF FlippingMap
<1>7. q \in Seq(Wholes)
  BY <1>4, ListOfWholes
<1>8. FlipRuns(tr, M, s, q)
  BY <1>2, <1>3, <1>7, FlipLoop
<1> HIDE DEF x, q
<1>9. PICK h \in [0 .. Len(q) -> FlipMapStates(tr)] :
        /\ h[0] = x
        /\ FlipPassed(tr, M, s) = h[Len(q)]
        /\ \A k \in 1 .. Len(q) : h[k] = FlipStep(tr, s.val, h[k - 1], q[k]) /\ q[k] \in Wholes
  BY <1>8 DEF FlipRuns, x
<1>10. FlippedSoFar(tr, M, i, v, h[Len(q)], {})
  <2>1. FlippedSoFar(tr, M, i, v, h[0], E)
    BY <1>6, <1>9 DEF FlippedSoFar
  <2>2. \A k \in 1 .. Len(q) : h[k] = FlipStep(tr, v, h[k - 1], q[k])
    BY <1>9
  <2>3. q = SegmentsInOrder(E)
    BY DEF q
  <2> HIDE DEF E, i, v
  <2> QED BY <1>1, <1>2, <1>4, <2>1, <2>2, <2>3, FlipLoopPasses
<1>11. PICK f : FlippingMap(tr, M, i, v, h[Len(q)], f, {})
  BY <1>10 DEF FlippedSoFar
<1>12. OpAt("flip", tr, M, i, v, FlipRest(tr, v, h[Len(q)]))
  BY <1>1, <1>2, <1>11, FlipEnds
<1>13. FlipSegment(tr, M, s) = FlipRest(tr, v, h[Len(q)])
  BY <1>9, FlipIsLoop
<1> QED BY <1>12, <1>13

\* A step of the loop of operator ^=: what is out of reach of the map is added.
FlipMapStep(tr, C, x, t) ==
  IF t \in C THEN FlipSegment(tr, x, t) ELSE AddSegment(tr, x, t)

\* operator ^= is a loop of such steps.
FlipMapLoopOf(tr, M, T, C) == ForSegments(LAMBDA x, t : FlipMapStep(tr, C, x, t), M, T)

\* The operation is its loop.
LEMMA FlipMapIsLoop ==
  ASSUME NEW tr, NEW M, NEW T
  PROVE  FlipMap(tr, M, T) = FlipMapLoopOf(tr, M, T, map_common_range(T, M))
BY Zenon DEF FlipMap, FlipMapLoopOf, FlipMapStep

\* The step keeps to maps that fit the type.
LEMMA FlipMapStepFits ==
  ASSUME NEW tr, NEW C, NEW M \in FitMaps(tr), NEW t \in Wholes
  PROVE  FlipMapStep(tr, C, M, t) \in FitMaps(tr)
<1>1. MapFit(tr, M) /\ t \in SegmentType /\ ~ is_empty(t.itv)
  BY FitMapsAre, ProperEnds DEF Wholes
<1>2. OpAt("flip", tr, M, t.itv, t.val, FlipSegment(tr, M, t))
  BY <1>1, FlipSegmentIs
<1>3. OpAt("add", tr, M, t.itv, t.val, AddSegment(tr, M, t))
  BY <1>1, AddSegmentIs
<1> QED BY <1>2, <1>3, FitMapsAre DEF OpAt, FlipMapStep

\* The states h of the loop of operator ^=.
FlipMapRuns(tr, M, T, C, q) ==
  \E h \in [0 .. Len(q) -> FitMaps(tr)] :
    /\ h[0] = M
    /\ h[Len(q)] = FlipMapLoopOf(tr, M, T, C)
    /\ \A k \in 1 .. Len(q) : h[k] = FlipMapStep(tr, C, h[k - 1], q[k]) /\ q[k] \in Wholes

\* The loop of operator ^=.
LEMMA FlipMapLoop ==
  ASSUME NEW tr, NEW M, NEW T, NEW C,
         M \in FitMaps(tr), NEW q \in Seq(Wholes), q = SegmentsInOrder(T)
  PROVE  FlipMapRuns(tr, M, T, C, q)
<1> DEFINE D == FitMaps(tr)
           Q == Wholes
           g == [p \in D \X Q |-> FlipMapStep(tr, C, p[1], p[2])]
           iter == CHOOSE it : it = [s \in SUBSET DOMAIN q |->
                     IF s = {} THEN M ELSE FlipMapStep(tr, C, it[s \ {Max(s)}], q[Max(s)])]
<1>0. M \in D /\ q \in Seq(Q)
  OBVIOUS
<1>1. ASSUME NEW y \in D, NEW t \in Q
      PROVE  FlipMapStep(tr, C, y, t) \in D
  BY <1>1, FlipMapStepFits
<1>2. g \in [D \X Q -> D]
  <2>1. \A p \in D \X Q : FlipMapStep(tr, C, p[1], p[2]) \in D
    BY <1>1
  <2> QED BY <2>1, Zenon
<1>3. \A y \in D, t \in Q : g[<<y, t>>] = FlipMapStep(tr, C, y, t)
  <2> HIDE DEF D, Q
  <2> QED OBVIOUS
<1> HIDE DEF g, D, Q
<1>4. PICK it \in [SUBSET DOMAIN q -> D] : Solves(it, D, Q, g, M, q)
  BY <1>0, <1>2, FoldSolved
<1>5. it = [s \in SUBSET DOMAIN q |->
              IF s = {} THEN M ELSE FlipMapStep(tr, C, it[s \ {Max(s)}], q[Max(s)])]
  <2>1. \A s \in SUBSET DOMAIN q :
          it[s] = IF s = {} THEN M ELSE FlipMapStep(tr, C, it[s \ {Max(s)}], q[Max(s)])
    <3>1. it[{}] = M
      BY <1>4 DEF Solves
    <3>2. ASSUME NEW s \in SUBSET DOMAIN q, s # {}
          PROVE  it[s] = FlipMapStep(tr, C, it[s \ {Max(s)}], q[Max(s)])
      <4>1. /\ it[s \ {Max(s)}] \in D /\ q[Max(s)] \in Q
            /\ it[s] = g[<<it[s \ {Max(s)}], q[Max(s)]>>]
        BY <1>4, <3>2 DEF Solves
      <4> QED BY <1>3, <4>1
    <3> QED BY <3>1, <3>2
  <2>2. it = [s \in SUBSET DOMAIN q |-> it[s]]
    OBVIOUS
  <2> QED BY <2>1, <2>2, Zenon
<1>6. iter = [s \in SUBSET DOMAIN q |->
                IF s = {} THEN M ELSE FlipMapStep(tr, C, iter[s \ {Max(s)}], q[Max(s)])]
  BY <1>5, Zenon
<1>7. iter[DOMAIN q] = FlipMapLoopOf(tr, M, T, C)
  BY Zenon DEF FlipMapLoopOf, ForSegments, FoldLeft, MapThenFoldSet
<1> HIDE DEF iter
<1>8. \A s \in SUBSET DOMAIN q :
        iter[s] = IF s = {} THEN M ELSE FlipMapStep(tr, C, iter[s \ {Max(s)}], q[Max(s)])
  BY <1>6
<1>9. SolvesWithin(iter, D, g, M, q)
  <2>1. iter[{}] = M
    BY <1>8
  <2>2. ASSUME NEW s \in SUBSET DOMAIN q, s # {}, iter[s \ {Max(s)}] \in D
        PROVE  iter[s] = g[<<iter[s \ {Max(s)}], q[Max(s)]>>]
    <3>1. q[Max(s)] \in Q
      BY <1>4, <2>2 DEF Solves
    <3>2. g[<<iter[s \ {Max(s)}], q[Max(s)]>>] = FlipMapStep(tr, C, iter[s \ {Max(s)}], q[Max(s)])
      BY <1>3, <2>2, <3>1
    <3>3. iter[s] = FlipMapStep(tr, C, iter[s \ {Max(s)}], q[Max(s)])
      BY <1>8, <2>2
    <3> QED BY <3>2, <3>3
  <2> QED BY <2>1, <2>2 DEF SolvesWithin
<1>10. PICK h \in [0 .. Len(q) -> D] : Passes(h, Q, g, M, q, iter[DOMAIN q])
  BY <1>0, <1>2, <1>9, FoldStates
<1>11. ASSUME NEW k \in 1 .. Len(q)
       PROVE  h[k] = FlipMapStep(tr, C, h[k - 1], q[k]) /\ q[k] \in Q
  <2>1. h[k - 1] \in D
    <3>1. k - 1 \in 0 .. Len(q)
      <4>1. Len(q) \in Nat
        BY <1>0, LenProperties
      <4> QED BY <4>1, PassBefore
    <3>2. \A j \in 0 .. Len(q) : h[j] \in D
      BY <1>10
    <3> QED BY <3>1, <3>2
  <2> QED BY <1>3, <1>10, <2>1 DEF Passes
<1> QED BY <1>7, <1>10, <1>11 DEF D, Q, Passes, FlipMapRuns


\* operator ^= does with each key of T what icl::map does: a segment that is out of
\* reach of M has no key of it, so that adding it is flipping it.
LEMMA FlipMapIs ==
  ASSUME NEW tr, NEW M, MapFit(tr, M), NEW T, Mapped(T)
  PROVE  OpWith("flip", tr, M, T, FlipMap(tr, M, T))
<1> DEFINE C == map_common_range(T, M)
           q == SegmentsInOrder(T)
           c == IntervalsOf(q)
           r == [e \in Int |-> cell_flip(tr, ValueAt(M, e), ValueAt(T, e))]
           H == FlipMap(tr, M, T)
<1>m. Mapped(M)
  BY DEF MapFit
<1>0. \A t \in T, e \in Int : Within(e, t) /\ ValueAt(M, e) # NoValue => t \in C
  BY <1>m, MapCommonRangeIs
<1>1. q \in Seq(Wholes) /\ M \in FitMaps(tr)
  BY ListOfWholes, FitMapsAre
<1>2. FlipMapRuns(tr, M, T, C, q)
  BY <1>1, FlipMapLoop
<1>l. H = FlipMapLoopOf(tr, M, T, C)
  BY FlipMapIsLoop
<1> HIDE DEF C, H
<1>3. PICK h \in [0 .. Len(q) -> FitMaps(tr)] :
        /\ h[0] = M
        /\ H = h[Len(q)]
        /\ \A k \in 1 .. Len(q) : h[k] = FlipMapStep(tr, C, h[k - 1], q[k]) /\ q[k] \in Wholes
  BY <1>2, <1>l DEF FlipMapRuns
<1>4. /\ Len(q) \in Nat /\ Disjoint(c, Len(q))
      /\ \A k \in 1 .. Len(q) : q[k] \in T /\ c[k] = q[k].itv
      /\ \A e \in Int : (\E j \in 1 .. Len(q) : In(e, c[j])) <=> ValueAt(T, e) # NoValue
  BY IntervalsInOrder
<1>r. \A e \in Int : r[e] = cell_flip(tr, ValueAt(M, e), ValueAt(T, e))
  OBVIOUS
<1>f. \A d, v : cell("flip", tr, d, v) = cell_flip(tr, d, v)
  BY DEF cell
<1>n. \A v : cell_flip(tr, NoValue, v) = Kept(tr, v)
  BY DEF cell_flip
<1> HIDE DEF q, c, r
<1>5. ASSUME NEW k \in 1 .. Len(q)
      PROVE  Touches(tr, h[0], h[k - 1], c[k], r, h[k])
  <2> DEFINE x == h[k - 1]
             s == q[k]
  <2> SUFFICES ASSUME MapFit(tr, x), \A e \in Int : In(e, c[k]) => ValueAt(x, e) = ValueAt(h[0], e)
               PROVE  /\ MapFit(tr, h[k])
                      /\ \A e \in Int : ValueAt(h[k], e) = IF In(e, c[k]) THEN r[e] ELSE ValueAt(x, e)
    BY DEF Touches
  <2>1. s \in SegmentType /\ s \in T /\ c[k] = s.itv /\ ~ is_empty(s.itv)
    BY <1>3, <1>4, ProperEnds DEF Wholes
  <2>2. h[k] = FlipMapStep(tr, C, x, s)
    BY <1>3
  <2> HIDE DEF x, s
  <2>3. \A e \in Int : In(e, s.itv) => ValueAt(T, e) = s.val
    BY <2>1, ValueIn DEF In, Lo, Hi
  <2>4. CASE s \in C
    <3>1. OpAt("flip", tr, x, s.itv, s.val, h[k])
      BY <2>1, <2>2, <2>4, FlipSegmentIs DEF FlipMapStep
    <3> QED BY <1>3, <1>f, <1>r, <2>1, <2>3, <3>1 DEF OpAt
  <2>5. CASE s \notin C
    <3>1. OpAt("add", tr, x, s.itv, s.val, h[k])
      BY <2>1, <2>2, <2>5, AddSegmentIs DEF FlipMapStep
    <3>2. \A e \in Int : In(e, s.itv) => ValueAt(M, e) = NoValue /\ ValueAt(x, e) = NoValue
      BY <1>0, <1>3, <2>1, <2>5 DEF In, Within, Lo, Hi
    <3> QED BY <1>n, <1>r, <2>1, <2>3, <3>1, <3>2, CellAdd DEF OpAt
  <2> QED BY <2>4, <2>5
<1>6. MapFit(tr, h[0])
  BY <1>3
<1>7. TouchedBy(tr, h[0], c, Len(q), r, h[Len(q)])
  BY <1>4, <1>5, <1>6, TouchedOnce
<1>8. /\ MapFit(tr, H)
      /\ \A e \in Int : ValueAt(H, e) = IF ValueAt(T, e) # NoValue THEN r[e] ELSE ValueAt(M, e)
  BY <1>3, <1>4, <1>7 DEF TouchedBy
<1>9. OpWith("flip", tr, M, T, H)
  BY <1>8, <1>f, <1>r DEF OpWith
<1> QED BY <1>9 DEF H

-----------------------------------------------------------------------------
(***************************************************************************)
(* join of a map.                                                          *)
(***************************************************************************)

\* The segments of a map in order, with their ends.
LEMMA SegmentsListed ==
  ASSUME NEW M, Mapped(M), NEW q, q = SegmentsInOrder(M)
  PROVE  /\ q \in Seq(M) /\ Len(q) \in Nat /\ DOMAIN q = 1 .. Len(q)
         /\ \A j, k \in 1 .. Len(q) : j < k => Hi(q[j]) < Lo(q[k])
         /\ \A s \in M : \E k \in 1 .. Len(q) : q[k] = s
         /\ \A k \in 1 .. Len(q) :
              /\ q[k] \in M /\ Whole(q[k]) /\ q[k] \in Wholes
              /\ Proper(q[k].itv) /\ q[k].val \in SUBSET Values
              /\ Lo(q[k]) \in Int /\ Hi(q[k]) \in Int /\ Lo(q[k]) <= Hi(q[k])
         /\ M # {} => Len(q) # 0 /\ q # <<>>
         /\ M = {} => q = <<>>
<1>1. /\ q \in Seq(M) /\ Len(q) \in Nat /\ Len(q) = Cardinality(M)
      /\ \A j, k \in 1 .. Len(q) : j < k <=> Hi(q[j]) < Lo(q[k])
      /\ \A s \in M : \E k \in 1 .. Len(q) : q[k] = s
  BY SegmentsIterated
<1>2. \A k \in 1 .. Len(q) : q[k] \in M
  BY <1>1
<1>3. \A k \in 1 .. Len(q) :
        /\ q[k] \in M /\ Whole(q[k]) /\ q[k] \in Wholes
        /\ Proper(q[k].itv) /\ q[k].val \in SUBSET Values
        /\ Lo(q[k]) \in Int /\ Hi(q[k]) \in Int /\ Lo(q[k]) <= Hi(q[k])
  BY <1>2, MapEnds DEF Whole, Wholes
<1>4. DOMAIN q = 1 .. Len(q)
  BY <1>1
<1>5. M # {} => Len(q) # 0 /\ q # <<>>
  BY <1>1
<1>6. M = {} => q = <<>>
  <2>1. ASSUME M = {}
        PROVE  q = <<>>
    <3>1. Len(q) = 0
      BY <1>1, <2>1, FS_EmptySet
    <3> QED BY <1>1, <3>1
  <2> QED BY <2>1
<1> QED BY <1>1, <1>3, <1>4, <1>5, <1>6

\* A step of the loop of join, which stands at the k-th segment.
MapJoinStep(q, x, k) ==
  IF k < Len(q) /\ joinable(q[k], q[k + 1]) THEN x
  ELSE [kept |-> x.kept \cup
          {IF x.fst_mem = q[k] THEN q[k]
           ELSE seg(hull_of(q[k].itv, x.fst_mem.itv), q[k].val)},
        fst_mem |-> IF k < Len(q) THEN q[k + 1] ELSE x.fst_mem]

\* What the loop passes through.
MapJoinStates == [kept : SUBSET Wholes, fst_mem : Wholes]

\* The step returns one of them.
LEMMA MapJoinStepTyped ==
  ASSUME NEW M, Mapped(M), NEW x \in MapJoinStates, NEW k \in DOMAIN SegmentsInOrder(M)
  PROVE  MapJoinStep(SegmentsInOrder(M), x, k) \in MapJoinStates
<1> DEFINE q == SegmentsInOrder(M)
           h == seg(hull_of(q[k].itv, x.fst_mem.itv), q[k].val)
           fst == x.fst_mem
<1>1. /\ DOMAIN q = 1 .. Len(q) /\ Len(q) \in Nat
      /\ \A j \in 1 .. Len(q) : q[j] \in Wholes /\ Proper(q[j].itv) /\ q[j].val \in SUBSET Values
  BY SegmentsListed
<1>2. x.kept \in SUBSET Wholes /\ fst \in Wholes /\ Proper(fst.itv)
  BY DEF MapJoinStates, Wholes
<1> HIDE DEF q
<1>3. /\ q[k] \in Wholes /\ Proper(q[k].itv) /\ q[k].val \in SUBSET Values
      /\ k < Len(q) => q[k + 1] \in Wholes
  BY <1>1 DEF q
<1>4. Proper(hull_of(q[k].itv, fst.itv))
  BY <1>2, <1>3, HullIs
<1>5. h \in Wholes
  BY <1>3, <1>4, SegTypedWhole
<1> HIDE DEF h
<1>6. MapJoinStep(q, x, k) =
        IF k < Len(q) /\ joinable(q[k], q[k + 1]) THEN x
        ELSE [kept |-> x.kept \cup {IF fst = q[k] THEN q[k] ELSE h},
              fst_mem |-> IF k < Len(q) THEN q[k + 1] ELSE fst]
  BY Zenon DEF MapJoinStep, h
<1> HIDE DEF fst
<1>7. MapJoinStep(q, x, k) \in MapJoinStates
  BY <1>2, <1>3, <1>5, <1>6 DEF MapJoinStates
<1> QED BY <1>7 DEF q

\* The loop of join.
MapJoinLoopOf(M) ==
  FoldLeft(LAMBDA x, k : MapJoinStep(SegmentsInOrder(M), x, k),
           [kept |-> {}, fst_mem |-> SegmentsInOrder(M)[1]],
           [k \in DOMAIN SegmentsInOrder(M) |-> k])

\* join is what the loop keeps.
LEMMA MapJoinIsLoop ==
  ASSUME NEW M, SegmentsInOrder(M) # <<>>
  PROVE  JoinMap(M) = MapJoinLoopOf(M).kept
BY Zenon DEF JoinMap, JoinRuns, MapJoinLoopOf, MapJoinStep

\* The states h of the loop of join.
MapJoinRuns(M, q) ==
  \E h \in [0 .. Len(q) -> MapJoinStates] :
    /\ h[0] = [kept |-> {}, fst_mem |-> SegmentsInOrder(M)[1]]
    /\ h[Len(q)] = MapJoinLoopOf(M)
    /\ \A k \in 1 .. Len(q) : h[k] = MapJoinStep(SegmentsInOrder(M), h[k - 1], q[k]) /\ q[k] \in DOMAIN SegmentsInOrder(M)

\* The loop of join: every pass is MapJoinStep.
LEMMA MapJoinLoop ==
  ASSUME NEW M, Mapped(M),
         [kept |-> {}, fst_mem |-> SegmentsInOrder(M)[1]] \in MapJoinStates, NEW q \in Seq(DOMAIN SegmentsInOrder(M)), q = [k \in DOMAIN SegmentsInOrder(M) |-> k]
  PROVE  MapJoinRuns(M, q)
<1> DEFINE D == MapJoinStates
           Q == DOMAIN SegmentsInOrder(M)
           g == [p \in D \X Q |-> MapJoinStep(SegmentsInOrder(M), p[1], p[2])]
           iter == CHOOSE it : it = [s \in SUBSET DOMAIN q |->
                     IF s = {} THEN [kept |-> {}, fst_mem |-> SegmentsInOrder(M)[1]] ELSE MapJoinStep(SegmentsInOrder(M), it[s \ {Max(s)}], q[Max(s)])]
<1>0. [kept |-> {}, fst_mem |-> SegmentsInOrder(M)[1]] \in D /\ q \in Seq(Q)
  OBVIOUS
<1>1. ASSUME NEW y \in D, NEW t \in Q
      PROVE  MapJoinStep(SegmentsInOrder(M), y, t) \in D
  BY MapJoinStepTyped
<1>2. g \in [D \X Q -> D]
  <2>1. \A p \in D \X Q : MapJoinStep(SegmentsInOrder(M), p[1], p[2]) \in D
    BY <1>1
  <2> QED BY <2>1, Zenon
<1>3. \A y \in D, t \in Q : g[<<y, t>>] = MapJoinStep(SegmentsInOrder(M), y, t)
  <2> HIDE DEF D, Q
  <2> QED OBVIOUS
<1> HIDE DEF g, D, Q
<1>4. PICK it \in [SUBSET DOMAIN q -> D] : Solves(it, D, Q, g, [kept |-> {}, fst_mem |-> SegmentsInOrder(M)[1]], q)
  BY <1>0, <1>2, FoldSolved
<1>5. it = [s \in SUBSET DOMAIN q |->
              IF s = {} THEN [kept |-> {}, fst_mem |-> SegmentsInOrder(M)[1]] ELSE MapJoinStep(SegmentsInOrder(M), it[s \ {Max(s)}], q[Max(s)])]
  <2>1. \A s \in SUBSET DOMAIN q :
          it[s] = IF s = {} THEN [kept |-> {}, fst_mem |-> SegmentsInOrder(M)[1]] ELSE MapJoinStep(SegmentsInOrder(M), it[s \ {Max(s)}], q[Max(s)])
    <3>1. it[{}] = [kept |-> {}, fst_mem |-> SegmentsInOrder(M)[1]]
      BY <1>4 DEF Solves
    <3>2. ASSUME NEW s \in SUBSET DOMAIN q, s # {}
          PROVE  it[s] = MapJoinStep(SegmentsInOrder(M), it[s \ {Max(s)}], q[Max(s)])
      <4>1. /\ it[s \ {Max(s)}] \in D /\ q[Max(s)] \in Q
            /\ it[s] = g[<<it[s \ {Max(s)}], q[Max(s)]>>]
        BY <1>4, <3>2 DEF Solves
      <4> QED BY <1>3, <4>1
    <3> QED BY <3>1, <3>2
  <2>2. it = [s \in SUBSET DOMAIN q |-> it[s]]
    OBVIOUS
  <2> QED BY <2>1, <2>2, Zenon
<1>6. iter = [s \in SUBSET DOMAIN q |->
                IF s = {} THEN [kept |-> {}, fst_mem |-> SegmentsInOrder(M)[1]] ELSE MapJoinStep(SegmentsInOrder(M), iter[s \ {Max(s)}], q[Max(s)])]
  BY <1>5, Zenon
<1>7. iter[DOMAIN q] = MapJoinLoopOf(M)
  BY ZenonT(40) DEF MapJoinLoopOf, FoldLeft, MapThenFoldSet
<1> HIDE DEF iter
<1>8. \A s \in SUBSET DOMAIN q :
        iter[s] = IF s = {} THEN [kept |-> {}, fst_mem |-> SegmentsInOrder(M)[1]] ELSE MapJoinStep(SegmentsInOrder(M), iter[s \ {Max(s)}], q[Max(s)])
  BY <1>6
<1>9. SolvesWithin(iter, D, g, [kept |-> {}, fst_mem |-> SegmentsInOrder(M)[1]], q)
  <2>1. iter[{}] = [kept |-> {}, fst_mem |-> SegmentsInOrder(M)[1]]
    BY <1>8
  <2>2. ASSUME NEW s \in SUBSET DOMAIN q, s # {}, iter[s \ {Max(s)}] \in D
        PROVE  iter[s] = g[<<iter[s \ {Max(s)}], q[Max(s)]>>]
    <3>1. q[Max(s)] \in Q
      BY <1>4, <2>2 DEF Solves
    <3>2. g[<<iter[s \ {Max(s)}], q[Max(s)]>>] = MapJoinStep(SegmentsInOrder(M), iter[s \ {Max(s)}], q[Max(s)])
      BY <1>3, <2>2, <3>1
    <3>3. iter[s] = MapJoinStep(SegmentsInOrder(M), iter[s \ {Max(s)}], q[Max(s)])
      BY <1>8, <2>2
    <3> QED BY <3>2, <3>3
  <2> QED BY <2>1, <2>2 DEF SolvesWithin
<1>10. PICK h \in [0 .. Len(q) -> D] : Passes(h, Q, g, [kept |-> {}, fst_mem |-> SegmentsInOrder(M)[1]], q, iter[DOMAIN q])
  BY <1>0, <1>2, <1>9, FoldStates
<1>11. ASSUME NEW k \in 1 .. Len(q)
       PROVE  h[k] = MapJoinStep(SegmentsInOrder(M), h[k - 1], q[k]) /\ q[k] \in Q
  <2>1. h[k - 1] \in D
    <3>1. k - 1 \in 0 .. Len(q)
      <4>1. Len(q) \in Nat
        BY <1>0, LenProperties
      <4> QED BY <4>1, PassBefore
    <3>2. \A j \in 0 .. Len(q) : h[j] \in D
      BY <1>10
    <3> QED BY <3>1, <3>2
  <2> QED BY <1>3, <1>10, <2>1 DEF Passes
<1> QED BY <1>7, <1>10, <1>11 DEF D, Q, Passes, MapJoinRuns


\* The segments from the m-th to the k-th meet, and all have one value.
OneRun(q, m, k) ==
  /\ \A j \in m .. k : j < k => Hi(q[j]) + 1 = Lo(q[j + 1])
  /\ \A j \in m .. k : q[j].val = q[k].val

\* No segment of kept could be one with a segment of the value v that begins at f.
EndsBefore(kept, f, v) ==
  \A t \in kept : Hi(t) < f /\ (Hi(t) + 1 = f => t.val # v)

\* The loop after k steps: the segments kept are joined, the run that is not kept
\* yet begins with the m-th segment, and the values are those of the keys passed.
JoiningMap(M, q, x, m, k) ==
  /\ Mapped(x.kept) /\ \A e \in Int : ~ Seam(x.kept, e)
  /\ k < Len(q) =>
       /\ m \in 1 .. k + 1 /\ x.fst_mem = q[m] /\ OneRun(q, m, k + 1)
       /\ EndsBefore(x.kept, Lo(q[m]), q[m].val)
       /\ \A e \in Int : ValueAt(x.kept, e) = IF e < Lo(q[m]) THEN ValueAt(M, e) ELSE NoValue
  /\ k = Len(q) => SameValues(x.kept, M)

\* A run of segments has one value from its first key to its last.
LEMMA RunValue ==
  ASSUME NEW M, Mapped(M), NEW q, q = SegmentsInOrder(M),
         NEW m \in 1 .. Len(q), NEW k \in m .. Len(q), OneRun(q, m, k)
  PROVE  \A e \in Int : Lo(q[m]) <= e /\ e <= Hi(q[k]) => ValueAt(M, e) = q[k].val
<1> DEFINE n == Len(q)
           c == [j \in 1 .. n |-> q[j].itv]
<1>1. /\ n \in Nat
      /\ \A i, j \in 1 .. n : i < j => Hi(q[i]) < Lo(q[j])
      /\ \A j \in 1 .. n : /\ q[j] \in M /\ Lo(q[j]) \in Int /\ Hi(q[j]) \in Int
                           /\ Lo(q[j]) <= Hi(q[j])
  BY SegmentsListed
<1>2. \A j \in 1 .. n : first(c[j]) = Lo(q[j]) /\ last(c[j]) = Hi(q[j])
  BY DEF Lo, Hi
<1>3. m \in 1 .. n /\ k \in m .. n
  OBVIOUS
<1> HIDE DEF c, n
<1>4. \A j \in m .. k : j \in 1 .. n /\ (j < k => j + 1 \in m .. k)
  BY <1>1, <1>3
<1>5. /\ \A j \in m .. k : first(c[j]) \in Int /\ last(c[j]) \in Int /\ first(c[j]) <= last(c[j])
      /\ \A i, j \in m .. k : i < j => last(c[i]) < first(c[j])
  BY <1>1, <1>2, <1>4
<1>6. \A j \in m .. k : j < k => last(c[j]) + 1 = first(c[j + 1])
  <2> SUFFICES ASSUME NEW j \in m .. k, j < k
               PROVE  last(c[j]) + 1 = first(c[j + 1])
    OBVIOUS
  <2>1. j \in 1 .. n /\ j + 1 \in 1 .. n
    BY <1>4
  <2> QED BY <1>2, <2>1 DEF OneRun
<1>7. \A e \in Int : (first(c[m]) <= e /\ e <= last(c[k])) <=> \E j \in m .. k : In(e, c[j])
  BY <1>1, <1>3, <1>5, <1>6, RunCovers
<1> SUFFICES ASSUME NEW e \in Int, Lo(q[m]) <= e, e <= Hi(q[k])
             PROVE  ValueAt(M, e) = q[k].val
  OBVIOUS
<1>8. k \in 1 .. n
  BY <1>1, <1>3
<1>9. PICK j \in m .. k : In(e, c[j])
  BY <1>2, <1>3, <1>7, <1>8
<1>10. Lo(q[j]) <= e /\ e <= Hi(q[j]) /\ q[j] \in M
  BY <1>1, <1>2, <1>4, <1>9 DEF In
<1>11. ValueAt(M, e) = q[j].val
  BY <1>10, ValueIn
<1> QED BY <1>11 DEF OneRun

\* No key between two segments that follow each other has a value, and none behind
\* the last.
LEMMA BetweenSegments ==
  ASSUME NEW M, Mapped(M), NEW q, q = SegmentsInOrder(M), NEW k \in 1 .. Len(q),
         NEW e \in Int, Hi(q[k]) < e, k < Len(q) => e < Lo(q[k + 1])
  PROVE  ValueAt(M, e) = NoValue
<1>1. /\ Len(q) \in Nat
      /\ \A i, j \in 1 .. Len(q) : i < j => Hi(q[i]) < Lo(q[j])
      /\ \A s \in M : \E j \in 1 .. Len(q) : q[j] = s
      /\ \A j \in 1 .. Len(q) : Lo(q[j]) \in Int /\ Hi(q[j]) \in Int /\ Lo(q[j]) <= Hi(q[j])
  BY SegmentsListed
<1>2. ASSUME NEW s \in M
      PROVE  ~ (Lo(s) <= e /\ e <= Hi(s))
  <2>1. PICK j \in 1 .. Len(q) : q[j] = s
    BY <1>1
  <2>2. CASE j = k
    BY <1>1, <2>1, <2>2
  <2>3. CASE j < k
    <3>1. Hi(q[j]) < Lo(q[k]) /\ Lo(q[k]) <= Hi(q[k])
      BY <1>1, <2>3
    <3> QED BY <1>1, <2>1, <3>1
  <2>4. CASE k < j
    <3>1. k + 1 \in 1 .. Len(q) /\ k < Len(q) /\ (j = k + 1 \/ k + 1 < j)
      BY <1>1, <2>4
    <3>2. Lo(q[k + 1]) <= Lo(q[j])
      <4>1. CASE j = k + 1
        BY <1>1, <4>1
      <4>2. CASE k + 1 < j
        BY <1>1, <3>1, <4>2
      <4> QED BY <3>1, <4>1, <4>2
    <3>3. e < Lo(q[k + 1]) /\ Lo(q[k + 1]) \in Int /\ Lo(q[j]) \in Int
      BY <1>1, <3>1
    <3>4. e < Lo(q[j])
      BY <3>2, <3>3
    <3> QED BY <2>1, <3>3, <3>4
  <2> QED BY <1>1, <2>1, <2>2, <2>3, <2>4
<1> QED BY <1>2, ValueOut

\* The segments kept are joined, have the values of M before the run new, and
\* could not be one with it.
KeptBefore(M, K, new) ==
  /\ Mapped(K) /\ \A e \in Int : ~ Seam(K, e)
  /\ EndsBefore(K, Lo(new), new.val)
  /\ \A e \in Int : ValueAt(K, e) = IF e < Lo(new) THEN ValueAt(M, e) ELSE NoValue

\* The segments kept are joined, and have the values of M up to the key b.
KeptUpTo(M, K, b) ==
  /\ Mapped(K) /\ \A e \in Int : ~ Seam(K, e)
  /\ \A e \in Int : ValueAt(K, e) = IF e <= b THEN ValueAt(M, e) ELSE NoValue

\* A segment has the values of M.
IsRun(M, new) == Whole(new) /\ \A e \in Int : Within(e, new) => ValueAt(M, e) = new.val

\* A run is kept as the one segment new behind those kept before.
LEMMA RunKept ==
  ASSUME NEW M, NEW K, NEW new, KeptBefore(M, K, new), IsRun(M, new)
  PROVE  KeptUpTo(M, K \cup {new}, Hi(new))
<1>0. /\ Mapped(K) /\ \A e \in Int : ~ Seam(K, e)
      /\ EndsBefore(K, Lo(new), new.val)
      /\ \A e \in Int : ValueAt(K, e) = IF e < Lo(new) THEN ValueAt(M, e) ELSE NoValue
      /\ Whole(new) /\ \A e \in Int : Within(e, new) => ValueAt(M, e) = new.val
  BY DEF KeptBefore, IsRun
<1>1. Lo(new) \in Int /\ Hi(new) \in Int /\ Lo(new) <= Hi(new)
  BY <1>0, WholeIs
<1>2. \A t \in K : /\ Lo(t) \in Int /\ Hi(t) \in Int /\ Lo(t) <= Hi(t)
                   /\ Hi(t) < Lo(new) /\ (Hi(t) + 1 = Lo(new) => t.val # new.val)
  BY <1>0, MapEnds DEF EndsBefore
<1>3. Mapped(K \cup {new})
  <2>1. IsFiniteSet({new})
    BY FewAreFinite
  <2>2. /\ \A n \in {new} : Whole(n)
        /\ \A m, n \in {new} : m = n \/ ClearOf(m, n)
        /\ \A s \in K \ {}, n \in {new} : ClearOf(s, n)
    BY <1>0, <1>2 DEF ClearOf
  <2>3. Mapped((K \ {}) \cup {new})
    BY <1>0, <2>1, <2>2, SegmentsReplaced
  <2>4. (K \ {}) \cup {new} = K \cup {new}
    OBVIOUS
  <2> QED BY <2>3, <2>4
<1>4. ASSUME NEW e \in Int, Seam(K \cup {new}, e)
      PROVE  FALSE
  <2>1. PICK s \in K \cup {new}, t \in K \cup {new} : Hi(s) + 1 = e /\ Lo(t) = e /\ s.val = t.val
    BY <1>4 DEF Seam
  <2>2. ~ (s \in K /\ t \in K)
    BY <1>0, <2>1 DEF Seam
  <2>3. s = new => t = new
    <3>1. ASSUME s = new, t \in K
          PROVE  FALSE
      BY <1>1, <1>2, <2>1, <3>1
    <3> QED BY <3>1
  <2>4. t = new
    BY <2>2, <2>3
  <2>5. s = new
    BY <1>2, <2>1, <2>4
  <2> QED BY <1>1, <2>1, <2>4, <2>5
<1>5. ASSUME NEW e \in Int
      PROVE  ValueAt(K \cup {new}, e) = IF e <= Hi(new) THEN ValueAt(M, e) ELSE NoValue
  <2>1. CASE Within(e, new)
    <3>1. ValueAt(K \cup {new}, e) = new.val
      BY <1>3, <2>1, ValueIn DEF Within
    <3> QED BY <1>0, <2>1, <3>1 DEF Within
  <2>2. CASE ~ Within(e, new)
    <3>1. ValueAt(K \cup {new}, e) = ValueAt(K, e)
      <4>1. \/ ValueAt(K, e) = NoValue /\ \A s \in K : ~ Within(e, s)
            \/ \E s \in K : Within(e, s) /\ ValueAt(K, e) = s.val
        BY <1>0, ValueCases
      <4>2. \/ ValueAt(K, e) = NoValue /\ \A s \in K \cup {new} : ~ Within(e, s)
            \/ \E s \in K \cup {new} : Within(e, s) /\ ValueAt(K, e) = s.val
        BY <2>2, <4>1
      <4> DEFINE w == ValueAt(K, e)
                 J == K \cup {new}
      <4>3. Mapped(J) /\ (\/ w = NoValue /\ \A s \in J : ~ Within(e, s)
                         \/ \E s \in J : Within(e, s) /\ w = s.val)
        BY <1>3, <4>2
      <4> HIDE DEF w, J
      <4>4. ValueAt(J, e) = w
        BY <4>3, ValuesFrom
      <4> QED BY <4>4 DEF w, J
    <3>2. e < Lo(new) <=> e <= Hi(new)
      BY <1>1, <2>2 DEF Within
    <3>3. ValueAt(K, e) = IF e < Lo(new) THEN ValueAt(M, e) ELSE NoValue
      BY <1>0
    <3> QED BY <3>1, <3>2, <3>3
  <2> QED BY <2>1, <2>2
<1> QED BY <1>3, <1>4, <1>5 DEF KeptUpTo

\* A step of the loop.
LEMMA MapJoinPasses ==
  ASSUME NEW M, Mapped(M), NEW q, q = SegmentsInOrder(M), NEW x, NEW m, NEW k \in 1 .. Len(q),
         JoiningMap(M, q, x, m, k - 1)
  PROVE  \E l : JoiningMap(M, q, MapJoinStep(q, x, k), l, k)
<1> DEFINE n == Len(q)
           y == MapJoinStep(q, x, k)
           joint == seg(hull_of(q[k].itv, q[m].itv), q[k].val)
           new == IF x.fst_mem = q[k] THEN q[k]
                  ELSE seg(hull_of(q[k].itv, x.fst_mem.itv), q[k].val)
<1>1. /\ n \in Nat
      /\ \A i, j \in 1 .. n : i < j => Hi(q[i]) < Lo(q[j])
      /\ \A j \in 1 .. n : /\ Whole(q[j]) /\ Proper(q[j].itv) /\ q[j].val \in SUBSET Values
                           /\ Lo(q[j]) \in Int /\ Hi(q[j]) \in Int /\ Lo(q[j]) <= Hi(q[j])
  BY SegmentsListed
<1>2. k \in 1 .. n /\ k - 1 < n /\ (k - 1) + 1 = k /\ k \in Int
  BY <1>1
<1>3. /\ Mapped(x.kept) /\ \A e \in Int : ~ Seam(x.kept, e)
      /\ m \in 1 .. k /\ x.fst_mem = q[m] /\ OneRun(q, m, k)
      /\ EndsBefore(x.kept, Lo(q[m]), q[m].val)
      /\ \A e \in Int : ValueAt(x.kept, e) = IF e < Lo(q[m]) THEN ValueAt(M, e) ELSE NoValue
  BY <1>2 DEF JoiningMap
<1>4. m \in 1 .. n /\ k \in m .. n /\ q[m].val = q[k].val
  BY <1>1, <1>2, <1>3 DEF OneRun
<1> HIDE DEF n
<1>5. CASE k < n /\ joinable(q[k], q[k + 1])
  <2>1. y = x
    BY <1>5 DEF MapJoinStep, n
  <2>2. Hi(q[k]) + 1 = Lo(q[k + 1]) /\ q[k].val = q[k + 1].val
    BY <1>5, JoinableIs
  <2>3. /\ m \in 1 .. k + 1 /\ k < k + 1 /\ k # n
        /\ \A j \in m .. k + 1 : j = k + 1 \/ j = k \/ (j \in m .. k /\ j < k)
    BY <1>1, <1>2, <1>3, <1>5
  <2>4. OneRun(q, m, k + 1)
    <3>1. \A j \in m .. k + 1 : j < k + 1 => Hi(q[j]) + 1 = Lo(q[j + 1])
      <4> SUFFICES ASSUME NEW j \in m .. k + 1, j < k + 1
                   PROVE  Hi(q[j]) + 1 = Lo(q[j + 1])
        OBVIOUS
      <4>1. j = k \/ (j \in m .. k /\ j < k)
        BY <2>3
      <4> QED BY <1>3, <2>2, <4>1 DEF OneRun
    <3>2. \A j \in m .. k + 1 : q[j].val = q[k + 1].val
      BY <1>3, <2>2, <2>3 DEF OneRun
    <3> QED BY <3>1, <3>2 DEF OneRun
  <2>5. JoiningMap(M, q, x, m, k)
    BY <1>3, <1>5, <2>3, <2>4 DEF JoiningMap, n
  <2> QED BY <2>1, <2>5
<1>6. CASE ~ (k < n /\ joinable(q[k], q[k + 1]))
  <2>1. y.kept = x.kept \cup {new} /\ y.fst_mem = IF k < n THEN q[k + 1] ELSE x.fst_mem
    BY <1>6 DEF MapJoinStep, n
  <2>2. /\ Whole(new) /\ Lo(new) = Lo(q[m]) /\ Hi(new) = Hi(q[k]) /\ new.val = q[k].val
        /\ new.val = q[m].val
    <3>1. CASE q[m] = q[k]
      BY <1>1, <1>2, <1>3, <3>1
    <3>2. CASE q[m] # q[k]
      <4>1. m < k /\ Hi(q[m]) < Lo(q[k])
        <5>1. m # k
          BY <3>2
        <5>2. m < k
          BY <1>2, <1>3, <5>1
        <5> QED BY <1>1, <1>2, <1>4, <5>2
      <4>2. new = joint
        BY <1>3, <3>2
      <4>3. /\ Proper(hull_of(q[k].itv, q[m].itv))
            /\ first(hull_of(q[k].itv, q[m].itv)) = IF Lo(q[k]) < Lo(q[m]) THEN Lo(q[k]) ELSE Lo(q[m])
            /\ last(hull_of(q[k].itv, q[m].itv)) = IF Hi(q[k]) < Hi(q[m]) THEN Hi(q[m]) ELSE Hi(q[k])
        BY <1>1, <1>2, <1>4, HullIs DEF Lo, Hi
      <4>4. /\ Whole(joint) /\ joint.val = q[k].val
            /\ Lo(joint) = first(hull_of(q[k].itv, q[m].itv))
            /\ Hi(joint) = last(hull_of(q[k].itv, q[m].itv))
        BY <1>1, <1>2, <4>3, SegIs
      <4>5. /\ Lo(q[m]) \in Int /\ Hi(q[m]) \in Int /\ Lo(q[k]) \in Int /\ Hi(q[k]) \in Int
            /\ Lo(q[m]) <= Hi(q[m]) /\ Lo(q[k]) <= Hi(q[k])
        BY <1>1, <1>2, <1>4
      <4>6. ~ (Lo(q[k]) < Lo(q[m])) /\ ~ (Hi(q[k]) < Hi(q[m]))
        BY <4>1, <4>5
      <4> HIDE DEF joint, new
      <4> QED BY <1>4, <4>2, <4>3, <4>4, <4>6
    <3> QED BY <3>1, <3>2
  <2> HIDE DEF new, y, joint
  <2>3. \A e \in Int : Within(e, new) => ValueAt(M, e) = new.val
    <3>1. \A e \in Int : Lo(q[m]) <= e /\ e <= Hi(q[k]) => ValueAt(M, e) = q[k].val
      BY <1>3, <1>4, RunValue DEF n
    <3> QED BY <2>2, <3>1 DEF Within
  <2>4. /\ Mapped(y.kept) /\ \A e \in Int : ~ Seam(y.kept, e)
        /\ \A e \in Int : ValueAt(y.kept, e) = IF e <= Hi(new) THEN ValueAt(M, e) ELSE NoValue
    <3>1. /\ EndsBefore(x.kept, Lo(new), new.val)
          /\ \A e \in Int : ValueAt(x.kept, e) = IF e < Lo(new) THEN ValueAt(M, e) ELSE NoValue
      BY <1>3, <2>2
    <3>2. KeptBefore(M, x.kept, new)
      BY <1>3, <3>1 DEF KeptBefore
    <3>3. IsRun(M, new)
      BY <2>2, <2>3 DEF IsRun
    <3>4. KeptUpTo(M, x.kept \cup {new}, Hi(new))
      BY <3>2, <3>3, RunKept
    <3> QED BY <2>1, <3>4 DEF KeptUpTo
  <2>5. CASE k < n
    <3>1. k + 1 \in 1 .. n /\ k + 1 \in 1 .. k + 1 /\ k < k + 1 /\ k # n
      BY <1>1, <1>2, <2>5
    <3>2. y.fst_mem = q[k + 1]
      BY <2>1, <2>5
    <3>3. /\ Lo(q[k]) \in Int /\ Hi(q[k]) \in Int /\ Lo(q[k]) <= Hi(q[k])
          /\ Lo(q[k + 1]) \in Int /\ Hi(q[k]) < Lo(q[k + 1])
      BY <1>1, <1>2, <3>1
    <3>4. OneRun(q, k + 1, k + 1)
      BY <3>1 DEF OneRun
    <3>5. EndsBefore(y.kept, Lo(q[k + 1]), q[k + 1].val)
      <4>1. Hi(q[k]) + 1 = Lo(q[k + 1]) => q[k].val # q[k + 1].val
        BY <1>6, <2>5, JoinableIs
      <4>2. ASSUME NEW t \in x.kept
            PROVE  Hi(t) < Lo(q[k + 1]) /\ Hi(t) + 1 # Lo(q[k + 1])
        <5>1. Hi(t) \in Int /\ Hi(t) < Lo(q[m])
          BY <1>3, MapEnds DEF EndsBefore
        <5>2. Lo(q[m]) \in Int /\ Lo(q[m]) <= Hi(q[k])
          BY <2>2, WholeIs
        <5> QED BY <3>3, <5>1, <5>2
      <4> QED BY <2>1, <2>2, <3>3, <4>1, <4>2 DEF EndsBefore
    <3>6. \A e \in Int : ValueAt(y.kept, e) = IF e < Lo(q[k + 1]) THEN ValueAt(M, e) ELSE NoValue
      <4> SUFFICES ASSUME NEW e \in Int
                   PROVE  ValueAt(y.kept, e) = IF e < Lo(q[k + 1]) THEN ValueAt(M, e) ELSE NoValue
        OBVIOUS
      <4>1. ValueAt(y.kept, e) = IF e <= Hi(q[k]) THEN ValueAt(M, e) ELSE NoValue
        BY <2>2, <2>4
      <4>2. CASE e <= Hi(q[k])
        <5>1. e < Lo(q[k + 1])
          BY <3>3, <4>2
        <5> QED BY <4>1, <4>2, <5>1
      <4>3. CASE ~ (e <= Hi(q[k])) /\ e < Lo(q[k + 1])
        <5>1. Hi(q[k]) < e
          BY <3>3, <4>3
        <5>2. ValueAt(M, e) = NoValue
          BY <4>3, <5>1, BetweenSegments
        <5> QED BY <4>1, <4>3, <5>2
      <4>4. CASE ~ (e <= Hi(q[k])) /\ ~ (e < Lo(q[k + 1]))
        BY <4>1, <4>4
      <4> QED BY <4>2, <4>3, <4>4
    <3>7. JoiningMap(M, q, y, k + 1, k)
      BY <2>4, <3>1, <3>2, <3>4, <3>5, <3>6 DEF JoiningMap, n
    <3> QED BY <3>7 DEF y
  <2>6. CASE ~ (k < n)
    <3>1. k = n /\ ~ (k < Len(q))
      BY <1>1, <1>2, <2>6 DEF n
    <3>2. SameValues(y.kept, M)
      <4> SUFFICES ASSUME NEW e \in Int
                   PROVE  ValueAt(y.kept, e) = ValueAt(M, e)
        BY DEF SameValues
      <4>1. ValueAt(y.kept, e) = IF e <= Hi(q[k]) THEN ValueAt(M, e) ELSE NoValue
        BY <2>2, <2>4
      <4>2. ASSUME ~ (e <= Hi(q[k]))
            PROVE  ValueAt(M, e) = NoValue
        <5>1. Hi(q[k]) < e
          BY <1>1, <1>2, <4>2
        <5> QED BY <3>1, <5>1, BetweenSegments
      <4> QED BY <4>1, <4>2
    <3>3. JoiningMap(M, q, y, 1, k)
      BY <2>4, <3>1, <3>2 DEF JoiningMap
    <3> QED BY <3>3 DEF y
  <2> QED BY <2>5, <2>6
<1> QED BY <1>5, <1>6

\* The loop begins with the first segment, and nothing is kept.
LEMMA MapJoinBegins ==
  ASSUME NEW M, Mapped(M), M # {}, NEW q, q = SegmentsInOrder(M),
         NEW x, x = [kept |-> {}, fst_mem |-> q[1]]
  PROVE  JoiningMap(M, q, x, 1, 0)
<1> DEFINE n == Len(q)
<1>1. /\ n \in Nat /\ n # 0
      /\ \A i, j \in 1 .. Len(q) : i < j => Hi(q[i]) < Lo(q[j])
      /\ \A s \in M : \E j \in 1 .. Len(q) : q[j] = s
      /\ \A j \in 1 .. Len(q) : Lo(q[j]) \in Int /\ Hi(q[j]) \in Int /\ Lo(q[j]) <= Hi(q[j])
  BY SegmentsListed
<1>2. 1 \in 1 .. Len(q) /\ 1 \in 1 .. 0 + 1 /\ 0 # Len(q)
  BY <1>1
<1>3. /\ Mapped({}) /\ \A e \in Int : ~ Seam({}, e)
      /\ \A e \in Int : ValueAt({}, e) = NoValue
  BY NoSegmentsFit DEF Seam
<1>4. OneRun(q, 1, 0 + 1) /\ EndsBefore({}, Lo(q[1]), q[1].val)
  BY DEF OneRun, EndsBefore
<1>5. ASSUME NEW e \in Int, e < Lo(q[1])
      PROVE  ValueAt(M, e) = NoValue
  <2>1. ASSUME NEW s \in M
        PROVE  ~ (Lo(s) <= e /\ e <= Hi(s))
    <3>1. PICK j \in 1 .. Len(q) : q[j] = s
      BY <1>1
    <3>2. Lo(q[1]) <= Lo(q[j])
      <4>1. CASE j = 1
        BY <1>1, <4>1
      <4>2. CASE 1 < j
        BY <1>1, <1>2, <4>2
      <4> QED BY <4>1, <4>2
    <3> QED BY <1>1, <1>2, <1>5, <3>1, <3>2
  <2> QED BY <2>1, ValueOut
<1>6. x.kept = {} /\ x.fst_mem = q[1]
  OBVIOUS
<1> QED BY <1>2, <1>3, <1>4, <1>5, <1>6 DEF JoiningMap

\* join: no two segments that meet could be one, and no key changes.
LEMMA JoinMapIs ==
  ASSUME NEW M, Mapped(M)
  PROVE  /\ Mapped(JoinMap(M)) /\ SameValues(JoinMap(M), M)
         /\ \A e \in Int : ~ Seam(JoinMap(M), e)
<1>1. CASE M = {}
  <2>1. SegmentsInOrder(M) = <<>>
    BY <1>1, SegmentsListed
  <2>2. JoinMap(M) = {}
    BY <2>1 DEF JoinMap, JoinRuns
  <2> QED BY <1>1, <2>2, NoSegmentsFit DEF SameValues, Seam
<1>2. CASE M # {}
  <2> DEFINE q == SegmentsInOrder(M)
             n == Len(q)
             p == [k \in DOMAIN q |-> k]
             x0 == [kept |-> {}, fst_mem |-> q[1]]
  <2>1. /\ n \in Nat \ {0} /\ DOMAIN q = 1 .. n /\ q # <<>>
        /\ \A k \in 1 .. n : q[k] \in Wholes
    BY <1>2, SegmentsListed
  <2>2. p \in Seq(DOMAIN q) /\ Len(p) = n /\ \A k \in 1 .. n : p[k] = k
    BY <2>1
  <2>3. x0 \in MapJoinStates /\ x0.kept = {} /\ x0.fst_mem = q[1]
    BY <2>1 DEF MapJoinStates
  <2>4. MapJoinRuns(M, p)
    BY <2>2, <2>3, MapJoinLoop
  <2>5. PICK h \in [0 .. Len(p) -> MapJoinStates] :
          /\ h[0] = x0
          /\ h[Len(p)] = MapJoinLoopOf(M)
          /\ \A k \in 1 .. Len(p) : h[k] = MapJoinStep(q, h[k - 1], p[k]) /\ p[k] \in DOMAIN q
    BY <2>4 DEF MapJoinRuns
  <2>6. JoinMap(M) = h[n].kept
    BY <2>1, <2>2, <2>5, MapJoinIsLoop
  <2>7. JoiningMap(M, q, h[0], 1, 0)
    BY <1>2, <2>5, MapJoinBegins
  <2>14. n = Len(q) /\ q = SegmentsInOrder(M)
    OBVIOUS
  <2> HIDE DEF p, x0, n, q
  <2> DEFINE R(k) == \E m : JoiningMap(M, q, h[k], m, k)
             P == [k \in 0 .. n |-> R(k)]
  <2>8. P \in [0 .. n -> BOOLEAN] /\ \A k \in 0 .. n : P[k] <=> R(k)
    OBVIOUS
  <2> HIDE DEF P
  <2>9. P[0]
    <3>1. R(0)
      BY <2>7
    <3> HIDE DEF R
    <3> QED BY <2>1, <2>8, <3>1
  <2>10. ASSUME NEW k \in 1 .. n, P[k - 1]
         PROVE  P[k]
    <3>1. k - 1 \in 0 .. n /\ k \in 0 .. n
      BY <2>1
    <3>2. R(k - 1)
      BY <2>8, <2>10, <3>1
    <3>3. PICK m : JoiningMap(M, q, h[k - 1], m, k - 1)
      BY <3>2
    <3>4. k \in 1 .. Len(q)
      BY <2>14
    <3>5. PICK l : JoiningMap(M, q, MapJoinStep(q, h[k - 1], k), l, k)
      BY <2>14, <3>3, <3>4, MapJoinPasses
    <3>6. R(k)
      BY <2>2, <2>5, <3>5
    <3> HIDE DEF R
    <3> QED BY <2>8, <3>1, <3>6
  <2>11. n \in 0 .. n
    BY <2>1
  <2>12. PICK m : JoiningMap(M, q, h[n], m, n)
    <3>1. P[n]
      BY <2>1, <2>8, <2>9, <2>10, <2>11, Upwards
    <3>2. R(n)
      BY <2>8, <2>11, <3>1
    <3> QED BY <3>2
  <2> QED BY <2>6, <2>12, <2>14 DEF JoiningMap
<1> QED BY <1>1, <1>2

\* join keeps to maps that fit the type.
LEMMA JoinMapFits ==
  ASSUME NEW tr, NEW M, MapFit(tr, M)
  PROVE  MapFit(tr, JoinMap(M))
<1> DEFINE J == JoinMap(M)
<1>1. Mapped(J) /\ SameValues(J, M) /\ \A e \in Int : ~ Seam(J, e)
  BY JoinMapIs DEF MapFit
<1> HIDE DEF J
<1>2. ASSUME tr.absorbs, NEW s \in J
      PROVE  s.val # {}
  <2>1. Lo(s) \in Int /\ Lo(s) <= Hi(s) /\ Lo(s) <= Lo(s) /\ s.val # NoValue
    BY <1>1, MapEnds
  <2>2. ValueAt(M, Lo(s)) = s.val
    BY <1>1, <2>1, ValueIn DEF SameValues
  <2>3. PICK t \in M : ValueAt(M, Lo(s)) = t.val
    BY <2>1, <2>2, ValueIs DEF MapFit
  <2> QED BY <1>2, <2>2, <2>3 DEF MapFit
<1>3. MapFit(tr, J)
  BY <1>1, <1>2 DEF MapFit
<1> QED BY <1>3 DEF J
=============================================================================
