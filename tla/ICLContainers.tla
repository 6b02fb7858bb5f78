--------------------------- MODULE ICLContainers ---------------------------
(***************************************************************************)
(* One interval container of any of the seven types: an interval_set, a    *)
(* separate_interval_set, a split_interval_set, or a partial interval_map  *)
(* or split_interval_map, each absorbing identities or not.  A caller      *)
(* changes it by segments, by other containers and by sets of keys.        *)
(*                                                                         *)
(* The invariants say that the container stays well formed and that each   *)
(* operation and each query does what the container of single elements     *)
(* (ICLElementMap) would do, however the segments are cut.                 *)
(***************************************************************************)
EXTENDS ICLIntervalMap, ICLElementIterator

CONSTANTS
  Top,         \* ticks are 0 .. Top - 1
  Values,      \* the members of the values, which are sets
  MaxSegments, \* bound: segments of the container
  MaxOperand,  \* bound: ticks of the containers passed as operands
  MaxPassed,   \* bound: segments of the operands that steps are taken with; the
               \* invariants evaluate the operations with all of them
  NoValue

ASSUME ContainersAssumption ==
  /\ Top \in Nat /\ MaxOperand \in 0 .. Top
  /\ MaxSegments \in Nat /\ MaxPassed \in Nat
  /\ \A v \in SUBSET Values : v # NoValue

INSTANCE ICLElementMap

Ticks == 0 .. (Top - 1)

\* The intervals a caller passes, one empty one among them.
Intervals == {construct(Dynamic, l, u, RightOpen) : l, u \in 0 .. Top}
Given == {i \in Intervals : ~ is_empty(i)} \cup {construct(Dynamic, 1, 1, RightOpen)}
Segments == [itv : Given, val : SUBSET Values]

SetTypes == [set : {TRUE}, style : Styles]
MapTypes == [set : {FALSE}, joins : BOOLEAN, absorbs : BOOLEAN]

VARIABLES
  type,    \* the type of the container, which a program fixes
  object   \* the container: a set of intervals, or of segments

vars == <<type, object>>

-----------------------------------------------------------------------------
(***************************************************************************)
(* The elements of a container.                                            *)
(***************************************************************************)

ElementsOf(S) == UNION {Elements(i) : i \in S}

Content(M) ==
  [k \in Ticks |->
     IF \E s \in M : k \in Elements(s.itv)
     THEN (CHOOSE s \in M : k \in Elements(s.itv)).val ELSE NoValue]

\* The containers a caller passes as operands: up to two segments within the
\* first MaxOperand ticks, in a form that the type allows.  Two reach from the
\* first to the last of these ticks, with a gap between them or none.
Apart(i, j) == i = j \/ exclusive_less(i, j) \/ exclusive_less(j, i)

ShortIntervals == {i \in Given : ~ is_empty(i) /\ i.up <= MaxOperand}

Pairs(X) ==
  {p \in X \X X : \/ p[1] = p[2]
                 \/ /\ exclusive_less(p[1], p[2])
                    /\ p[1].lo = 0 /\ p[2].up = MaxOperand}

SetOperands ==
  {{p[1], p[2]} : p \in {q \in Pairs(ShortIntervals) :
                           type.style = "joining" => ~ touches(q[1], q[2])}}
  \cup {{}}

MapOperands ==
  {{seg(o[1][1], o[2]), seg(o[1][2], o[3])} :
     o \in {q \in Pairs(ShortIntervals) \X (SUBSET Values) \X (SUBSET Values) :
        LET s == seg(q[1][1], q[2])
            t == seg(q[1][2], q[3])
        IN /\ s.itv = t.itv => s = t
           /\ ~ is_absorbable(type, s.val) /\ ~ is_absorbable(type, t.val)
           /\ type.joins => ~ joinable(s, t)}}
  \cup {{}}

\* Keys are erased by an interval_set.
KeySets ==
  {{p[1], p[2]} : p \in {q \in Pairs(ShortIntervals) : ~ touches(q[1], q[2])}}
  \cup {{}}

-----------------------------------------------------------------------------
(***************************************************************************)
(* The caller.                                                             *)
(***************************************************************************)

Become(M) ==
  /\ Cardinality(M) <= MaxSegments
  /\ object' = M
  /\ UNCHANGED type

\* A caller passes a segment, or an element, which is made a segment of one tick.
Add(s) == Become(AddSegment(type, object, s))
Subtract(s) == Become(SubtractSegment(type, object, s))
Insert(s) == Become(InsertSegment(type, object, s))
Erase(s) == Become(EraseSegment(type, object, s))
Set(s) == Become(SetAt(type, object, s))

\* The loop of flip starts from what its empty interval does not delimit: a
\* caller flips non-empty ones.
Flip(s) == ~ is_empty(s.itv) /\ Become(FlipSegment(type, object, s))

EraseAt(i) == Become(EraseInterval(object, i))

WithSegment ==
  \/ \E s \in Segments : Add(s) \/ Subtract(s) \/ Insert(s) \/ Erase(s) \/ Set(s) \/ Flip(s)
  \/ \E i \in Given : EraseAt(i)

WithContainer ==
  \/ \E T \in MapOperands : Cardinality(T) <= MaxPassed /\
       \/ Become(AddMap(type, object, T))
       \/ Become(SubtractMap(type, object, T))
       \/ Become(InsertMap(type, object, T))
       \/ Become(EraseMap(type, object, T))
       \/ Become(SectionWithMap(type, object, T))
       \/ Become(FlipMap(type, object, T))
  \/ \E K \in KeySets : Cardinality(K) <= MaxPassed /\
       \/ Become(EraseKeys(object, K))
       \/ Become(SectionWithSet2(type, object, K))

Absorb == Become(AbsorbIdentities(type, object))
Join == Become(JoinMap(object))

\* The same of a set, by intervals.
AddKeys(i) == Become(AddInterval(type.style, object, i))
SubtractKeys(i) == Become(SubtractInterval(object, i))
FlipKeys(i) == ~ is_empty(i) /\ Become(FlipInterval(type.style, object, i))

MapStep == ~ type.set /\ (WithSegment \/ WithContainer \/ Absorb \/ Join)

SetStep ==
  /\ type.set
  /\ \/ \E i \in Given : AddKeys(i) \/ SubtractKeys(i) \/ FlipKeys(i)
     \/ \E T \in SetOperands :
          \/ Become(AddSet(type.style, object, T))
          \/ Become(EraseSet(object, T))
          \/ Become(SectionWithSet(type.style, object, T))
          \/ Become(FlipSet(type.style, object, T))
     \/ Become(BetweenSet(type.style, object))
     \/ Become(JoinSet(object))

Init == type \in SetTypes \cup MapTypes /\ object = {}

Next == MapStep \/ SetStep

Spec == Init /\ [][Next]_vars

-----------------------------------------------------------------------------
(***************************************************************************)
(* Properties.                                                             *)
(***************************************************************************)

\* The invariants of the representation, which no operation states and every
\* one must keep: intervals are not empty and do not overlap; what joins holds
\* no two neighbours that could be one; an absorber holds no empty value.
WellFormed(M) ==
  /\ LET I == IF type.set THEN M ELSE KeysOf(M)
     IN /\ \A i \in I : i \in Interval /\ ~ is_empty(i)
        /\ \A i, j \in I : Apart(i, j)
        /\ ~ type.set => Cardinality(I) = Cardinality(M)
  /\ type.set /\ type.style = "joining" =>
       \A i, j \in M : ~ touches(i, j)
  /\ ~ type.set =>
       /\ \A s \in M : s.val \subseteq Values /\ ~ is_absorbable(type, s.val)
       /\ type.joins => \A s, t \in M : ~ joinable(s, t)

\* An operation returns a well formed map of these elements.
Gives(M, f) == WellFormed(M) /\ Content(M) = f

TypeOK == type \in SetTypes \cup MapTypes /\ WellFormed(object)

\* An operation with a segment changes the value of each key of its interval
\* as icl::map would, and of no other: what sticks out of it on the left and
\* on the right keeps its value, gaps are filled, however the map was cut.
SegmentOpsExact ==
  ~ type.set => \A s \in Segments :
    LET f == Content(object)
        Would(op) == AtKeys(op, type, f, Elements(s.itv), s.val)
    IN /\ Content(AddSegment(type, object, s)) = Would("add")
       /\ Content(SubtractSegment(type, object, s)) = Would("subtract")
       /\ Content(InsertSegment(type, object, s)) = Would("insert")
       /\ Content(EraseSegment(type, object, s)) = Would("erase")
       /\ Content(EraseInterval(object, s.itv)) = WithoutKeys(f, Elements(s.itv))
       /\ ~ is_absorbable(type, s.val) =>
            Content(SetAt(type, object, s)) = Would("set")
       /\ ~ is_empty(s.itv) =>
            Content(FlipSegment(type, object, s)) = Would("flip")

\* An operation with a map or with a set of keys, which visits only what lies
\* in the common range, does what icl::map does element by element.
OperandOpsExact ==
  ~ type.set =>
    LET f == Content(object)
    IN /\ \A T \in MapOperands :
            LET g == Content(T)
            IN /\ Gives(AddMap(type, object, T), WithEach("add", type, f, g))
               /\ Gives(SubtractMap(type, object, T), WithEach("subtract", type, f, g))
               /\ Gives(InsertMap(type, object, T), WithEach("insert", type, f, g))
               /\ Gives(EraseMap(type, object, T), WithEach("erase", type, f, g))
               /\ Gives(SectionWithMap(type, object, T), Section(type, f, g))
               /\ Gives(FlipMap(type, object, T), WithEach("flip", type, f, g))
               /\ IntersectsMap(type, object, T) <=> Keys(Section(type, f, g)) # {}
       /\ \A K \in KeySets :
            /\ Gives(EraseKeys(object, K), WithoutKeys(f, ElementsOf(K)))
            /\ Gives(SectionWithSet2(type, object, K), OnKeys(f, ElementsOf(K)))
            /\ IntersectsKeys(type, object, K) <=> Keys(f) \cap ElementsOf(K) # {}

\* The operations of the three interval sets are those of sets of elements.
SetOpsExact ==
  type.set =>
    LET X == ElementsOf(object)
        Flipped(Y) == (X \ Y) \cup (Y \ X)
        style == type.style
    IN /\ \A i \in Given :
            LET Y == Elements(i)
            IN /\ ElementsOf(AddInterval(style, object, i)) = X \cup Y
               /\ ElementsOf(SubtractInterval(object, i)) = X \ Y
               /\ ~ is_empty(i) =>
                    ElementsOf(FlipInterval(style, object, i)) = Flipped(Y)
       /\ \A T \in SetOperands :
            LET Y == ElementsOf(T)
            IN /\ ElementsOf(AddSet(style, object, T)) = X \cup Y
               /\ ElementsOf(EraseSet(object, T)) = X \ Y
               /\ ElementsOf(SectionWithSet(style, object, T)) = X \cap Y
               /\ IntersectsSet(style, object, T) <=> X \cap Y # {}
               /\ ElementsOf(FlipSet(style, object, T)) = Flipped(Y)
       /\ X # {} => ElementsOf(BetweenSet(style, object)) = (Min(X) .. Max(X)) \ X

\* Queries do not depend on how a container is cut: containment, intersection,
\* limits and size are those of the elements, and an element is found in the
\* segment that has it.
QueriesExact ==
  LET I == IF type.set THEN object ELSE KeysOf(object)
      X == ElementsOf(I)
  IN /\ \A i \in Given :
          /\ ContainsInterval(I, i) <=> Elements(i) \subseteq X
          /\ Intersects(I, i) <=> Elements(i) \cap X # {}
     /\ \A k \in Ticks : find(I, k) = {i \in I : k \in Elements(i)}
     /\ CardinalityOf(I) = Cardinality(X) /\ LengthOf(I) = Cardinality(X)
     /\ X # {} => Elements(HullOf(I)) = Min(X) .. Max(X)
     /\ DistanceOf(I) = Cardinality(Elements(HullOf(I)) \ X)
     /\ X # {} => FirstOf(I) = Min(X) /\ LastOf(I) = Max(X)
     /\ X = {} => UpperOf(I) < LowerOf(I)
     /\ \A style \in Styles : ~ type.set =>
          /\ ElementsOf(DomainOf(style, object)) = X
          /\ ElementsOf(BetweenMap(style, object)) = Elements(HullOf(I)) \ X
     /\ ~ type.set => \A s \in Segments :
          LET f == Content(object)
              common_keys == Elements(s.itv) \cap X
          IN /\ ContainsKeys(object, s.itv) <=> Elements(s.itv) \subseteq X
             /\ ContainsSegment(object, s) <=> \A k \in Elements(s.itv) : f[k] = s.val
             /\ IntersectsSegment(type, object, s) <=>
                  \E k \in common_keys : cell_section(type, f[k], s.val) # NoValue

\* join leaves no two neighbours that could be one, and no element changes: the
\* part of a run that is erased is the part its last segment grew over.
JoinCoalesces ==
  /\ type.set =>
       LET J == JoinSet(object)
       IN /\ ElementsOf(J) = ElementsOf(object)
          /\ \A i, j \in J : Apart(i, j) /\ ~ touches(i, j)
  /\ ~ type.set =>
       LET J == JoinMap(object)
       IN /\ Content(J) = Content(object)
          /\ \A s, t \in J : Apart(s.itv, t.itv) /\ ~ joinable(s, t)

\* An element iterator passes each element once, in order, from the beginning
\* to the end and in reverse, and a step back undoes a step forward, also where
\* it leaves a segment.
IterationExact ==
  LET q == InOrder(IF type.set THEN object ELSE KeysOf(object))
      X == ElementsOf(ToSet(q))
      n == Cardinality(X)
      Passes(is_reverse, c) ==
        LET p == Walk(c, n)
            e == [k \in 1 .. n |-> dereference(is_reverse, c, p[k - 1])]
        IN /\ p[n] = elements_end(c)
           /\ \A k \in 1 .. n : decrement(c, p[k]) = p[k - 1]
           /\ {e[k] : k \in 1 .. n} = X
           /\ \A j, k \in 1 .. n :
                j < k => IF is_reverse THEN e[k] < e[j] ELSE e[j] < e[k]
  IN Passes(FALSE, q) /\ Passes(TRUE, Reverse(q))
=============================================================================
