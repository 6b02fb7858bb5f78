--------------------------- MODULE ICLElementMap ---------------------------
(***************************************************************************)
(* boost::icl::map with values that are sets, and std::set: the containers *)
(* of single elements that define what the interval containers mean.       *)
(*                                                                         *)
(* An operation of icl::map with a pair (k, v) touches the cell of k only, *)
(* so the map is modelled cell by cell: a cell holds NoValue or the value  *)
(* of its key, and a container is a function from keys to cells.  An       *)
(* operation with a segment or with another container is its element       *)
(* operation applied to each key (concept/element_map.hpp).  A set is a    *)
(* map whose only value is the empty set.                                  *)
(*                                                                         *)
(* Operators only: ICLContainers compares the interval containers with     *)
(* them.                                                                   *)
(***************************************************************************)
EXTENDS FiniteSets

CONSTANT NoValue   \* the cell of a key that is not in the container

\* on_absorbtion::is_absorbable; the identity of sets is the empty set.
Absorbable(tr, v) == tr.absorbs /\ v = {}

\* What is left of a value that a combiner returned.
Kept(tr, v) == IF Absorbable(tr, v) THEN NoValue ELSE v

cell_add(tr, c, v) ==
  IF Absorbable(tr, v) THEN c
  ELSE IF c = NoValue THEN v
  ELSE Kept(tr, c \cup v)

cell_subtract(tr, c, v) == IF c = NoValue THEN c ELSE Kept(tr, c \ v)

cell_insert(tr, c, v) == IF c = NoValue THEN Kept(tr, v) ELSE c

\* erase(key_value_pair): only if exactly this value is stored.
cell_erase(tr, c, v) == IF c = v /\ ~ Absorbable(tr, v) THEN NoValue ELSE c

cell_set(tr, c, v) == IF Absorbable(tr, v) THEN c ELSE v

\* partial_add_intersection to an empty section: the stored pair is added, then
\* combined with the operand by &=.
cell_section(tr, c, v) ==
  IF c = NoValue THEN NoValue
  ELSE IF Absorbable(tr, v) THEN c
  ELSE Kept(tr, c \cap v)

\* flip: insert, and on collision ^= of the values.
cell_flip(tr, c, v) ==
  IF c = NoValue THEN Kept(tr, v)
  ELSE Kept(tr, (c \ v) \cup (v \ c))

-----------------------------------------------------------------------------
cell(op, tr, c, v) ==
  CASE op = "add"      -> cell_add(tr, c, v)
    [] op = "subtract" -> cell_subtract(tr, c, v)
    [] op = "insert"   -> cell_insert(tr, c, v)
    [] op = "erase"    -> cell_erase(tr, c, v)
    [] op = "set"      -> cell_set(tr, c, v)
    [] op = "flip"     -> cell_flip(tr, c, v)

\* An operation with the value v at each of the keys K.
AtKeys(op, tr, f, K, v) ==
  [k \in DOMAIN f |-> IF k \in K THEN cell(op, tr, f[k], v) ELSE f[k]]

\* An operation with each element of the container g.
WithEach(op, tr, f, g) ==
  [k \in DOMAIN f |-> IF g[k] = NoValue THEN f[k] ELSE cell(op, tr, f[k], g[k])]

\* operator -= with a set of keys, and operator &= with one.
WithoutKeys(f, K) == [k \in DOMAIN f |-> IF k \in K THEN NoValue ELSE f[k]]
OnKeys(f, K) == [k \in DOMAIN f |-> IF k \in K THEN f[k] ELSE NoValue]

\* operator &= with a container: a section of the common keys.
Section(tr, f, g) ==
  [k \in DOMAIN f |-> IF g[k] = NoValue THEN NoValue
                      ELSE cell_section(tr, f[k], g[k])]

\* domain(map)
Keys(f) == {k \in DOMAIN f : f[k] # NoValue}
=============================================================================
