------------------------------ MODULE TermMap ------------------------------
(***************************************************************************)
(* An Elixir map as runtime.ex keeps it: a persistent weight-balanced       *)
(* search tree ordered by $term_compare (Adams' algorithm, delta 3, gamma   *)
(* 2), the operations of `maps' over it, and the trees that the compiler    *)
(* emits for map literals.                                                 *)
(***************************************************************************)
EXTENDS WeightBalance, Sequences, SequencesExt, FiniteSets

CONSTANTS
  Keys, Values,         \* the terms a program uses as keys and values
  Literals,             \* the maps it writes as literals: functions from keys to values
  KeyLists,             \* the lists it gives to maps:from_keys
  TermOrder(_, _),      \* -1, 0 or 1: $term_compare, of the runtime
  CompilerOrder(_, _)   \* the same of Enum.sort, in the compiler

\* a total order as a comparison gives it, by a sign
IsTotalOrder(order(_, _), S) ==
  /\ \A x, y \in S : /\ order(x, y) \in {-1, 0, 1}
                     /\ order(x, y) = 0 <=> x = y
                     /\ order(x, y) = -order(y, x)
  /\ \A x, y, z \in S : order(x, y) = -1 /\ order(y, z) = -1 => order(x, z) = -1

\* What both must be on the keys for a search tree to exist at all.  $term_compare is not a
\* total order of all terms: 1 and 1.0 are equal to it, and numbers above 2^53 compare as
\* doubles; a program with such keys is not among those described here.
ASSUME OrderAssumption == IsTotalOrder(TermOrder, Keys) /\ IsTotalOrder(CompilerOrder, Keys)

ASSUME ProgramAssumption ==
  /\ \A d \in Literals : /\ DOMAIN d \subseteq Keys /\ IsFiniteSet(DOMAIN d)
                         /\ d \in [DOMAIN d -> Values]
  /\ KeyLists \subseteq Seq(Keys)

VARIABLE map

-----------------------------------------------------------------------------
(* Search trees.                                                           *)

\* the trees of at most n levels whose nodes count themselves and what hangs on them
TreesTo[n \in Nat] ==
  IF n = 0 THEN {Empty}
  ELSE LET lower == TreesTo[n - 1]
       IN {Empty} \cup
          {t \in [key : Keys, val : Values, left : lower, right : lower, size : Nat] :
             t.size = 1 + t.left.size + t.right.size}

\* a tree and its subtrees are among these
Within(t) == TreesTo[t.size]

\* the key is there: a new node in its place; the mutant keeps the old value
KeepValue(t, k, v) == Node(k, t.val, t.left, t.right)
Replace(t, k, v) == Node(k, v, t.left, t.right)

\* $mput
Put(t, k, v) ==
  LET put[u \in Within(t)] ==
        IF u = Empty THEN Node(k, v, Empty, Empty)
        ELSE LET c == TermOrder(k, u.key)
             IN IF c < 0 THEN Balance(u.key, u.val, put[u.left], u.right)
                ELSE IF c > 0 THEN Balance(u.key, u.val, u.left, put[u.right])
                ELSE Replace(u, k, v)
  IN put[t]

\* $mfind: the node, or Empty for null
Find(t, k) ==
  LET find[u \in Within(t)] ==
        IF u = Empty THEN Empty
        ELSE LET c == TermOrder(k, u.key)
             IN IF c = 0 THEN u ELSE IF c < 0 THEN find[u.left] ELSE find[u.right]
  IN find[t]

Has(t, k) == Find(t, k) # Empty

\* the index that remains in the right subtree; the mutant does not count the node
RestWithNode(i, t) == i - t.left.size
Rest(i, t) == i - (t.left.size + 1)

\* $msel: the i-th node in key order, from 0
Select(t, i) ==
  LET select[u \in Within(t)] ==
        [j \in Nat |-> IF u = Empty \/ j = u.left.size THEN u
                       ELSE IF j < u.left.size THEN select[u.left][j]
                       ELSE select[u.right][Rest(j, u)]]
  IN select[t][i]

\* $mflat, $map_kv: the pairs in tree order
Flat(t) ==
  LET flat[u \in Within(t)] ==
        IF u = Empty THEN <<>> ELSE flat[u.left] \o <<Pair(u.key, u.val)>> \o flat[u.right]
  IN flat[t]

\* put the pairs one after the other: $map_from_kv, maps:merge, maps:from_keys
PutAll(t, pairs) ==
  LET after[n \in 0 .. Len(pairs)] ==
        IF n = 0 THEN t ELSE Put(after[n - 1], pairs[n].key, pairs[n].val)
  IN after[Len(pairs)]

-----------------------------------------------------------------------------
(* The trees of map literals, built at compile time.                       *)

\* build_tree_expr, const_tree: the median is the root; the mutant forgets it in the size
SizeOfHalves(n) == n - 1
SizeOf(n) == n

\* build[c][i]: the tree of the c pairs that follow the i-th
BuildTree(pairs) ==
  LET n == Len(pairs)
      build[c \in 0 .. n] ==
        [i \in 0 .. n - c |->
           IF c = 0 THEN Empty
           ELSE LET m == c \div 2
                    root == pairs[i + m + 1]
                IN [key |-> root.key, val |-> root.val,
                    left |-> build[m][i], right |-> build[c - m - 1][i + m + 1],
                    size |-> SizeOf(c)]]
  IN build[n][0]

\* the pairs sorted by Enum.sort, in the compiler
SortedPairs(d) ==
  LET Before(k) == {x \in DOMAIN d : CompilerOrder(x, k) < 0}
      KeyAt(i) == CHOOSE k \in DOMAIN d : Cardinality(Before(k)) = i - 1
  IN [i \in 1 .. Cardinality(DOMAIN d) |-> Pair(KeyAt(i), d[KeyAt(i)])]

LiteralTree(d) == BuildTree(SortedPairs(d))

-----------------------------------------------------------------------------
(* The operations.                                                         *)

Init == map = Empty

Literal(d) == map' = LiteralTree(d)

MapPut(k, v) == map' = Put(map, k, v)

\* maps:update raises {:badkey, k} when the key is absent
MapUpdate(k, v) == Has(map, k) /\ map' = Put(map, k, v)

\* maps:remove, and what maps:take leaves: flatten, cut the pair out, rebuild
MapRemove(k) ==
  /\ Has(map, k)
  /\ LET pairs == Flat(map)
         i == CHOOSE i \in DOMAIN pairs :
                /\ TermOrder(pairs[i].key, k) = 0
                /\ \A j \in 1 .. i - 1 : TermOrder(pairs[j].key, k) # 0
     IN map' = PutAll(Empty, RemoveAt(pairs, i))

MapMerge(d) == map' = PutAll(map, Flat(LiteralTree(d)))

FromKeys(ks, v) == map' = PutAll(Empty, [i \in DOMAIN ks |-> Pair(ks[i], v)])

Next ==
  \/ \E d \in Literals : Literal(d) \/ MapMerge(d)
  \/ \E k \in Keys, v \in Values : MapPut(k, v) \/ MapUpdate(k, v)
  \/ \E k \in Keys : MapRemove(k)
  \/ \E ks \in KeyLists, v \in Values : FromKeys(ks, v)

Spec == Init /\ [][Next]_map

-----------------------------------------------------------------------------
(* Properties.                                                             *)

Subtrees(t) ==
  LET subtrees[u \in Within(t)] ==
        {u} \cup IF u = Empty THEN {} ELSE subtrees[u.left] \cup subtrees[u.right]
  IN subtrees[t]

Nodes(t) == Subtrees(t) \ {Empty}

\* The tree is made of the program's keys and values, and every node counts its
\* descendants: iteration finds its way by these sizes.
TypeOK == map \in Within(map)

\* Tree order is the strict order of $term_compare, seen from either side, between any
\* two keys and not only neighbours: every lookup decides by a few of them.
KeysOrdered ==
  LET pairs == Flat(map)
  IN \A i, j \in DOMAIN pairs : i < j =>
       TermOrder(pairs[i].key, pairs[j].key) = -1 /\ TermOrder(pairs[j].key, pairs[i].key) = 1

\* "O(log n) get/put": no side of a node outweighs the other by more than delta.
Balanced ==
  \A t \in Nodes(map) : Even(t.left.size, t.right.size)

\* The two ways into the tree agree with its contents: the search by key finds the pair
\* of each key and no other, the search by index runs through all of them and stops.
ReadsAgree ==
  LET pairs == Flat(map)
  IN /\ \A i \in DOMAIN pairs : LET found == Find(map, pairs[i].key)
                                    nth == Select(map, i - 1)
                                IN /\ found # Empty /\ nth # Empty
                                   /\ Pair(found.key, found.val) = pairs[i]
                                   /\ Pair(nth.key, nth.val) = pairs[i]
     /\ Select(map, Len(pairs)) = Empty
     /\ \A k \in Keys : Has(map, k) => \E i \in DOMAIN pairs : pairs[i].key = k
=============================================================================
