--------------------------- MODULE TermMapProofs ---------------------------
(***************************************************************************)
(* An Elixir map is a balanced search tree and a dictionary, for maps of    *)
(* any size, any keys and values and any sequence of operations.            *)
(*                                                                         *)
(* The proof goes by induction over trees (TreeInduction), which follows    *)
(* from induction over sets of numbers (SetInduction) and so from the       *)
(* least-number principle of the library.  Every recursive function of      *)
(* TermMap is first shown to satisfy its own equation (TreeRecursion: the   *)
(* ...Unfolds lemmas); then what each one returns is proved by induction,   *)
(* and the theorems about the variable `map' at the end follow from one     *)
(* lemma per operation.                                                    *)
(***************************************************************************)
EXTENDS MapDictionary, SequenceTheorems, FiniteSetTheorems, WellFoundedInduction, TLAPS

-----------------------------------------------------------------------------
(* Induction.  A set that holds 0 and, with a number, the next, holds every  *)
(* number: a least number outside it would follow one inside.               *)

LEMMA SetInduction ==
  ASSUME NEW S, 0 \in S, \A n \in Nat : n \in S => n + 1 \in S
  PROVE  Nat \subseteq S
<1> DEFINE R == OpToRel(<, Nat)
           T == Nat \ S
<1> SUFFICES ASSUME T # {} PROVE FALSE
  OBVIOUS
<1>1. T \subseteq Nat
  OBVIOUS
<1>2. IsWellFoundedOn(R, Nat)
  BY NatLessThanWellFounded, Zenon
<1>3. \A m, n \in Nat : m < n => <<m, n>> \in R
  BY DEF OpToRel
<1> HIDE DEF R
<1>4. PICK x \in T : \A y \in T : ~(<<y, x>> \in R)
  BY <1>1, <1>2, WFMin, Zenon
<1>5. x \in Nat /\ x # 0
  OBVIOUS
<1>6. x - 1 \in Nat /\ x - 1 < x /\ (x - 1) + 1 = x
  BY <1>5
<1>7. x - 1 \notin T
  BY <1>3, <1>4, <1>5, <1>6
<1> QED
  BY <1>5, <1>6, <1>7

-----------------------------------------------------------------------------
(* Trees.                                                                  *)

\* one level more over the trees in S
Level(S) ==
  {Empty} \cup {t \in [key : Keys, val : Values, left : S, right : S, size : Nat] :
                  t.size = 1 + t.left.size + t.right.size}

\* TreesTo, up to some n
TreesUpTo(n, f) == f = [m \in 0 .. n |-> IF m = 0 THEN {Empty} ELSE Level(f[m - 1])]

LEMMA TreesUpToExists == \A n \in Nat : \E f : TreesUpTo(n, f)
<1> DEFINE S == {n \in Nat : \E f : TreesUpTo(n, f)}
<1>1. 0 \in S
  <2> DEFINE f == [m \in 0 .. 0 |-> {Empty}]
  <2>1. TreesUpTo(0, f)
    BY DEF TreesUpTo
  <2> QED
    BY <2>1
<1>2. ASSUME NEW n \in Nat, n \in S PROVE n + 1 \in S
  <2>1. PICK f : TreesUpTo(n, f)
    BY <1>2
  <2>2. /\ DOMAIN f = 0 .. n
        /\ \A m \in 0 .. n : f[m] = IF m = 0 THEN {Empty} ELSE Level(f[m - 1])
    BY <2>1 DEF TreesUpTo
  <2> DEFINE g == [m \in 0 .. n + 1 |-> IF m = n + 1 THEN Level(f[n]) ELSE f[m]]
             G == [m \in 0 .. n + 1 |-> IF m = 0 THEN {Empty} ELSE Level(g[m - 1])]
  <2>3. \A m \in 0 .. n + 1 : g[m] = IF m = 0 THEN {Empty} ELSE Level(g[m - 1])
    <3> TAKE m \in 0 .. n + 1
    <3>1. CASE m = n + 1
      BY <3>1
    <3>2. CASE m \in 0 .. n
      <4>1. g[m] = f[m]
        BY <3>2
      <4>2. m # 0 => m - 1 \in 0 .. n /\ m - 1 \in 0 .. n + 1 /\ g[m - 1] = f[m - 1]
        BY <3>2
      <4> HIDE DEF g
      <4> QED
        BY <2>2, <3>2, <4>1, <4>2
    <3> QED
      BY <3>1, <3>2
  <2>4. g = G
    <3>1. \A m \in 0 .. n + 1 : g[m] = G[m]
      <4> HIDE DEF g
      <4> QED
        BY <2>3
    <3>2. DOMAIN g = 0 .. n + 1 /\ DOMAIN G = 0 .. n + 1
      OBVIOUS
    <3> QED
      BY <3>1
  <2>5. TreesUpTo(n + 1, g)
    BY <2>4 DEF TreesUpTo
  <2> QED
    BY <2>5
<1> HIDE DEF S
<1>3. Nat \subseteq S
  BY <1>1, <1>2, SetInduction
<1> QED
  BY <1>3 DEF S

LEMMA TreesUpToAgree ==
  ASSUME NEW m \in Nat, NEW n \in Nat, m <= n, NEW f, TreesUpTo(m, f), NEW g, TreesUpTo(n, g)
  PROVE  \A i \in 0 .. m : f[i] = g[i]
<1> DEFINE S == {i \in Nat : i <= m => f[i] = g[i]}
<1>1. \A i \in 0 .. m : f[i] = IF i = 0 THEN {Empty} ELSE Level(f[i - 1])
  BY DEF TreesUpTo
<1>2. \A i \in 0 .. n : g[i] = IF i = 0 THEN {Empty} ELSE Level(g[i - 1])
  BY DEF TreesUpTo
<1>3. 0 \in S
  BY <1>1, <1>2
<1>4. ASSUME NEW i \in Nat, i \in S PROVE i + 1 \in S
  <2> SUFFICES ASSUME i + 1 <= m PROVE f[i + 1] = g[i + 1]
    OBVIOUS
  <2>1. f[i + 1] = Level(f[i]) /\ g[i + 1] = Level(g[i])
    <3>1. i + 1 \in 0 .. m /\ i + 1 \in 0 .. n /\ i + 1 # 0 /\ (i + 1) - 1 = i
      OBVIOUS
    <3> QED
      BY <1>1, <1>2, <3>1
  <2>2. f[i] = g[i]
    BY <1>4
  <2> QED
    BY <2>1, <2>2
<1> HIDE DEF S
<1>5. Nat \subseteq S
  BY <1>3, <1>4, SetInduction
<1> QED
  BY <1>5 DEF S

LEMMA TreesToDef ==
  /\ TreesTo[0] = {Empty}
  /\ \A n \in Nat : TreesTo[n + 1] = Level(TreesTo[n])
<1> DEFINE c(n) == CHOOSE f : TreesUpTo(n, f)
           F == [n \in Nat |-> c(n)[n]]
           Body(f) == [n \in Nat |-> IF n = 0 THEN {Empty} ELSE Level(f[n - 1])]
<1>1. \A n \in Nat : TreesUpTo(n, c(n))
  BY TreesUpToExists
<1> HIDE DEF c
<1>2. \A n \in Nat : F[n] = IF n = 0 THEN {Empty} ELSE Level(F[n - 1])
  <2> TAKE n \in Nat
  <2>1. n \in 0 .. n /\ TreesUpTo(n, c(n))
    BY <1>1
  <2>2. c(n)[n] = IF n = 0 THEN {Empty} ELSE Level(c(n)[n - 1])
    BY <2>1 DEF TreesUpTo
  <2>3. ASSUME n # 0 PROVE c(n)[n - 1] = c(n - 1)[n - 1]
    <3>1. n - 1 \in Nat /\ n - 1 <= n /\ n - 1 \in 0 .. n - 1
      BY <2>3
    <3>2. TreesUpTo(n - 1, c(n - 1))
      BY <1>1, <3>1
    <3> QED
      BY <2>1, <3>1, <3>2, TreesUpToAgree
  <2>4. n # 0 => n - 1 \in Nat /\ F[n - 1] = c(n - 1)[n - 1]
    OBVIOUS
  <2>5. F[n] = c(n)[n]
    OBVIOUS
  <2> HIDE DEF F
  <2> QED
    BY <2>2, <2>3, <2>4, <2>5
<1>3. F = Body(F)
  <2>1. \A n \in Nat : F[n] = Body(F)[n]
    <3> HIDE DEF F
    <3> QED
      BY <1>2
  <2>2. DOMAIN F = Nat /\ DOMAIN Body(F) = Nat
    OBVIOUS
  <2>3. F = [n \in Nat |-> F[n]] /\ Body(F) = [n \in Nat |-> Body(F)[n]]
    OBVIOUS
  <2> HIDE DEF F, Body
  <2> QED
    BY <2>1, <2>3, Zenon
<1>4. TreesTo = CHOOSE f : f = Body(f)
  BY DEF TreesTo, Level
<1> HIDE DEF F
<1>5. TreesTo = Body(TreesTo)
  <2> HIDE DEF Body
  <2> QED
    BY <1>3, <1>4, Zenon
<1>6. \A n \in Nat : TreesTo[n] = IF n = 0 THEN {Empty} ELSE Level(TreesTo[n - 1])
  <2> DEFINE T == TreesTo
  <2> HIDE DEF T
  <2>1. T = Body(T)
    BY <1>5 DEF T
  <2>2. \A n \in Nat : T[n] = IF n = 0 THEN {Empty} ELSE Level(T[n - 1])
    BY <2>1
  <2> QED
    BY <2>2 DEF T
<1> QED
  <2>1. ASSUME NEW n \in Nat PROVE TreesTo[n + 1] = Level(TreesTo[n])
    <3>1. n + 1 \in Nat /\ n + 1 # 0 /\ (n + 1) - 1 = n
      OBVIOUS
    <3> QED
      BY <1>6, <3>1
  <2>2. TreesTo[0] = {Empty}
    BY <1>6
  <2> QED
    BY <2>1, <2>2

\* all trees of the program's keys and values
Tree == UNION {TreesTo[n] : n \in Nat}

IsNode(t, S) ==
  /\ t = Node(t.key, t.val, t.left, t.right)
  /\ t.key \in Keys /\ t.val \in Values /\ t.left \in S /\ t.right \in S

LEMMA NodeFields ==
  ASSUME NEW k, NEW v, NEW l, NEW r
  PROVE  LET t == Node(k, v, l, r)
         IN /\ t.key = k /\ t.val = v /\ t.left = l /\ t.right = r
            /\ t.size = 1 + l.size + r.size
BY DEF Node

LEMMA LevelMembers ==
  ASSUME NEW S, \A t \in S : t.size \in Nat
  PROVE  /\ Empty \in Level(S)
         /\ \A k \in Keys, v \in Values, l \in S, r \in S : Node(k, v, l, r) \in Level(S)
         /\ \A t \in Level(S) : t.size \in Nat /\ (t = Empty \/ IsNode(t, S))
<1>1. Empty \in Level(S)
  BY DEF Level
<1>2. ASSUME NEW k \in Keys, NEW v \in Values, NEW l \in S, NEW r \in S
      PROVE  Node(k, v, l, r) \in Level(S)
  <2> DEFINE n == 1 + l.size + r.size
             t == [key |-> k, val |-> v, left |-> l, right |-> r, size |-> n]
  <2>1. n \in Nat
    OBVIOUS
  <2>2. t.size = 1 + t.left.size + t.right.size
    OBVIOUS
  <2>3. t = Node(k, v, l, r)
    BY DEF Node
  <2>4. t \in [key : Keys, val : Values, left : S, right : S, size : Nat]
    <3> HIDE DEF n
    <3> QED
      BY <2>1
  <2> HIDE DEF t
  <2> QED
    BY <2>2, <2>3, <2>4 DEF Level
<1>3. ASSUME NEW t \in Level(S) PROVE t.size \in Nat /\ (t = Empty \/ IsNode(t, S))
  <2>1. CASE t = Empty
    BY <2>1 DEF Empty
  <2>2. CASE /\ t \in [key : Keys, val : Values, left : S, right : S, size : Nat]
             /\ t.size = 1 + t.left.size + t.right.size
    <3>1. /\ t.key \in Keys /\ t.val \in Values /\ t.left \in S /\ t.right \in S /\ t.size \in Nat
          /\ t = [key |-> t.key, val |-> t.val, left |-> t.left, right |-> t.right, size |-> t.size]
      BY <2>2
    <3>2. t = Node(t.key, t.val, t.left, t.right)
      BY <2>2, <3>1 DEF Node
    <3> QED
      BY <3>1, <3>2 DEF IsNode
  <2> QED
    BY <2>1, <2>2 DEF Level
<1> QED
  BY <1>1, <1>2, <1>3

\* the levels: trees of n levels are trees of n + 1 levels
LEMMA Levels ==
  \A n \in Nat : /\ Empty \in TreesTo[n]
                 /\ \A t \in TreesTo[n] : t.size \in Nat
                 /\ TreesTo[n] \subseteq TreesTo[n + 1]
<1> DEFINE Good(n) == /\ Empty \in TreesTo[n]
                      /\ \A t \in TreesTo[n] : t.size \in Nat
                      /\ TreesTo[n] \subseteq TreesTo[n + 1]
           S == {n \in Nat : Good(n)}
<1>1. 0 \in S
  <2>1. Empty \in TreesTo[0] /\ \A t \in TreesTo[0] : t.size = 0
    BY TreesToDef DEF Empty
  <2>2. TreesTo[0] \subseteq TreesTo[0 + 1]
    <3>1. TreesTo[0 + 1] = Level(TreesTo[0])
      BY TreesToDef
    <3>2. Empty \in Level(TreesTo[0])
      BY DEF Level
    <3> QED
      BY <3>1, <3>2, TreesToDef
  <2> QED
    BY <2>1, <2>2
<1>2. ASSUME NEW n \in Nat, n \in S PROVE n + 1 \in S
  <2>1. Good(n)
    BY <1>2
  <2>2. TreesTo[n + 1] = Level(TreesTo[n]) /\ TreesTo[(n + 1) + 1] = Level(TreesTo[n + 1])
    <3>1. n + 1 \in Nat
      OBVIOUS
    <3> QED
      BY <3>1, TreesToDef
  <2>3. Empty \in TreesTo[n + 1] /\ \A t \in TreesTo[n + 1] : t.size \in Nat
    BY <2>1, <2>2, LevelMembers
  <2>4. Level(TreesTo[n]) \subseteq Level(TreesTo[n + 1])
    <3> DEFINE A == TreesTo[n]  B == TreesTo[n + 1]
    <3>1. A \subseteq B
      BY <2>1
    <3> HIDE DEF A, B
    <3>2. Level(A) \subseteq Level(B)
      BY <3>1 DEF Level
    <3> QED
      BY <3>2 DEF A, B
  <2>5. n + 1 \in Nat
    OBVIOUS
  <2>6. Good(n + 1)
    <3> HIDE DEF S
    <3> QED
      BY <2>2, <2>3, <2>4
  <2> QED
    BY <2>5, <2>6
<1> HIDE DEF S
<1>3. Nat \subseteq S
  BY <1>1, <1>2, SetInduction
<1> QED
  BY <1>3 DEF S

LEMMA LevelsGrow == ASSUME NEW m \in Nat, NEW n \in Nat, m <= n PROVE TreesTo[m] \subseteq TreesTo[n]
<1> DEFINE S == {i \in Nat : TreesTo[m] \subseteq TreesTo[m + i]}
<1>1. 0 \in S
  <2>1. m + 0 = m
    OBVIOUS
  <2> QED
    BY <2>1
<1>2. ASSUME NEW i \in Nat, i \in S PROVE i + 1 \in S
  <2>1. m + i \in Nat /\ m + (i + 1) = (m + i) + 1
    OBVIOUS
  <2>2. TreesTo[m + i] \subseteq TreesTo[(m + i) + 1]
    BY <2>1, Levels
  <2>3. TreesTo[m] \subseteq TreesTo[m + (i + 1)]
    BY <1>2, <2>1, <2>2
  <2> QED
    BY <2>3
<1> HIDE DEF S
<1>3. n - m \in S
  <2>1. n - m \in Nat
    OBVIOUS
  <2> QED
    BY <1>1, <1>2, <2>1, SetInduction
<1>4. m + (n - m) = n
  OBVIOUS
<1> QED
  BY <1>3, <1>4 DEF S

\* what can be said of a tree
LEMMA TreeParts ==
  /\ Empty \in Tree /\ Empty.size = 0
  /\ \A k \in Keys, v \in Values, l \in Tree, r \in Tree :
       Node(k, v, l, r) \in Tree /\ Node(k, v, l, r) # Empty
  /\ \A t \in Tree : t.size \in Nat
  /\ \A t \in Tree : t = Empty \/ IsNode(t, Tree)
<1>1. Empty \in Tree /\ Empty.size = 0
  BY Levels DEF Tree, Empty
<1>2. \A t \in Tree : t.size \in Nat
  BY Levels DEF Tree
<1>3. ASSUME NEW k \in Keys, NEW v \in Values, NEW l \in Tree, NEW r \in Tree
      PROVE  Node(k, v, l, r) \in Tree /\ Node(k, v, l, r) # Empty
  <2>1. PICK m \in Nat, n \in Nat : l \in TreesTo[m] /\ r \in TreesTo[n]
    BY DEF Tree
  <2> DEFINE i == m + n
  <2>2. i \in Nat /\ i + 1 \in Nat /\ m <= i /\ n <= i
    OBVIOUS
  <2> HIDE DEF i
  <2>3. l \in TreesTo[i] /\ r \in TreesTo[i]
    BY <2>1, <2>2, LevelsGrow
  <2>4. \A t \in TreesTo[i] : t.size \in Nat
    BY <2>2, Levels
  <2>5. Node(k, v, l, r) \in TreesTo[i + 1]
    BY <2>2, <2>3, <2>4, TreesToDef, LevelMembers
  <2>6. Node(k, v, l, r).size # 0
    BY <1>2, NodeFields
  <2> QED
    BY <2>2, <2>5, <2>6, <1>1 DEF Tree
<1>4. ASSUME NEW t \in Tree PROVE t = Empty \/ IsNode(t, Tree)
  <2>1. PICK n \in Nat : t \in TreesTo[n]
    BY DEF Tree
  <2>2. CASE n = 0
    BY <2>1, <2>2, TreesToDef
  <2>3. CASE n # 0
    <3>1. n - 1 \in Nat /\ (n - 1) + 1 = n
      BY <2>3
    <3>2. TreesTo[n] = Level(TreesTo[n - 1])
      BY <3>1, TreesToDef
    <3>3. t = Empty \/ IsNode(t, TreesTo[n - 1])
      BY <2>1, <3>1, <3>2, Levels, LevelMembers
    <3>4. TreesTo[n - 1] \subseteq Tree
      BY <3>1 DEF Tree
    <3> QED
      BY <3>3, <3>4 DEF IsNode
  <2> QED
    BY <2>2, <2>3
<1> QED
  BY <1>1, <1>2, <1>3, <1>4

\* the parts of a node
LEMMA NodeParts ==
  ASSUME NEW t \in Tree, t # Empty
  PROVE  /\ t.key \in Keys /\ t.val \in Values /\ t.left \in Tree /\ t.right \in Tree
         /\ t = Node(t.key, t.val, t.left, t.right)
         /\ t.left.size \in Nat /\ t.right.size \in Nat
         /\ t.size = 1 + t.left.size + t.right.size
<1>1. IsNode(t, Tree)
  BY TreeParts
<1>2. /\ t.key \in Keys /\ t.val \in Values /\ t.left \in Tree /\ t.right \in Tree
      /\ t = Node(t.key, t.val, t.left, t.right)
  BY <1>1 DEF IsNode
<1>3. t.size = 1 + t.left.size + t.right.size
  BY <1>2, NodeFields
<1> QED
  BY <1>2, <1>3, TreeParts

\* what holds of the empty tree, and of a node when of its subtrees, holds of all trees
LEMMA TreeInduction ==
  ASSUME NEW S, Empty \in S,
         \A t \in Tree : t # Empty /\ t.left \in S /\ t.right \in S => t \in S
  PROVE  Tree \subseteq S
<1> DEFINE N == {n \in Nat : TreesTo[n] \subseteq S}
<1>1. 0 \in N
  BY TreesToDef
<1>2. ASSUME NEW n \in Nat, n \in N PROVE n + 1 \in N
  <2>1. TreesTo[n + 1] = Level(TreesTo[n]) /\ n + 1 \in Nat
    BY TreesToDef
  <2>2. ASSUME NEW t \in TreesTo[n + 1] PROVE t \in S
    <3>1. t \in Tree
      BY <2>1 DEF Tree
    <3>2. t = Empty \/ IsNode(t, TreesTo[n])
      BY <2>1, Levels, LevelMembers
    <3>3. CASE IsNode(t, TreesTo[n])
      <4>1. t.left \in S /\ t.right \in S
        BY <1>2, <3>3 DEF IsNode
      <4> QED
        BY <3>1, <4>1
    <3> QED
      BY <3>2, <3>3
  <2> QED
    BY <2>1, <2>2
<1> HIDE DEF N
<1>3. Nat \subseteq N
  BY <1>1, <1>2, SetInduction
<1> QED
  BY <1>3 DEF N, Tree

\* a tree has no more levels than nodes
LEMMA TreeWithin ==
  ASSUME NEW t \in Tree
  PROVE  /\ t \in Within(t) /\ Empty \in Within(t) /\ Within(t) \subseteq Tree
         /\ \A u \in Within(t) : u # Empty => u.left \in Within(t) /\ u.right \in Within(t)
<1> DEFINE S == {u \in Tree : u \in TreesTo[u.size]}
<1>1. Empty \in S
  BY TreeParts, Levels
<1>2. ASSUME NEW u \in Tree, u # Empty, u.left \in S, u.right \in S PROVE u \in S
  <2> DEFINE m == u.left.size + u.right.size
  <2>2. /\ u.left.size \in Nat /\ u.right.size \in Nat
        /\ u.size = 1 + u.left.size + u.right.size
    BY <1>2, NodeParts
  <2>1. u.size = m + 1 /\ m \in Nat /\ u.left.size <= m /\ u.right.size <= m
    BY <2>2
  <2> HIDE DEF m
  <2>3. u.left \in TreesTo[m] /\ u.right \in TreesTo[m]
    BY <1>2, <2>1, <2>2, LevelsGrow
  <2>4. Node(u.key, u.val, u.left, u.right) \in TreesTo[m + 1]
    <3> DEFINE k == u.key  v == u.val  l == u.left  r == u.right
    <3>1. k \in Keys /\ v \in Values /\ l \in TreesTo[m] /\ r \in TreesTo[m]
      BY <1>2, <2>3, NodeParts
    <3> HIDE DEF k, v, l, r
    <3>2. Node(k, v, l, r) \in TreesTo[m + 1]
      <4> DEFINE T == TreesTo[m]
      <4>1. \A x \in T : x.size \in Nat
        BY <2>1, Levels
      <4>2. TreesTo[m + 1] = Level(T)
        BY <2>1, TreesToDef
      <4>3. l \in T /\ r \in T
        BY <3>1
      <4> HIDE DEF T
      <4>4. Node(k, v, l, r) \in Level(T)
        BY <3>1, <4>1, <4>3, LevelMembers
      <4> QED
        BY <4>2, <4>4
    <3> QED
      BY <3>2 DEF k, v, l, r
  <2>5. u = Node(u.key, u.val, u.left, u.right)
    BY <1>2, NodeParts
  <2> QED
    BY <2>1, <2>4, <2>5
<1> HIDE DEF S
<1>3. Tree \subseteq S
  BY <1>1, <1>2, TreeInduction
<1>4. t \in Within(t)
  BY <1>3 DEF S, Within
<1>5. t.size \in Nat
  BY TreeParts
<1>6. Empty \in Within(t) /\ Within(t) \subseteq Tree
  BY <1>5, Levels DEF Within, Tree
<1>7. ASSUME NEW u \in Within(t), u # Empty PROVE u.left \in Within(t) /\ u.right \in Within(t)
  <2> DEFINE n == t.size
  <2>1. n \in Nat
    BY <1>5
  <2>2. u \in TreesTo[n]
    BY DEF Within
  <2> HIDE DEF n
  <2>3. n # 0
    BY <1>7, <2>2, TreesToDef
  <2>4. n - 1 \in Nat /\ (n - 1) + 1 = n
    BY <2>1, <2>3
  <2>5. TreesTo[n] = Level(TreesTo[n - 1])
    BY <2>4, TreesToDef
  <2>6. IsNode(u, TreesTo[n - 1])
    BY <1>7, <2>2, <2>4, <2>5, Levels, LevelMembers
  <2>7. TreesTo[n - 1] \subseteq TreesTo[n]
    BY <2>4, Levels
  <2> QED
    BY <2>6, <2>7 DEF IsNode, Within, n
<1> QED
  BY <1>4, <1>6, <1>7

-----------------------------------------------------------------------------
(* Recursion over a tree.                                                  *)

\* f computes, of the trees of at most n levels, what e and g say
Computes(n, f, V, e, g) ==
  /\ f \in [TreesTo[n] -> V]
  /\ f[Empty] = e
  /\ \A t \in TreesTo[n] : t # Empty => f[t] = g[t][f[t.left]][f[t.right]]

LEMMA LevelParts ==
  ASSUME NEW n \in Nat, NEW t \in TreesTo[n], t # Empty
  PROVE  /\ n # 0 /\ t.left \in TreesTo[n] /\ t.right \in TreesTo[n]
         /\ t.left \in TreesTo[n - 1] /\ t.right \in TreesTo[n - 1]
<1>1. n # 0
  BY TreesToDef
<1>2. n - 1 \in Nat /\ (n - 1) + 1 = n
  BY <1>1
<1>3. TreesTo[n] = Level(TreesTo[n - 1])
  BY <1>2, TreesToDef
<1>4. IsNode(t, TreesTo[n - 1])
  BY <1>2, <1>3, Levels, LevelMembers
<1>5. TreesTo[n - 1] \subseteq TreesTo[n]
  BY <1>2, Levels
<1> QED
  BY <1>1, <1>4, <1>5 DEF IsNode

LEMMA ComputesExists ==
  ASSUME NEW V, NEW e \in V, NEW g \in [Tree -> [V -> [V -> V]]]
  PROVE  \A n \in Nat : \E f : Computes(n, f, V, e, g)
<1> DEFINE S == {n \in Nat : \E f : Computes(n, f, V, e, g)}
<1>1. 0 \in S
  <2> DEFINE f == [t \in {Empty} |-> e]
  <2>1. TreesTo[0] = {Empty}
    BY TreesToDef
  <2>2. Computes(0, f, V, e, g)
    BY <2>1 DEF Computes
  <2> QED
    BY <2>2
<1>2. ASSUME NEW n \in Nat, n \in S PROVE n + 1 \in S
  <2>1. PICK f : Computes(n, f, V, e, g)
    BY <1>2
  <2> DEFINE A == TreesTo[n]  B == TreesTo[n + 1]
             h == [t \in B |-> IF t = Empty THEN e ELSE g[t][f[t.left]][f[t.right]]]
  <2>2. n + 1 \in Nat
    OBVIOUS
  <2>3. \A t \in B : t # Empty => t \in Tree /\ t.left \in A /\ t.right \in A /\ t.left \in B /\ t.right \in B
    <3> TAKE t \in B
    <3> HAVE t # Empty
    <3>1. (n + 1) - 1 = n
      OBVIOUS
    <3>2. t.left \in B /\ t.right \in B /\ t.left \in A /\ t.right \in A
      BY <2>2, <3>1, LevelParts
    <3>3. t \in Tree
      BY <2>2 DEF Tree
    <3> QED
      BY <3>2, <3>3
  <2>4. A \subseteq B /\ Empty \in A
    BY Levels
  <2>5. /\ f \in [A -> V] /\ f[Empty] = e
        /\ \A t \in A : t # Empty => f[t] = g[t][f[t.left]][f[t.right]]
    BY <2>1 DEF Computes
  <2> HIDE DEF A, B
  <2>6. h \in [B -> V]
    BY <2>3, <2>5
  <2>7. \A t \in A : h[t] = f[t]
    BY <2>4, <2>5
  <2>8. \A t \in B : t # Empty => h[t] = g[t][h[t.left]][h[t.right]]
    <3> TAKE t \in B
    <3> HAVE t # Empty
    <3>1. h[t.left] = f[t.left] /\ h[t.right] = f[t.right]
      BY <2>3, <2>7
    <3>2. h[t] = g[t][f[t.left]][f[t.right]]
      OBVIOUS
    <3> HIDE DEF h
    <3> QED
      BY <3>1, <3>2
  <2>9. h[Empty] = e
    BY <2>4
  <2>10. Computes(n + 1, h, V, e, g)
    <3> HIDE DEF h
    <3> QED
      BY <2>6, <2>8, <2>9 DEF Computes, B
  <2> QED
    BY <2>2, <2>10
<1> HIDE DEF S
<1>3. Nat \subseteq S
  BY <1>1, <1>2, SetInduction
<1> QED
  BY <1>3 DEF S

LEMMA ComputesAgree ==
  ASSUME NEW V, NEW e, NEW g, NEW m \in Nat, NEW n \in Nat,
         NEW f, Computes(m, f, V, e, g), NEW h, Computes(n, h, V, e, g)
  PROVE  \A t \in TreesTo[m] \cap TreesTo[n] : f[t] = h[t]
<1> DEFINE S == {t \in Tree : t \in TreesTo[m] /\ t \in TreesTo[n] => f[t] = h[t]}
<1>1. Empty \in S
  BY TreeParts DEF Computes
<1>2. ASSUME NEW t \in Tree, t # Empty, t.left \in S, t.right \in S PROVE t \in S
  <2> SUFFICES ASSUME t \in TreesTo[m], t \in TreesTo[n] PROVE f[t] = h[t]
    BY <1>2
  <2>1. /\ t.left \in TreesTo[m] /\ t.right \in TreesTo[m]
        /\ t.left \in TreesTo[n] /\ t.right \in TreesTo[n]
    BY <1>2, LevelParts
  <2>2. f[t.left] = h[t.left] /\ f[t.right] = h[t.right]
    BY <1>2, <2>1
  <2>3. f[t] = g[t][f[t.left]][f[t.right]] /\ h[t] = g[t][h[t.left]][h[t.right]]
    BY <1>2 DEF Computes
  <2> QED
    BY <2>2, <2>3
<1> HIDE DEF S
<1>3. Tree \subseteq S
  BY <1>1, <1>2, TreeInduction
<1> QED
  BY <1>3 DEF S, Tree

\* the same on all trees
Recurses(f, V, e, g) ==
  /\ f \in [Tree -> V]
  /\ f[Empty] = e
  /\ \A t \in Tree : t # Empty => f[t] = g[t][f[t.left]][f[t.right]]

\* a value for the empty tree and a step that takes the values of both subtrees define a
\* function on all trees
LEMMA TreeRecursion ==
  ASSUME NEW V, NEW e \in V, NEW g \in [Tree -> [V -> [V -> V]]]
  PROVE  \E f : Recurses(f, V, e, g)
<1> DEFINE c(n) == CHOOSE f : Computes(n, f, V, e, g)
           f == [t \in Tree |-> c(t.size)[t]]
<1>1. \A n \in Nat : Computes(n, c(n), V, e, g)
  BY ComputesExists
<1> HIDE DEF c
<1>2. \A t \in Tree : t.size \in Nat /\ t \in TreesTo[t.size]
  BY TreeParts, TreeWithin DEF Within
<1>3. \A t \in Tree, n \in Nat : t \in TreesTo[n] => f[t] = c(n)[t]
  <2> TAKE t \in Tree, n \in Nat
  <2> HAVE t \in TreesTo[n]
  <2> DEFINE m == t.size
  <2>1. m \in Nat /\ t \in TreesTo[m] /\ f[t] = c(m)[t]
    BY <1>2
  <2> HIDE DEF m, f
  <2>2. c(m)[t] = c(n)[t]
    BY <1>1, <2>1, ComputesAgree
  <2> QED
    BY <2>1, <2>2
<1>4. f \in [Tree -> V]
  BY <1>1, <1>2 DEF Computes
<1>5. f[Empty] = e
  <2>1. f[Empty] = c(0)[Empty]
    BY <1>3, TreeParts, TreesToDef
  <2> QED
    BY <1>1, <2>1 DEF Computes
<1>6. ASSUME NEW t \in Tree, t # Empty PROVE f[t] = g[t][f[t.left]][f[t.right]]
  <2> DEFINE n == t.size
  <2>1. n \in Nat /\ t \in TreesTo[n]
    BY <1>2
  <2> HIDE DEF n, f
  <2>2. t.left \in TreesTo[n] /\ t.right \in TreesTo[n]
    BY <1>6, <2>1, LevelParts
  <2>3. t.left \in Tree /\ t.right \in Tree
    BY <1>6, NodeParts
  <2>4. f[t] = c(n)[t] /\ f[t.left] = c(n)[t.left] /\ f[t.right] = c(n)[t.right]
    BY <1>3, <2>1, <2>2, <2>3
  <2>5. c(n)[t] = g[t][c(n)[t.left]][c(n)[t.right]]
    BY <1>1, <1>6, <2>1 DEF Computes
  <2> QED
    BY <2>4, <2>5
<1> HIDE DEF f
<1>7. Recurses(f, V, e, g)
  BY <1>4, <1>5, <1>6 DEF Recurses
<1> QED
  BY <1>7

\* two functions that agree on a node when they agree on its subtrees are one
LEMMA TreesAgree ==
  ASSUME NEW t \in Tree, NEW f, NEW h, f[Empty] = h[Empty],
         \A u \in Within(t) : u # Empty /\ f[u.left] = h[u.left] /\ f[u.right] = h[u.right] => f[u] = h[u]
  PROVE  f[t] = h[t]
<1> DEFINE S == {u \in Tree : u \in Within(t) => f[u] = h[u]}
<1>1. Empty \in S
  BY TreeParts
<1>2. ASSUME NEW u \in Tree, u # Empty, u.left \in S, u.right \in S PROVE u \in S
  BY <1>2, TreeWithin
<1> HIDE DEF S
<1>3. Tree \subseteq S
  BY <1>1, <1>2, TreeInduction
<1> QED
  BY <1>3, TreeWithin DEF S

Entry == [key : Keys, val : Values]

Around(a, p, b) == a \o <<p>> \o b

LEMMA PairIsEntry == \A k \in Keys, v \in Values : Pair(k, v) \in Entry
BY DEF Pair, Entry

\* s is a, then p, then b
IsAround(s, S, a, p, b) ==
  /\ s \in Seq(S) /\ Len(s) = Len(a) + 1 + Len(b)
  /\ Len(a) \in Nat /\ Len(b) \in Nat
  /\ \A i \in 1 .. Len(a) : s[i] = a[i]
  /\ s[Len(a) + 1] = p
  /\ \A i \in 1 .. Len(b) : s[Len(a) + 1 + i] = b[i]

LEMMA AroundIsSequence ==
  ASSUME NEW S, NEW a \in Seq(S), NEW p \in S, NEW b \in Seq(S)
  PROVE  IsAround(Around(a, p, b), S, a, p, b)
<1> DEFINE q == a \o <<p>>
<1>1. <<p>> \in Seq(S) /\ Len(<<p>>) = 1 /\ <<p>>[1] = p
  OBVIOUS
<1>2. /\ q \in Seq(S) /\ Len(q) = Len(a) + 1 /\ q[Len(a) + 1] = p
      /\ \A i \in 1 .. Len(a) : q[i] = a[i]
  BY <1>1, ConcatProperties
<1>3. Around(a, p, b) = q \o b
  BY DEF Around
<1> HIDE DEF q
<1>4. /\ q \o b \in Seq(S) /\ Len(q \o b) = Len(q) + Len(b)
      /\ \A i \in 1 .. Len(q) + Len(b) : (q \o b)[i] = IF i <= Len(q) THEN q[i] ELSE b[i - Len(q)]
  BY <1>2, ConcatProperties
<1> DEFINE s == Around(a, p, b)
<1>5. /\ s \in Seq(S) /\ Len(s) = Len(q) + Len(b)
      /\ \A i \in 1 .. Len(q) + Len(b) : s[i] = IF i <= Len(q) THEN q[i] ELSE b[i - Len(q)]
  BY <1>3, <1>4
<1> HIDE DEF s
<1>6. Len(a) \in Nat /\ Len(b) \in Nat
  OBVIOUS
<1>7. /\ s \in Seq(S) /\ Len(s) = Len(a) + 1 + Len(b)
      /\ \A i \in 1 .. Len(a) : s[i] = a[i]
      /\ s[Len(a) + 1] = p
      /\ \A i \in 1 .. Len(b) : s[Len(a) + 1 + i] = b[i]
  <2>1. \A i \in 1 .. Len(a) : i \in 1 .. Len(q) + Len(b) /\ i <= Len(q)
    BY <1>2, <1>6
  <2>2. Len(a) + 1 \in 1 .. Len(q) + Len(b) /\ Len(a) + 1 <= Len(q)
    BY <1>2, <1>6
  <2>3. \A i \in 1 .. Len(b) : /\ Len(a) + 1 + i \in 1 .. Len(q) + Len(b)
                               /\ ~(Len(a) + 1 + i <= Len(q)) /\ Len(a) + 1 + i - Len(q) = i
    BY <1>2, <1>6
  <2>4. Len(s) = Len(a) + 1 + Len(b)
    BY <1>2, <1>5
  <2> QED
    BY <1>2, <1>5, <2>1, <2>2, <2>3, <2>4
<1> QED
  BY <1>6, <1>7 DEF s, IsAround

\* what $mflat lists: of a node, the left subtree, the node, the right one
LEMMA FlatUnfolds ==
  /\ \A t \in Tree : Flat(t) \in Seq(Entry)
  /\ Flat(Empty) = <<>>
  /\ \A t \in Tree : t # Empty => Flat(t) = Around(Flat(t.left), Pair(t.key, t.val), Flat(t.right))
<1> DEFINE V == Seq(Entry)
           g == [u \in Tree |-> [x \in V |-> [y \in V |->
                  IF u = Empty THEN <<>> ELSE Around(x, Pair(u.key, u.val), y)]]]
<1>1. g \in [Tree -> [V -> [V -> V]]]
  <2>1. ASSUME NEW u \in Tree, NEW x \in V, NEW y \in V, u # Empty
        PROVE  Around(x, Pair(u.key, u.val), y) \in V
    BY <2>1, NodeParts, PairIsEntry, AroundIsSequence DEF IsAround
  <2>2. <<>> \in V
    OBVIOUS
  <2> HIDE DEF V
  <2> QED
    BY <2>1, <2>2
<1>2. <<>> \in V
  OBVIOUS
<1> HIDE DEF V
<1>3. PICK F : Recurses(F, V, <<>>, g)
  <2> HIDE DEF g
  <2> QED
    BY <1>1, <1>2, TreeRecursion
<1>4. /\ F \in [Tree -> V] /\ F[Empty] = <<>>
      /\ \A t \in Tree : t # Empty => F[t] = Around(F[t.left], Pair(t.key, t.val), F[t.right])
  BY <1>3, NodeParts DEF Recurses
<1> HIDE DEF g
<1>5. ASSUME NEW t \in Tree PROVE Flat(t) = F[t]
  <2> DEFINE W == Within(t)
             body(f) == [u \in W |-> IF u = Empty THEN <<>>
                                     ELSE Around(f[u.left], Pair(u.key, u.val), f[u.right])]
             h == [u \in W |-> F[u]]
             flat == CHOOSE f : f = body(f)
  <2>1. /\ t \in W /\ Empty \in W /\ W \subseteq Tree
        /\ \A u \in W : u # Empty => u.left \in W /\ u.right \in W
    BY TreeWithin
  <2> HIDE DEF W
  <2>2. h = body(h)
    <3>1. \A u \in W : h[u] = body(h)[u]
      BY <1>4, <2>1
    <3> QED
      BY <3>1
  <2>3. flat = body(flat)
    <3> HIDE DEF body, h
    <3> QED
      BY <2>2, Zenon
  <2>4. Flat(t) = flat[t]
    BY DEF Flat, W, Around
  <2> HIDE DEF h, flat
  <2>5. /\ flat[Empty] = <<>>
        /\ \A u \in W : u # Empty => flat[u] = Around(flat[u.left], Pair(u.key, u.val), flat[u.right])
    BY <2>1, <2>3
  <2> HIDE DEF body
  <2>6. flat[t] = F[t]
    BY <1>4, <2>1, <2>5, TreesAgree DEF W
  <2> QED
    BY <2>4, <2>6
<1>6. ASSUME NEW t \in Tree, t # Empty
      PROVE  Flat(t) = Around(Flat(t.left), Pair(t.key, t.val), Flat(t.right))
  BY <1>4, <1>5, <1>6, NodeParts
<1> QED
  BY <1>4, <1>5, <1>6, TreeParts DEF V

-----------------------------------------------------------------------------
(* The rotations.                                                          *)

LEMMA AroundTurns ==
  ASSUME NEW S, NEW a \in Seq(S), NEW b \in Seq(S), NEW c \in Seq(S), NEW d \in S, NEW e \in S
  PROVE  Around(a, d, Around(b, e, c)) = Around(Around(a, d, b), e, c)
BY DEF Around

\* $mbal loses, adds and moves no pair: the tree lists the same before and after it.
THEOREM BalanceKeepsOrder ==
  ASSUME NEW k \in Keys, NEW v \in Values, NEW l \in Tree, NEW r \in Tree
  PROVE  /\ Balance(k, v, l, r) \in Tree
         /\ Flat(Balance(k, v, l, r)) = Flat(Node(k, v, l, r))
<1> DEFINE P == Entry
           Inner(t) == IsNode(t, Tree)
           Same(t, u) == t \in Tree /\ Inner(t) /\ Flat(t) = Flat(u)
\* what a node lists, and that turning two nodes changes nothing
<1>1. ASSUME NEW m \in Keys, NEW w \in Values, NEW x \in Tree, NEW y \in Tree
      PROVE  /\ Node(m, w, x, y) \in Tree /\ Inner(Node(m, w, x, y))
             /\ Flat(Node(m, w, x, y)) = Around(Flat(x), Pair(m, w), Flat(y))
  <2>1. Node(m, w, x, y) \in Tree /\ Node(m, w, x, y) # Empty
    BY TreeParts
  <2>2. Inner(Node(m, w, x, y))
    BY NodeFields DEF IsNode
  <2>3. Flat(Node(m, w, x, y)) = Around(Flat(x), Pair(m, w), Flat(y))
    <3> DEFINE n == Node(m, w, x, y)
    <3>1. n \in Tree /\ n # Empty /\ n.key = m /\ n.val = w /\ n.left = x /\ n.right = y
      BY <2>1, NodeFields
    <3> HIDE DEF n
    <3>2. Flat(n) = Around(Flat(x), Pair(m, w), Flat(y))
      BY <3>1, FlatUnfolds
    <3> QED
      BY <3>2 DEF n
  <2> QED
    BY <2>1, <2>2, <2>3
<1>lists. ASSUME NEW m \in Keys, NEW w \in Values, NEW x \in Tree, NEW y \in Tree
      PROVE  Flat(Node(m, w, x, y)) = Around(Flat(x), Pair(m, w), Flat(y))
  BY <1>1
<1>2. ASSUME NEW x \in Tree PROVE Flat(x) \in Seq(P) /\ x.size \in Nat /\ (x = Empty \/ Inner(x))
  BY FlatUnfolds, TreeParts
<1>3. ASSUME NEW m \in Keys, NEW w \in Values PROVE Pair(m, w) \in P
  BY PairIsEntry
<1>4. ASSUME NEW t \in Tree, Inner(t)
      PROVE  /\ t = Node(t.key, t.val, t.left, t.right)
             /\ t.key \in Keys /\ t.val \in Values /\ t.left \in Tree /\ t.right \in Tree
             /\ t.size = 1 + t.left.size + t.right.size
  <2>1. /\ t = Node(t.key, t.val, t.left, t.right)
        /\ t.key \in Keys /\ t.val \in Values /\ t.left \in Tree /\ t.right \in Tree
    BY <1>4 DEF IsNode
  <2>2. t.size = 1 + t.left.size + t.right.size
    BY <2>1 DEF Node
  <2> QED
    BY <2>1, <2>2
<1>5. ASSUME NEW km \in Keys, NEW vm \in Values, NEW lx \in Tree, NEW ly \in Tree,
             NEW kn \in Keys, NEW vn \in Values, NEW lz \in Tree
      PROVE  Flat(Node(km, vm, lx, Node(kn, vn, ly, lz))) = Flat(Node(kn, vn, Node(km, vm, lx, ly), lz))
  <2> DEFINE yz == Node(kn, vn, ly, lz)
             xy == Node(km, vm, lx, ly)
  <2>1. yz \in Tree /\ Flat(yz) = Around(Flat(ly), Pair(kn, vn), Flat(lz))
    BY <1>1
  <2>2. xy \in Tree /\ Flat(xy) = Around(Flat(lx), Pair(km, vm), Flat(ly))
    BY <1>1
  <2> HIDE DEF yz, xy
  <2>3. Flat(Node(km, vm, lx, yz)) = Around(Flat(lx), Pair(km, vm), Flat(yz))
    BY <1>lists, <2>1
  <2>4. Flat(Node(kn, vn, xy, lz)) = Around(Flat(xy), Pair(kn, vn), Flat(lz))
    BY <1>lists, <2>2
  <2>5. Flat(lx) \in Seq(P) /\ Flat(ly) \in Seq(P) /\ Flat(lz) \in Seq(P)
    BY <1>2
  <2>6. Pair(km, vm) \in P /\ Pair(kn, vn) \in P
    BY <1>3
  <2> HIDE DEF P
  <2>7. Around(Flat(lx), Pair(km, vm), Around(Flat(ly), Pair(kn, vn), Flat(lz)))
          = Around(Around(Flat(lx), Pair(km, vm), Flat(ly)), Pair(kn, vn), Flat(lz))
    BY <2>5, <2>6, AroundTurns
  <2>8. Flat(Node(km, vm, lx, yz)) = Flat(Node(kn, vn, xy, lz))
    BY <2>1, <2>2, <2>3, <2>4, <2>7
  <2> QED
    BY <2>8 DEF yz, xy
<1>6. ASSUME NEW mk \in Keys, NEW mv \in Values, NEW ml \in Tree, NEW mr \in Tree, Inner(mr)
      PROVE  Same(RotateLeft(mk, mv, ml, mr), Node(mk, mv, ml, mr))
  <2>1. RotateLeft(mk, mv, ml, mr) = Node(mr.key, mr.val, Node(mk, mv, ml, mr.left), mr.right)
    BY DEF RotateLeft
  <2>2. Node(mk, mv, ml, mr) = Node(mk, mv, ml, Node(mr.key, mr.val, mr.left, mr.right))
    BY <1>4, <1>6
  <2>3. mr.key \in Keys /\ mr.val \in Values /\ mr.left \in Tree /\ mr.right \in Tree
    BY <1>4, <1>6
  <2>4. Node(mk, mv, ml, mr.left) \in Tree
    BY <1>1, <2>3
  <2>5. /\ Node(mr.key, mr.val, Node(mk, mv, ml, mr.left), mr.right) \in Tree
        /\ Inner(Node(mr.key, mr.val, Node(mk, mv, ml, mr.left), mr.right))
    BY <1>1, <2>3, <2>4
  <2> DEFINE k1 == mr.key  v1 == mr.val  l1 == mr.left  r1 == mr.right
  <2>6. k1 \in Keys /\ v1 \in Values /\ l1 \in Tree /\ r1 \in Tree
    BY <2>3
  <2> HIDE DEF k1, v1, l1, r1
  <2>7. Flat(Node(mk, mv, ml, Node(k1, v1, l1, r1)))
          = Flat(Node(k1, v1, Node(mk, mv, ml, l1), r1))
    BY <1>5, <2>6
  <2> QED
    BY <2>1, <2>2, <2>5, <2>7 DEF k1, v1, l1, r1
<1>7. ASSUME NEW mk \in Keys, NEW mv \in Values, NEW ml \in Tree, NEW mr \in Tree, Inner(ml)
      PROVE  Same(RotateRight(mk, mv, ml, mr), Node(mk, mv, ml, mr))
  <2>1. RotateRight(mk, mv, ml, mr) = Node(ml.key, ml.val, ml.left, Node(mk, mv, ml.right, mr))
    BY DEF RotateRight
  <2>2. Node(mk, mv, ml, mr) = Node(mk, mv, Node(ml.key, ml.val, ml.left, ml.right), mr)
    BY <1>4, <1>7
  <2>3. ml.key \in Keys /\ ml.val \in Values /\ ml.left \in Tree /\ ml.right \in Tree
    BY <1>4, <1>7
  <2>4. Node(mk, mv, ml.right, mr) \in Tree
    BY <1>1, <2>3
  <2>5. /\ Node(ml.key, ml.val, ml.left, Node(mk, mv, ml.right, mr)) \in Tree
        /\ Inner(Node(ml.key, ml.val, ml.left, Node(mk, mv, ml.right, mr)))
    BY <1>1, <2>3, <2>4
  <2> DEFINE k1 == ml.key  v1 == ml.val  l1 == ml.left  r1 == ml.right
  <2>6. k1 \in Keys /\ v1 \in Values /\ l1 \in Tree /\ r1 \in Tree
    BY <2>3
  <2> HIDE DEF k1, v1, l1, r1
  <2>7. Flat(Node(k1, v1, l1, Node(mk, mv, r1, mr)))
          = Flat(Node(mk, mv, Node(k1, v1, l1, r1), mr))
    BY <1>5, <2>6
  <2> QED
    BY <2>1, <2>2, <2>5, <2>7 DEF k1, v1, l1, r1
<1>8. l.size \in Nat /\ r.size \in Nat
  BY <1>2
<1>9. CASE Balance(k, v, l, r) = Node(k, v, l, r)
  BY <1>1, <1>9
<1>10. CASE l.size + r.size > 1 /\ r.size > 3 * l.size
  <2>1. Inner(r)
    BY <1>2, <1>8, <1>10 DEF Empty
  <2>2. CASE Single(r.left, r.right)
    <3>1. Balance(k, v, l, r) = RotateLeft(k, v, l, r)
      BY <1>8, <1>10, <2>2 DEF Balance
    <3> QED
      BY <2>1, <3>1, <1>6
  <2>3. CASE ~Single(r.left, r.right)
    <3> DEFINE turned == RotateRight(r.key, r.val, r.left, r.right)
    <3>1. Balance(k, v, l, r) = RotateLeftRight(k, v, l, r)
      BY <1>8, <1>10, <2>3 DEF Balance
    <3>2. RotateLeftRight(k, v, l, r) = RotateLeft(k, v, l, turned)
      BY DEF RotateLeftRight, RotateLeft, RotateRight, Node
    <3>3. /\ r.key \in Keys /\ r.val \in Values /\ r.left \in Tree /\ r.right \in Tree
          /\ r = Node(r.key, r.val, r.left, r.right)
          /\ r.size = 1 + r.left.size + r.right.size
      BY <1>4, <2>1
    <3>4. r.left.size \in Nat /\ r.right.size \in Nat
      BY <1>2, <3>3
    <3>5. r.left # Empty
      BY <1>8, <1>10, <2>3, <3>3, <3>4 DEF Single, Empty
    <3>6. Inner(r.left)
      BY <1>2, <3>3, <3>5
    <3>7. Same(turned, r)
      BY <1>7, <3>3, <3>6
    <3> HIDE DEF turned
    <3>8. Same(RotateLeft(k, v, l, turned), Node(k, v, l, turned))
      BY <1>6, <3>7
    <3>9. Flat(Node(k, v, l, turned)) = Flat(Node(k, v, l, r))
      <4>1. Flat(Node(k, v, l, turned)) = Around(Flat(l), Pair(k, v), Flat(turned))
        BY <1>lists, <3>7
      <4>2. Flat(Node(k, v, l, r)) = Around(Flat(l), Pair(k, v), Flat(r))
        BY <1>lists
      <4> QED
        BY <3>7, <4>1, <4>2
    <3> QED
      BY <3>1, <3>2, <3>8, <3>9
  <2> QED
    BY <2>2, <2>3
<1>11. CASE l.size + r.size > 1 /\ ~(r.size > 3 * l.size) /\ l.size > 3 * r.size
  <2>1. Inner(l)
    BY <1>2, <1>8, <1>11 DEF Empty
  <2>2. CASE Single(l.right, l.left)
    <3>1. Balance(k, v, l, r) = RotateRight(k, v, l, r)
      BY <1>8, <1>11, <2>2 DEF Balance
    <3> QED
      BY <2>1, <3>1, <1>7
  <2>3. CASE ~Single(l.right, l.left)
    <3> DEFINE turned == RotateLeft(l.key, l.val, l.left, l.right)
    <3>1. Balance(k, v, l, r) = RotateRightLeft(k, v, l, r)
      BY <1>8, <1>11, <2>3 DEF Balance
    <3>2. RotateRightLeft(k, v, l, r) = RotateRight(k, v, turned, r)
      BY DEF RotateRightLeft, RotateLeft, RotateRight, Node
    <3>3. /\ l.key \in Keys /\ l.val \in Values /\ l.left \in Tree /\ l.right \in Tree
          /\ l = Node(l.key, l.val, l.left, l.right)
          /\ l.size = 1 + l.left.size + l.right.size
      BY <1>4, <2>1
    <3>4. l.left.size \in Nat /\ l.right.size \in Nat
      BY <1>2, <3>3
    <3>5. l.right # Empty
      BY <1>8, <1>11, <2>3, <3>3, <3>4 DEF Single, Empty
    <3>6. Inner(l.right)
      BY <1>2, <3>3, <3>5
    <3>7. Same(turned, l)
      BY <1>6, <3>3, <3>6
    <3> HIDE DEF turned
    <3>8. Same(RotateRight(k, v, turned, r), Node(k, v, turned, r))
      BY <1>7, <3>7
    <3>9. Flat(Node(k, v, turned, r)) = Flat(Node(k, v, l, r))
      <4>1. Flat(Node(k, v, turned, r)) = Around(Flat(turned), Pair(k, v), Flat(r))
        BY <1>lists, <3>7
      <4>2. Flat(Node(k, v, l, r)) = Around(Flat(l), Pair(k, v), Flat(r))
        BY <1>lists
      <4> QED
        BY <3>7, <4>1, <4>2
    <3> QED
      BY <3>1, <3>2, <3>8, <3>9
  <2> QED
    BY <2>2, <2>3
<1> QED
  BY <1>8, <1>9, <1>10, <1>11 DEF Balance

-----------------------------------------------------------------------------
(* What $mput, $mfind and $msel do at one node.                             *)

\* $mput at a node, when x and y are what it makes of the subtrees
PutStep(k, v, t, x, y) ==
  LET c == TermOrder(k, t.key)
  IN IF c < 0 THEN Balance(t.key, t.val, x, t.right)
     ELSE IF c > 0 THEN Balance(t.key, t.val, t.left, y)
     ELSE Node(k, v, t.left, t.right)

LEMMA PutUnfolds ==
  ASSUME NEW k \in Keys, NEW v \in Values
  PROVE  /\ \A t \in Tree : Put(t, k, v) \in Tree
         /\ Put(Empty, k, v) = Node(k, v, Empty, Empty)
         /\ \A t \in Tree : t # Empty =>
              Put(t, k, v) = PutStep(k, v, t, Put(t.left, k, v), Put(t.right, k, v))
<1> DEFINE e == Node(k, v, Empty, Empty)
           g == [u \in Tree |-> [x \in Tree |-> [y \in Tree |->
                  IF u = Empty THEN Empty ELSE PutStep(k, v, u, x, y)]]]
<1>1. g \in [Tree -> [Tree -> [Tree -> Tree]]]
  <2>1. ASSUME NEW u \in Tree, NEW x \in Tree, NEW y \in Tree, u # Empty
        PROVE  PutStep(k, v, u, x, y) \in Tree
    <3>1. u.key \in Keys /\ u.val \in Values /\ u.left \in Tree /\ u.right \in Tree
      BY <2>1, NodeParts
    <3>2. /\ Balance(u.key, u.val, x, u.right) \in Tree
          /\ Balance(u.key, u.val, u.left, y) \in Tree
          /\ Node(k, v, u.left, u.right) \in Tree
      BY <3>1, BalanceKeepsOrder, TreeParts
    <3> QED
      BY <3>2 DEF PutStep
  <2> QED
    BY <2>1, TreeParts
<1>2. e \in Tree
  BY TreeParts
<1> HIDE DEF e
<1>3. PICK F : Recurses(F, Tree, e, g)
  <2> HIDE DEF g
  <2> QED
    BY <1>1, <1>2, TreeRecursion
<1>4. /\ F \in [Tree -> Tree] /\ F[Empty] = e
      /\ \A t \in Tree : t # Empty => F[t] = PutStep(k, v, t, F[t.left], F[t.right])
  BY <1>3, NodeParts DEF Recurses
<1> HIDE DEF g
<1>5. ASSUME NEW t \in Tree PROVE Put(t, k, v) = F[t]
  <2> DEFINE W == Within(t)
             body(f) == [u \in W |-> IF u = Empty THEN e ELSE PutStep(k, v, u, f[u.left], f[u.right])]
             h == [u \in W |-> F[u]]
             put == CHOOSE f : f = body(f)
  <2>1. /\ t \in W /\ Empty \in W /\ W \subseteq Tree
        /\ \A u \in W : u # Empty => u.left \in W /\ u.right \in W
    BY TreeWithin
  <2> HIDE DEF W
  <2>2. h = body(h)
    <3>1. \A u \in W : h[u] = body(h)[u]
      BY <1>4, <2>1
    <3> QED
      BY <3>1
  <2>3. put = body(put)
    <3> HIDE DEF body, h
    <3> QED
      BY <2>2, Zenon
  <2>4. Put(t, k, v) = put[t]
    BY DEF Put, W, PutStep, Replace, e
  <2> HIDE DEF h, put
  <2>5. /\ put[Empty] = e
        /\ \A u \in W : u # Empty => put[u] = PutStep(k, v, u, put[u.left], put[u.right])
    BY <2>1, <2>3
  <2> HIDE DEF body
  <2>6. put[t] = F[t]
    BY <1>4, <2>1, <2>5, TreesAgree DEF W
  <2> QED
    BY <2>4, <2>6
<1>6. ASSUME NEW t \in Tree, t # Empty
      PROVE  Put(t, k, v) = PutStep(k, v, t, Put(t.left, k, v), Put(t.right, k, v))
  BY <1>4, <1>5, <1>6, NodeParts
<1> QED
  BY <1>4, <1>5, <1>6, TreeParts DEF e

\* $mfind at a node
FindStep(k, t, x, y) ==
  LET c == TermOrder(k, t.key) IN IF c = 0 THEN t ELSE IF c < 0 THEN x ELSE y

LEMMA FindUnfolds ==
  ASSUME NEW k \in Keys
  PROVE  /\ \A t \in Tree : Find(t, k) \in Tree
         /\ Find(Empty, k) = Empty
         /\ \A t \in Tree : t # Empty => Find(t, k) = FindStep(k, t, Find(t.left, k), Find(t.right, k))
<1> DEFINE g == [u \in Tree |-> [x \in Tree |-> [y \in Tree |-> FindStep(k, u, x, y)]]]
<1>1. g \in [Tree -> [Tree -> [Tree -> Tree]]]
  BY DEF FindStep
<1>2. Empty \in Tree
  BY TreeParts
<1>3. PICK F : Recurses(F, Tree, Empty, g)
  <2> HIDE DEF g
  <2> QED
    BY <1>1, <1>2, TreeRecursion
<1>4. /\ F \in [Tree -> Tree] /\ F[Empty] = Empty
      /\ \A t \in Tree : t # Empty => F[t] = FindStep(k, t, F[t.left], F[t.right])
  BY <1>3, NodeParts DEF Recurses
<1> HIDE DEF g
<1>5. ASSUME NEW t \in Tree PROVE Find(t, k) = F[t]
  <2> DEFINE W == Within(t)
             body(f) == [u \in W |-> IF u = Empty THEN Empty ELSE FindStep(k, u, f[u.left], f[u.right])]
             h == [u \in W |-> F[u]]
             find == CHOOSE f : f = body(f)
  <2>1. /\ t \in W /\ Empty \in W /\ W \subseteq Tree
        /\ \A u \in W : u # Empty => u.left \in W /\ u.right \in W
    BY TreeWithin
  <2> HIDE DEF W
  <2>2. h = body(h)
    <3>1. \A u \in W : h[u] = body(h)[u]
      BY <1>4, <2>1
    <3> QED
      BY <3>1
  <2>3. find = body(find)
    <3> HIDE DEF body, h
    <3> QED
      BY <2>2, Zenon
  <2>4. Find(t, k) = find[t]
    BY DEF Find, W, FindStep
  <2> HIDE DEF h, find
  <2>5. /\ find[Empty] = Empty
        /\ \A u \in W : u # Empty => find[u] = FindStep(k, u, find[u.left], find[u.right])
    BY <2>1, <2>3
  <2> HIDE DEF body
  <2>6. find[t] = F[t]
    BY <1>4, <2>1, <2>5, TreesAgree DEF W
  <2> QED
    BY <2>4, <2>6
<1>6. ASSUME NEW t \in Tree, t # Empty
      PROVE  Find(t, k) = FindStep(k, t, Find(t.left, k), Find(t.right, k))
  BY <1>4, <1>5, <1>6, NodeParts
<1> QED
  BY <1>4, <1>5, <1>6, TreeParts

\* $msel at a node, for all indices
SelectStep(t, x, y) ==
  [j \in Nat |-> IF j = t.left.size THEN t
                 ELSE IF j < t.left.size THEN x[j]
                 ELSE y[j - (t.left.size + 1)]]

LEMMA SelectUnfolds ==
  /\ \A t \in Tree, i \in Nat : Select(t, i) \in Tree
  /\ \A i \in Nat : Select(Empty, i) = Empty
  /\ \A t \in Tree, i \in Nat : t # Empty =>
       Select(t, i) = IF i = t.left.size THEN t
                      ELSE IF i < t.left.size THEN Select(t.left, i)
                      ELSE Select(t.right, i - (t.left.size + 1))
<1> DEFINE V == [Nat -> Tree]
           e == [j \in Nat |-> Empty]
           g == [u \in Tree |-> [x \in V |-> [y \in V |-> IF u = Empty THEN e ELSE SelectStep(u, x, y)]]]
<1>1. e \in V
  BY TreeParts
<1>2. g \in [Tree -> [V -> [V -> V]]]
  <2>1. ASSUME NEW u \in Tree, NEW x \in V, NEW y \in V, u # Empty PROVE SelectStep(u, x, y) \in V
    <3> DEFINE n == u.left.size
    <3>1. n \in Nat
      BY <2>1, NodeParts
    <3> HIDE DEF n
    <3>2. \A j \in Nat : j # n /\ ~(j < n) => j - (n + 1) \in Nat
      BY <3>1
    <3>3. [j \in Nat |-> IF j = n THEN u ELSE IF j < n THEN x[j] ELSE y[j - (n + 1)]] \in V
      BY <3>1, <3>2
    <3> QED
      BY <3>3 DEF SelectStep, n
  <2> HIDE DEF V, e
  <2> QED
    BY <1>1, <2>1
<1> HIDE DEF V
<1>3. PICK F : Recurses(F, V, e, g)
  <2> HIDE DEF g, e
  <2> QED
    BY <1>1, <1>2, TreeRecursion
<1>4. /\ F \in [Tree -> V] /\ F[Empty] = e
      /\ \A t \in Tree : t # Empty => F[t] = SelectStep(t, F[t.left], F[t.right])
  <2> HIDE DEF e
  <2> QED
    BY <1>3, NodeParts DEF Recurses
<1> HIDE DEF g
<1>5. ASSUME NEW t \in Tree, NEW i \in Nat PROVE Select(t, i) = F[t][i]
  <2> DEFINE W == Within(t)
             at(f, u) == [j \in Nat |-> IF u = Empty \/ j = u.left.size THEN u
                                        ELSE IF j < u.left.size THEN f[u.left][j]
                                        ELSE f[u.right][j - (u.left.size + 1)]]
             body(f) == [u \in W |-> at(f, u)]
             h == [u \in W |-> F[u]]
             select == CHOOSE f : f = body(f)
  <2>1. /\ t \in W /\ Empty \in W /\ W \subseteq Tree
        /\ \A u \in W : u # Empty => u.left \in W /\ u.right \in W
    BY TreeWithin
  <2> HIDE DEF W
  <2>2. ASSUME NEW f PROVE /\ at(f, Empty) = e
                           /\ \A u \in W : u # Empty => at(f, u) = SelectStep(u, f[u.left], f[u.right])
    <3>1. at(f, Empty) = e
      OBVIOUS
    <3>2. ASSUME NEW u \in W, u # Empty PROVE at(f, u) = SelectStep(u, f[u.left], f[u.right])
      BY <3>2 DEF SelectStep
    <3> QED
      BY <3>1, <3>2
  <2> HIDE DEF at, e
  <2>3. h = body(h)
    <3>1. \A u \in W : at(h, u) = IF u = Empty THEN e ELSE SelectStep(u, F[u.left], F[u.right])
      <4> TAKE u \in W
      <4>1. CASE u = Empty
        BY <2>2, <4>1
      <4>2. CASE u # Empty
        <5>1. h[u.left] = F[u.left] /\ h[u.right] = F[u.right]
          BY <2>1, <4>2
        <5>2. at(h, u) = SelectStep(u, h[u.left], h[u.right])
          BY <2>2, <4>2
        <5> HIDE DEF h
        <5> QED
          BY <4>2, <5>1, <5>2
      <4> QED
        BY <4>1, <4>2
    <3>2. \A u \in W : h[u] = at(h, u)
      BY <1>4, <2>1, <3>1
    <3>3. h = [u \in W |-> h[u]]
      OBVIOUS
    <3> HIDE DEF h
    <3> QED
      BY <3>2, <3>3, Zenon
  <2>4. select = body(select)
    <3> HIDE DEF body, h
    <3> QED
      BY <2>3, Zenon
  <2>5. Select(t, i) = select[t][i]
    BY DEF Select, W, at, Rest
  <2> HIDE DEF h, select
  <2>6. /\ select[Empty] = e
        /\ \A u \in W : u # Empty => select[u] = SelectStep(u, select[u.left], select[u.right])
    <3>1. \A u \in W : select[u] = at(select, u)
      BY <2>4
    <3> HIDE DEF body
    <3> QED
      BY <2>1, <2>2, <3>1
  <2> HIDE DEF body
  <2>7. select[t] = F[t]
    BY <1>4, <2>1, <2>6, TreesAgree DEF W
  <2> QED
    BY <2>5, <2>7
<1>6. ASSUME NEW t \in Tree, NEW i \in Nat, t # Empty
      PROVE  Select(t, i) = IF i = t.left.size THEN t
                            ELSE IF i < t.left.size THEN Select(t.left, i)
                            ELSE Select(t.right, i - (t.left.size + 1))
  <2> DEFINE n == t.left.size
  <2>1. n \in Nat /\ t.left \in Tree /\ t.right \in Tree
    BY <1>6, NodeParts
  <2>2. F[t][i] = IF i = n THEN t ELSE IF i < n THEN F[t.left][i] ELSE F[t.right][i - (n + 1)]
    <3>1. F[t] = SelectStep(t, F[t.left], F[t.right])
      BY <1>4, <1>6
    <3> QED
      BY <3>1 DEF SelectStep
  <2>3. Select(t, i) = F[t][i] /\ Select(t.left, i) = F[t.left][i]
    BY <1>5, <2>1
  <2>4. i # n /\ ~(i < n) => i - (n + 1) \in Nat
    BY <2>1
  <2>5. i # n /\ ~(i < n) => Select(t.right, i - (n + 1)) = F[t.right][i - (n + 1)]
    <3> HIDE DEF n
    <3> QED
      BY <1>5, <2>1, <2>4
  <2> HIDE DEF n
  <2>6. Select(t, i) = IF i = n THEN t ELSE IF i < n THEN Select(t.left, i) ELSE Select(t.right, i - (n + 1))
    BY <2>2, <2>3, <2>5
  <2> QED
    BY <2>6 DEF n
<1>7. \A t \in Tree, i \in Nat : F[t][i] \in Tree
  BY <1>4 DEF V
<1>8. \A i \in Nat : F[Empty][i] = Empty
  BY <1>4
<1> QED
  BY <1>5, <1>6, <1>7, <1>8, TreeParts

LEMMA SubtreesUnfolds ==
  /\ \A t \in Tree : Subtrees(t) \subseteq Tree
  /\ Subtrees(Empty) = {Empty}
  /\ \A t \in Tree : t # Empty => Subtrees(t) = {t} \cup Subtrees(t.left) \cup Subtrees(t.right)
<1> DEFINE V == SUBSET Tree
           e == {Empty}
           g == [u \in Tree |-> [x \in V |-> [y \in V |-> {u} \cup x \cup y]]]
<1>1. g \in [Tree -> [V -> [V -> V]]] /\ e \in V
  BY TreeParts
<1> HIDE DEF V
<1>2. PICK F : Recurses(F, V, e, g)
  <2> HIDE DEF g, e
  <2> QED
    BY <1>1, TreeRecursion
<1>3. /\ F \in [Tree -> V] /\ F[Empty] = e
      /\ \A t \in Tree : t # Empty => F[t] = {t} \cup F[t.left] \cup F[t.right]
  <2> HIDE DEF e
  <2> QED
    BY <1>2, NodeParts DEF Recurses
<1> HIDE DEF g
<1>4. ASSUME NEW t \in Tree PROVE Subtrees(t) = F[t]
  <2> DEFINE W == Within(t)
             at(f, u) == {u} \cup IF u = Empty THEN {} ELSE f[u.left] \cup f[u.right]
             body(f) == [u \in W |-> at(f, u)]
             h == [u \in W |-> F[u]]
             subtrees == CHOOSE f : f = body(f)
  <2>1. /\ t \in W /\ Empty \in W /\ W \subseteq Tree
        /\ \A u \in W : u # Empty => u.left \in W /\ u.right \in W
    BY TreeWithin
  <2> HIDE DEF W
  <2>2. \A u \in W : at(h, u) = F[u]
    <3> TAKE u \in W
    <3>1. CASE u = Empty
      BY <1>3, <3>1
    <3>2. CASE u # Empty
      BY <1>3, <2>1, <3>2
    <3> QED
      BY <3>1, <3>2
  <2>3. h = body(h)
    <3> HIDE DEF at
    <3> QED
      BY <2>2
  <2>4. subtrees = body(subtrees)
    <3> HIDE DEF body, h
    <3> QED
      BY <2>3, Zenon
  <2>5. Subtrees(t) = subtrees[t]
    BY DEF Subtrees, W
  <2> HIDE DEF h, subtrees
  <2>6. \A u \in W : subtrees[u] = at(subtrees, u)
    <3> HIDE DEF at
    <3> QED
      BY <2>4
  <2> HIDE DEF body
  <2>7. subtrees[t] = F[t]
    <3>1. subtrees[Empty] = F[Empty]
      BY <1>3, <2>1, <2>6
    <3>2. ASSUME NEW u \in W, u # Empty, subtrees[u.left] = F[u.left], subtrees[u.right] = F[u.right]
          PROVE  subtrees[u] = F[u]
      <4>1. subtrees[u] = {u} \cup subtrees[u.left] \cup subtrees[u.right]
        BY <2>6, <3>2
      <4>2. F[u] = {u} \cup F[u.left] \cup F[u.right]
        BY <1>3, <2>1, <3>2
      <4> QED
        BY <3>2, <4>1, <4>2
    <3> QED
      BY <3>1, <3>2, TreesAgree DEF W
  <2> QED
    BY <2>5, <2>7
<1>5. ASSUME NEW t \in Tree, t # Empty
      PROVE  Subtrees(t) = {t} \cup Subtrees(t.left) \cup Subtrees(t.right)
  BY <1>3, <1>4, <1>5, NodeParts
<1>6. \A t \in Tree : F[t] \subseteq Tree
  BY <1>3 DEF V
<1> QED
  BY <1>3, <1>4, <1>5, <1>6, TreeParts

-----------------------------------------------------------------------------
(* What a tree lists: a sequence in strict order, and a set of pairs.       *)

Sorted(s) ==
  \A i, j \in DOMAIN s : i < j =>
    TermOrder(s[i].key, s[j].key) = -1 /\ TermOrder(s[j].key, s[i].key) = 1

Listed(s) == {s[i] : i \in DOMAIN s}

Entries(t) == Listed(Flat(t))

\* every key of the pairs in P is before k, or after it
AllBefore(P, k) == \A p \in P : TermOrder(p.key, k) = -1
AllAfter(P, k) == \A p \in P : TermOrder(k, p.key) = -1

LEMMA OrderFacts ==
  /\ \A x, y \in Keys : TermOrder(x, y) = -1 \/ TermOrder(x, y) = 0 \/ TermOrder(x, y) = 1
  /\ \A x, y \in Keys : TermOrder(x, y) = 1 <=> TermOrder(y, x) = -1
  /\ \A x, y \in Keys : TermOrder(x, y) = 0 <=> x = y
  /\ \A x, y, z \in Keys : TermOrder(x, y) = -1 /\ TermOrder(y, z) = -1 => TermOrder(x, z) = -1
<1>1. ASSUME NEW x \in Keys, NEW y \in Keys
      PROVE  /\ TermOrder(x, y) \in {-1, 0, 1} /\ TermOrder(y, x) \in {-1, 0, 1}
             /\ TermOrder(x, y) = 0 <=> x = y
             /\ TermOrder(x, y) = -TermOrder(y, x)
  BY OrderAssumption DEF OrderAssumption, IsTotalOrder
<1>2. ASSUME NEW x \in Keys, NEW y \in Keys
      PROVE  TermOrder(x, y) = 1 <=> TermOrder(y, x) = -1
  BY <1>1
<1> QED
  BY <1>1, <1>2, OrderAssumption DEF OrderAssumption, IsTotalOrder

LEMMA EntryKeys ==
  /\ \A p \in Entry : p.key \in Keys /\ p.val \in Values /\ p = Pair(p.key, p.val)
  /\ \A s \in Seq(Entry) : \A i \in 1 .. Len(s) : s[i] \in Entry /\ s[i].key \in Keys
<1>1. \A p \in Entry : p.key \in Keys /\ p.val \in Values /\ p = Pair(p.key, p.val)
  BY DEF Entry, Pair
<1>2. \A s \in Seq(Entry) : \A i \in 1 .. Len(s) : s[i] \in Entry
  OBVIOUS
<1> QED
  BY <1>1, <1>2

LEMMA AroundListed ==
  ASSUME NEW a \in Seq(Entry), NEW p \in Entry, NEW b \in Seq(Entry)
  PROVE  Listed(Around(a, p, b)) = Listed(a) \cup {p} \cup Listed(b)
<1>0. IsAround(Around(a, p, b), Entry, a, p, b)
  BY AroundIsSequence
<1> DEFINE s == Around(a, p, b)  m == Len(a)  n == Len(b)
<1>1. /\ s \in Seq(Entry) /\ Len(s) = m + 1 + n /\ m \in Nat /\ n \in Nat
      /\ \A i \in 1 .. m : s[i] = a[i]
      /\ s[m + 1] = p
      /\ \A i \in 1 .. n : s[m + 1 + i] = b[i]
  BY <1>0 DEF IsAround
<1>2. DOMAIN s = 1 .. m + 1 + n /\ DOMAIN a = 1 .. m /\ DOMAIN b = 1 .. n
  BY <1>1
<1> HIDE DEF s, m, n
<1>3. ASSUME NEW i \in 1 .. m + 1 + n PROVE s[i] \in Listed(a) \cup {p} \cup Listed(b)
  <2>1. i \in 1 .. m \/ i = m + 1 \/ (i - (m + 1) \in 1 .. n /\ m + 1 + (i - (m + 1)) = i)
    BY <1>1
  <2>2. CASE i \in 1 .. m
    BY <1>1, <1>2, <2>2 DEF Listed
  <2>3. CASE i = m + 1
    BY <1>1, <2>3
  <2>4. CASE i - (m + 1) \in 1 .. n /\ m + 1 + (i - (m + 1)) = i
    <3> DEFINE j == i - (m + 1)
    <3>1. j \in 1 .. n /\ s[i] = s[m + 1 + j]
      BY <2>4
    <3> HIDE DEF j
    <3> QED
      BY <1>1, <1>2, <3>1 DEF Listed
  <2> QED
    BY <2>1, <2>2, <2>3, <2>4
<1>4. ASSUME NEW i \in 1 .. m PROVE a[i] \in Listed(s)
  <2>1. i \in 1 .. m + 1 + n /\ s[i] = a[i]
    BY <1>1
  <2> QED
    BY <1>2, <2>1 DEF Listed
<1>5. p \in Listed(s)
  <2>1. m + 1 \in 1 .. m + 1 + n /\ s[m + 1] = p
    BY <1>1
  <2> QED
    BY <1>2, <2>1 DEF Listed
<1>6. ASSUME NEW i \in 1 .. n PROVE b[i] \in Listed(s)
  <2>1. m + 1 + i \in 1 .. m + 1 + n /\ s[m + 1 + i] = b[i]
    BY <1>1
  <2> QED
    BY <1>2, <2>1 DEF Listed
<1>7. Listed(s) \subseteq Listed(a) \cup {p} \cup Listed(b)
  BY <1>2, <1>3 DEF Listed
<1>8. Listed(a) \cup {p} \cup Listed(b) \subseteq Listed(s)
  BY <1>2, <1>4, <1>5, <1>6 DEF Listed
<1> QED
  BY <1>7, <1>8 DEF s

LEMMA AroundSorted ==
  ASSUME NEW a \in Seq(Entry), NEW p \in Entry, NEW b \in Seq(Entry)
  PROVE  Sorted(Around(a, p, b)) <=>
           /\ Sorted(a) /\ Sorted(b)
           /\ AllBefore(Listed(a), p.key) /\ AllAfter(Listed(b), p.key)
<1>0. IsAround(Around(a, p, b), Entry, a, p, b)
  BY AroundIsSequence
<1> DEFINE s == Around(a, p, b)  m == Len(a)  n == Len(b)
<1>1. /\ s \in Seq(Entry) /\ Len(s) = m + 1 + n /\ m \in Nat /\ n \in Nat
      /\ \A i \in 1 .. m : s[i] = a[i]
      /\ s[m + 1] = p
      /\ \A i \in 1 .. n : s[m + 1 + i] = b[i]
  BY <1>0 DEF IsAround
<1>2. DOMAIN s = 1 .. m + 1 + n /\ DOMAIN a = 1 .. m /\ DOMAIN b = 1 .. n
  BY <1>1
<1>3. /\ \A i \in 1 .. m : a[i].key \in Keys
      /\ \A i \in 1 .. n : b[i].key \in Keys
      /\ p.key \in Keys
  BY EntryKeys
<1> HIDE DEF s, m, n
<1>4. ASSUME Sorted(s)
      PROVE  Sorted(a) /\ Sorted(b) /\ AllBefore(Listed(a), p.key) /\ AllAfter(Listed(b), p.key)
  <2>1. \A i, j \in 1 .. m + 1 + n : i < j =>
          TermOrder(s[i].key, s[j].key) = -1 /\ TermOrder(s[j].key, s[i].key) = 1
    BY <1>2, <1>4 DEF Sorted
  <2>2. Sorted(a)
    <3>1. \A i \in 1 .. m : i \in 1 .. m + 1 + n
      BY <1>1
    <3> QED
      BY <1>1, <1>2, <2>1, <3>1 DEF Sorted
  <2>3. Sorted(b)
    <3>1. ASSUME NEW i \in 1 .. n, NEW j \in 1 .. n, i < j
          PROVE  TermOrder(b[i].key, b[j].key) = -1 /\ TermOrder(b[j].key, b[i].key) = 1
      <4>1. /\ m + 1 + i \in 1 .. m + 1 + n /\ m + 1 + j \in 1 .. m + 1 + n
            /\ m + 1 + i < m + 1 + j
        BY <1>1, <3>1
      <4>2. s[m + 1 + i] = b[i] /\ s[m + 1 + j] = b[j]
        BY <1>1
      <4> QED
        BY <2>1, <4>1, <4>2
    <3> QED
      BY <1>2, <3>1 DEF Sorted
  <2>4. AllBefore(Listed(a), p.key)
    <3>1. ASSUME NEW i \in 1 .. m PROVE TermOrder(a[i].key, p.key) = -1
      <4>1. i \in 1 .. m + 1 + n /\ m + 1 \in 1 .. m + 1 + n /\ i < m + 1
        BY <1>1
      <4> QED
        BY <1>1, <2>1, <4>1
    <3> QED
      BY <1>2, <3>1 DEF AllBefore, Listed
  <2>5. AllAfter(Listed(b), p.key)
    <3>1. ASSUME NEW i \in 1 .. n PROVE TermOrder(p.key, b[i].key) = -1
      <4>1. m + 1 + i \in 1 .. m + 1 + n /\ m + 1 \in 1 .. m + 1 + n /\ m + 1 < m + 1 + i
        BY <1>1
      <4>2. s[m + 1 + i] = b[i] /\ s[m + 1] = p
        BY <1>1
      <4> QED
        BY <2>1, <4>1, <4>2
    <3> QED
      BY <1>2, <3>1 DEF AllAfter, Listed
  <2> QED
    BY <2>2, <2>3, <2>4, <2>5
<1>5. ASSUME Sorted(a), Sorted(b), AllBefore(Listed(a), p.key), AllAfter(Listed(b), p.key)
      PROVE  Sorted(s)
  <2>1. \A i, j \in 1 .. m : i < j => TermOrder(a[i].key, a[j].key) = -1
    BY <1>2, <1>5 DEF Sorted
  <2>2. \A i, j \in 1 .. n : i < j => TermOrder(b[i].key, b[j].key) = -1
    BY <1>2, <1>5 DEF Sorted
  <2>3. \A i \in 1 .. m : TermOrder(a[i].key, p.key) = -1
    BY <1>2, <1>5 DEF AllBefore, Listed
  <2>4. \A j \in 1 .. n : TermOrder(p.key, b[j].key) = -1
    BY <1>2, <1>5 DEF AllAfter, Listed
  <2>5. \A i \in 1 .. m, j \in 1 .. n : TermOrder(a[i].key, b[j].key) = -1
    BY <1>3, <2>3, <2>4, OrderFacts
  <2>6. ASSUME NEW i \in 1 .. m + 1 + n, NEW j \in 1 .. m + 1 + n, i < j
        PROVE  TermOrder(s[i].key, s[j].key) = -1
    <3> DEFINE x == i - (m + 1)  y == j - (m + 1)
    <3>1. i \in 1 .. m \/ i = m + 1 \/ (x \in 1 .. n /\ m + 1 + x = i)
      BY <1>1
    <3>2. j \in 1 .. m \/ j = m + 1 \/ (y \in 1 .. n /\ m + 1 + y = j)
      BY <1>1
    <3>3. CASE i \in 1 .. m /\ j \in 1 .. m
      BY <1>1, <2>1, <2>6, <3>3
    <3>4. CASE i \in 1 .. m /\ j = m + 1
      BY <1>1, <2>3, <3>4
    <3>5. CASE i \in 1 .. m /\ y \in 1 .. n /\ m + 1 + y = j
      <4>1. s[i] = a[i] /\ s[j] = b[y]
        <5> HIDE DEF y
        <5> QED
          BY <1>1, <3>5
      <4> HIDE DEF y
      <4> QED
        BY <2>5, <3>5, <4>1
    <3>6. CASE i = m + 1 /\ y \in 1 .. n /\ m + 1 + y = j
      <4>1. s[i] = p /\ s[j] = b[y]
        <5> HIDE DEF y
        <5> QED
          BY <1>1, <3>6
      <4> HIDE DEF y
      <4> QED
        BY <2>4, <3>6, <4>1
    <3>7. CASE x \in 1 .. n /\ m + 1 + x = i /\ y \in 1 .. n /\ m + 1 + y = j
      <4>1. x < y
        BY <1>1, <2>6, <3>7
      <4> HIDE DEF x, y
      <4>2. s[i] = b[x] /\ s[j] = b[y]
        BY <1>1, <3>7
      <4> QED
        BY <2>2, <3>7, <4>1, <4>2
    <3>8. ~(i = m + 1 /\ j \in 1 .. m) /\ ~(i = m + 1 /\ j = m + 1)
      BY <1>1, <2>6
    <3>9. (x \in 1 .. n /\ m + 1 + x = i) => ~(j \in 1 .. m) /\ j # m + 1
      BY <1>1, <2>6
    <3> HIDE DEF x, y
    <3> QED
      BY <3>1, <3>2, <3>3, <3>4, <3>5, <3>6, <3>7, <3>8, <3>9
  <2>7. \A i \in 1 .. m + 1 + n : s[i].key \in Keys
    BY <1>1, EntryKeys
  <2>8. \A i, j \in 1 .. m + 1 + n : i < j => TermOrder(s[j].key, s[i].key) = 1
    BY <2>6, <2>7, OrderFacts
  <2> QED
    BY <1>2, <2>6, <2>8 DEF Sorted
<1> QED
  BY <1>4, <1>5 DEF s

\* a list in strict order holds a key once
LEMMA SortedOnce ==
  ASSUME NEW s \in Seq(Entry), Sorted(s)
  PROVE  \A i, j \in DOMAIN s : s[i].key = s[j].key => i = j
<1>1. \A i \in DOMAIN s : s[i].key \in Keys /\ i \in Int
  <2>1. DOMAIN s = 1 .. Len(s)
    OBVIOUS
  <2> QED
    BY <2>1, EntryKeys
<1> SUFFICES ASSUME NEW i \in DOMAIN s, NEW j \in DOMAIN s, s[i].key = s[j].key, i # j PROVE FALSE
  OBVIOUS
<1>2. i < j \/ j < i
  BY <1>1
<1>3. TermOrder(s[i].key, s[j].key) = 0 /\ TermOrder(s[j].key, s[i].key) = 0
  BY <1>1, OrderFacts
<1> QED
  BY <1>2, <1>3 DEF Sorted

\* the same of trees: what the empty one and a node list
LEMMA EntriesOf ==
  /\ Entries(Empty) = {} /\ Sorted(Flat(Empty))
  /\ \A t \in Tree : Entries(t) \subseteq Entry
  /\ \A t \in Tree : t # Empty =>
       /\ Entries(t) = Entries(t.left) \cup {Pair(t.key, t.val)} \cup Entries(t.right)
       /\ Sorted(Flat(t)) <=> /\ Sorted(Flat(t.left)) /\ Sorted(Flat(t.right))
                              /\ AllBefore(Entries(t.left), t.key)
                              /\ AllAfter(Entries(t.right), t.key)
<1>1. Entries(Empty) = {} /\ Sorted(Flat(Empty))
  <2>1. DOMAIN <<>> = {}
    OBVIOUS
  <2> QED
    BY <2>1, FlatUnfolds DEF Entries, Listed, Sorted
<1>2. \A t \in Tree : Entries(t) \subseteq Entry
  <2> TAKE t \in Tree
  <2> DEFINE s == Flat(t)
  <2>1. s \in Seq(Entry)
    BY FlatUnfolds
  <2> HIDE DEF s
  <2>2. Listed(s) \subseteq Entry
    BY <2>1 DEF Listed
  <2> QED
    BY <2>2 DEF Entries, s
<1>3. ASSUME NEW t \in Tree, t # Empty
      PROVE  /\ Entries(t) = Entries(t.left) \cup {Pair(t.key, t.val)} \cup Entries(t.right)
             /\ Sorted(Flat(t)) <=> /\ Sorted(Flat(t.left)) /\ Sorted(Flat(t.right))
                                    /\ AllBefore(Entries(t.left), t.key)
                                    /\ AllAfter(Entries(t.right), t.key)
  <2> DEFINE a == Flat(t.left)  p == Pair(t.key, t.val)  b == Flat(t.right)
  <2>1. a \in Seq(Entry) /\ p \in Entry /\ b \in Seq(Entry) /\ p.key = t.key
    BY <1>3, NodeParts, FlatUnfolds, PairIsEntry DEF Pair
  <2>2. Flat(t) = Around(a, p, b)
    BY <1>3, FlatUnfolds
  <2> HIDE DEF a, p, b
  <2>3. Listed(Flat(t)) = Listed(a) \cup {p} \cup Listed(b)
    BY <2>1, <2>2, AroundListed
  <2>4. Sorted(Flat(t)) <=> /\ Sorted(a) /\ Sorted(b)
                            /\ AllBefore(Listed(a), p.key) /\ AllAfter(Listed(b), p.key)
    BY <2>1, <2>2, AroundSorted
  <2> QED
    BY <2>1, <2>3, <2>4 DEF Entries, a, p, b
<1> QED
  BY <1>1, <1>2, <1>3

\* and what the result of $mbal lists
LEMMA EntriesOfBalance ==
  ASSUME NEW k \in Keys, NEW v \in Values, NEW l \in Tree, NEW r \in Tree
  PROVE  /\ Balance(k, v, l, r) \in Tree
         /\ Entries(Balance(k, v, l, r)) = Entries(l) \cup {Pair(k, v)} \cup Entries(r)
         /\ Sorted(Flat(Balance(k, v, l, r))) <=>
              /\ Sorted(Flat(l)) /\ Sorted(Flat(r))
              /\ AllBefore(Entries(l), k) /\ AllAfter(Entries(r), k)
<1> DEFINE n == Node(k, v, l, r)  b == Balance(k, v, l, r)
<1>1. n \in Tree /\ n # Empty /\ n.key = k /\ n.val = v /\ n.left = l /\ n.right = r
  BY TreeParts, NodeFields
<1>2. b \in Tree /\ Flat(b) = Flat(n)
  BY BalanceKeepsOrder
<1> HIDE DEF n, b
<1>3. /\ Entries(n) = Entries(l) \cup {Pair(k, v)} \cup Entries(r)
      /\ Sorted(Flat(n)) <=> /\ Sorted(Flat(l)) /\ Sorted(Flat(r))
                             /\ AllBefore(Entries(l), k) /\ AllAfter(Entries(r), k)
  BY <1>1, EntriesOf
<1>4. Entries(b) = Entries(n)
  BY <1>2 DEF Entries
<1> QED
  BY <1>2, <1>3, <1>4 DEF b

-----------------------------------------------------------------------------
(* Balance.                                                                *)

\* a subtree: empty, or a node that counts its descendants and whose sides are even
EvenTree(t) ==
  \/ t = Empty
  \/ /\ t.left.size \in Nat /\ t.right.size \in Nat
     /\ t.size = 1 + t.left.size + t.right.size
     /\ Even(t.left.size, t.right.size)

LEMMA NodeIsEven ==
  ASSUME NEW k, NEW v, NEW l, NEW r, l.size \in Nat, r.size \in Nat, Even(l.size, r.size)
  PROVE  EvenTree(Node(k, v, l, r))
BY NodeFields DEF EvenTree

LEMMA EvenTreeSize == ASSUME NEW t, EvenTree(t) PROVE t.size \in Nat
BY DEF EvenTree, Empty

LEMMA InnerIsNode ==
  ASSUME NEW a \in Nat, NEW b \in Nat, NEW c \in Nat, NEW d \in Nat,
         b = 1 + c + d, a + b > 1, b > 3 * a, ~(c < 2 * d)
  PROVE  c # 0
OBVIOUS

LEMMA EvenSymmetric ==
  ASSUME NEW m \in Nat, NEW n \in Nat, Even(m, n) PROVE Even(n, m)
BY DEF Even

\* $mbal, after an insertion into the right subtree of a balanced node, of any size: it
\* counts all entries, and it, its children and theirs are balanced again.
THEOREM InsertRightBalances ==
  ASSUME NEW k, NEW v, NEW l, NEW r, NEW n \in Nat,
         EvenTree(l), EvenTree(r), r # Empty, EvenTree(r.left), EvenTree(r.right),
         Even(l.size, n), r.size \in {n, n + 1}
  PROVE  LET t == Balance(k, v, l, r)
         IN /\ t.size = 1 + l.size + r.size
            /\ EvenTree(t) /\ EvenTree(t.left) /\ EvenTree(t.right)
<1> DEFINE t == Balance(k, v, l, r)
<1>1. l.size \in Nat /\ r.size \in Nat
  BY EvenTreeSize
<1>2. /\ r.left.size \in Nat /\ r.right.size \in Nat
      /\ r.size = 1 + r.left.size + r.right.size
      /\ Even(r.left.size, r.right.size)
  BY EvenSymmetric DEF EvenTree
<1>3. ASSUME l.size + r.size > 1 PROVE ~(l.size > 3 * r.size)
  BY <1>1, <1>3 DEF Even
<1>4. CASE l.size + r.size <= 1 \/ ~(r.size > 3 * l.size)
  <2>1. Even(l.size, r.size)
    BY <1>1, <1>3, <1>4 DEF Even
  <2>2. t = Node(k, v, l, r)
    BY <1>1, <1>3, <1>4 DEF Balance
  <2> QED
    BY <2>1, <2>2, <1>1, NodeIsEven, NodeFields
<1>5. CASE l.size + r.size > 1 /\ r.size > 3 * l.size /\ Single(r.left, r.right)
  <2> DEFINE new == Node(k, v, l, r.left)
  <2>1. r.left.size < 2 * r.right.size
    BY <1>5 DEF Single
  <2>2. Even(l.size, r.left.size) /\ Even(1 + l.size + r.left.size, r.right.size)
    BY <1>1, <1>2, <1>5, <2>1 DEF Even
  <2>3. t = Node(r.key, r.val, new, r.right)
    BY <1>1, <1>3, <1>5 DEF Balance, RotateLeft
  <2>4. new.size = 1 + l.size + r.left.size /\ EvenTree(new)
    BY <1>1, <1>2, <2>2, NodeIsEven, NodeFields, EvenSymmetric
  <2> HIDE DEF new
  <2>5. EvenTree(t)
    BY <1>1, <1>2, <2>2, <2>3, <2>4, NodeIsEven, EvenSymmetric
  <2>6. t.left = new /\ t.right = r.right /\ t.size = 1 + new.size + r.right.size
    BY <1>1, <1>2, <2>3, <2>4, NodeFields
  <2> QED
    BY <1>1, <1>2, <2>4, <2>5, <2>6
<1>6. CASE l.size + r.size > 1 /\ r.size > 3 * l.size /\ ~Single(r.left, r.right)
  <2> DEFINE a == Node(k, v, l, r.left.left)
             b == Node(r.key, r.val, r.left.right, r.right)
  <2>1. ~(r.left.size < 2 * r.right.size)
    BY <1>6 DEF Single
  <2>2. r.left # Empty
    BY <1>1, <1>2, <1>6, <2>1, InnerIsNode DEF Empty
  <2>3. /\ r.left.left.size \in Nat /\ r.left.right.size \in Nat
        /\ r.left.size = 1 + r.left.left.size + r.left.right.size
        /\ Even(r.left.left.size, r.left.right.size)
    BY <2>2, EvenSymmetric DEF EvenTree
  <2>4. /\ Even(l.size, r.left.left.size) /\ Even(r.left.right.size, r.right.size)
        /\ Even(1 + l.size + r.left.left.size, 1 + r.left.right.size + r.right.size)
    BY <1>1, <1>2, <1>6, <2>1, <2>3 DEF Even
  <2>5. t = Node(r.left.key, r.left.val, a, b)
    BY <1>1, <1>3, <1>6 DEF Balance, RotateLeftRight
  <2>6. /\ a.size = 1 + l.size + r.left.left.size /\ EvenTree(a)
        /\ b.size = 1 + r.left.right.size + r.right.size /\ EvenTree(b)
    BY <1>1, <1>2, <2>3, <2>4, NodeIsEven, NodeFields, EvenSymmetric
  <2> HIDE DEF a, b
  <2>7. Even(a.size, b.size) /\ a.size \in Nat /\ b.size \in Nat
    BY <1>1, <1>2, <2>3, <2>4, <2>6 DEF Even
  <2>8. EvenTree(t) /\ t.left = a /\ t.right = b /\ t.size = 1 + a.size + b.size
    BY <2>5, <2>7, NodeIsEven, NodeFields
  <2> QED
    BY <1>1, <1>2, <2>3, <2>6, <2>8
<1> QED
  BY <1>1, <1>4, <1>5, <1>6

\* $mbal, after an insertion into the left subtree of a balanced node, of any size: it
\* counts all entries, and it, its children and theirs are balanced again.
THEOREM InsertLeftBalances ==
  ASSUME NEW k, NEW v, NEW l, NEW r, NEW n \in Nat,
         EvenTree(l), EvenTree(r), l # Empty, EvenTree(l.left), EvenTree(l.right),
         Even(r.size, n), l.size \in {n, n + 1}
  PROVE  LET t == Balance(k, v, l, r)
         IN /\ t.size = 1 + l.size + r.size
            /\ EvenTree(t) /\ EvenTree(t.left) /\ EvenTree(t.right)
<1> DEFINE t == Balance(k, v, l, r)
<1>1. l.size \in Nat /\ r.size \in Nat
  BY EvenTreeSize
<1>2. /\ l.right.size \in Nat /\ l.left.size \in Nat
      /\ l.size = 1 + l.right.size + l.left.size
      /\ Even(l.right.size, l.left.size)
  BY EvenSymmetric DEF EvenTree
<1>3. ASSUME l.size + r.size > 1 PROVE ~(r.size > 3 * l.size)
  BY <1>1, <1>3 DEF Even
<1>4. CASE l.size + r.size <= 1 \/ ~(l.size > 3 * r.size)
  <2>1. Even(l.size, r.size)
    BY <1>1, <1>3, <1>4 DEF Even
  <2>2. t = Node(k, v, l, r)
    BY <1>1, <1>3, <1>4 DEF Balance
  <2> QED
    BY <2>1, <2>2, <1>1, NodeIsEven, NodeFields
<1>5. CASE l.size + r.size > 1 /\ l.size > 3 * r.size /\ Single(l.right, l.left)
  <2> DEFINE new == Node(k, v, l.right, r)
  <2>1. l.right.size < 2 * l.left.size
    BY <1>5 DEF Single
  <2>2. Even(r.size, l.right.size) /\ Even(1 + r.size + l.right.size, l.left.size)
    BY <1>1, <1>2, <1>5, <2>1 DEF Even
  <2>3. t = Node(l.key, l.val, l.left, new)
    BY <1>1, <1>3, <1>5 DEF Balance, RotateRight
  <2>4. new.size = 1 + r.size + l.right.size /\ EvenTree(new)
    BY <1>1, <1>2, <2>2, NodeIsEven, NodeFields, EvenSymmetric
  <2> HIDE DEF new
  <2>5. EvenTree(t)
    BY <1>1, <1>2, <2>2, <2>3, <2>4, NodeIsEven, EvenSymmetric
  <2>6. t.left = l.left /\ t.right = new /\ t.size = 1 + new.size + l.left.size
    BY <1>1, <1>2, <2>3, <2>4, NodeFields
  <2> QED
    BY <1>1, <1>2, <2>4, <2>5, <2>6
<1>6. CASE l.size + r.size > 1 /\ l.size > 3 * r.size /\ ~Single(l.right, l.left)
  <2> DEFINE a == Node(l.key, l.val, l.left, l.right.left)
             b == Node(k, v, l.right.right, r)
  <2>1. ~(l.right.size < 2 * l.left.size)
    BY <1>6 DEF Single
  <2>2. l.right # Empty
    BY <1>1, <1>2, <1>6, <2>1, InnerIsNode DEF Empty
  <2>3. /\ l.right.right.size \in Nat /\ l.right.left.size \in Nat
        /\ l.right.size = 1 + l.right.right.size + l.right.left.size
        /\ Even(l.right.right.size, l.right.left.size)
    BY <2>2, EvenSymmetric DEF EvenTree
  <2>4. /\ Even(r.size, l.right.right.size) /\ Even(l.right.left.size, l.left.size)
        /\ Even(1 + r.size + l.right.right.size, 1 + l.right.left.size + l.left.size)
    BY <1>1, <1>2, <1>6, <2>1, <2>3 DEF Even
  <2>5. t = Node(l.right.key, l.right.val, a, b)
    BY <1>1, <1>3, <1>6 DEF Balance, RotateRightLeft
  <2>6. /\ a.size = 1 + l.left.size + l.right.left.size /\ EvenTree(a)
        /\ b.size = 1 + l.right.right.size + r.size /\ EvenTree(b)
    BY <1>1, <1>2, <2>3, <2>4, NodeIsEven, NodeFields, EvenSymmetric
  <2> HIDE DEF a, b
  <2>7. Even(a.size, b.size) /\ a.size \in Nat /\ b.size \in Nat
    BY <1>1, <1>2, <2>3, <2>4, <2>6 DEF Even
  <2>8. EvenTree(t) /\ t.left = a /\ t.right = b /\ t.size = 1 + a.size + b.size
    BY <2>5, <2>7, NodeIsEven, NodeFields
  <2> QED
    BY <1>1, <1>2, <2>3, <2>6, <2>8
<1> QED
  BY <1>1, <1>4, <1>5, <1>6

\* every node of t is balanced
AllEven(t) == \A u \in Nodes(t) : Even(u.left.size, u.right.size)

LEMMA AllEvenOf ==
  /\ AllEven(Empty)
  /\ \A t \in Tree : t # Empty =>
       (AllEven(t) <=> Even(t.left.size, t.right.size) /\ AllEven(t.left) /\ AllEven(t.right))
<1>1. AllEven(Empty)
  BY SubtreesUnfolds DEF AllEven, Nodes
<1>2. ASSUME NEW t \in Tree, t # Empty
      PROVE  AllEven(t) <=> Even(t.left.size, t.right.size) /\ AllEven(t.left) /\ AllEven(t.right)
  <2>1. Nodes(t) = {t} \cup Nodes(t.left) \cup Nodes(t.right)
    BY <1>2, SubtreesUnfolds DEF Nodes
  <2> QED
    BY <2>1 DEF AllEven
<1> QED
  BY <1>1, <1>2

LEMMA AllEvenNode ==
  ASSUME NEW k \in Keys, NEW v \in Values, NEW l \in Tree, NEW r \in Tree
  PROVE  AllEven(Node(k, v, l, r)) <=> Even(l.size, r.size) /\ AllEven(l) /\ AllEven(r)
<1> DEFINE t == Node(k, v, l, r)
<1>1. t \in Tree /\ t # Empty /\ t.left = l /\ t.right = r
  BY TreeParts, NodeFields
<1> HIDE DEF t
<1>2. AllEven(t) <=> Even(l.size, r.size) /\ AllEven(l) /\ AllEven(r)
  BY <1>1, AllEvenOf
<1> QED
  BY <1>2 DEF t

LEMMA AllEvenIsEven ==
  ASSUME NEW t \in Tree, AllEven(t)
  PROVE  /\ EvenTree(t)
         /\ t # Empty => EvenTree(t.left) /\ EvenTree(t.right) /\ AllEven(t.left) /\ AllEven(t.right)
<1>1. ASSUME NEW u \in Tree, AllEven(u) PROVE EvenTree(u)
  BY <1>1, AllEvenOf, NodeParts DEF EvenTree
<1>2. t # Empty => AllEven(t.left) /\ AllEven(t.right) /\ t.left \in Tree /\ t.right \in Tree
  BY AllEvenOf, NodeParts
<1> QED
  BY <1>1, <1>2

LEMMA EvenNode ==
  ASSUME NEW k \in Keys, NEW v \in Values, NEW l \in Tree, NEW r \in Tree,
         EvenTree(Node(k, v, l, r)), AllEven(l), AllEven(r)
  PROVE  AllEven(Node(k, v, l, r))
<1> DEFINE t == Node(k, v, l, r)
<1>1. t \in Tree /\ t # Empty /\ t.left = l /\ t.right = r
  BY TreeParts, NodeFields
<1>2. EvenTree(t)
  OBVIOUS
<1> HIDE DEF t
<1>3. Even(l.size, r.size)
  BY <1>1, <1>2 DEF EvenTree
<1> QED
  BY <1>3, AllEvenNode

\* a balanced node over balanced children, which $mbal made of balanced trees, is balanced
\* all the way down
LEMMA BalanceAllEven ==
  ASSUME NEW k \in Keys, NEW v \in Values, NEW l \in Tree, NEW r \in Tree,
         AllEven(l), AllEven(r),
         LET t == Balance(k, v, l, r) IN EvenTree(t) /\ EvenTree(t.left) /\ EvenTree(t.right)
  PROVE  AllEven(Balance(k, v, l, r))
<1> DEFINE t == Balance(k, v, l, r)
<1>1. EvenTree(t) /\ EvenTree(t.left) /\ EvenTree(t.right)
  OBVIOUS
<1>2. l.size \in Nat /\ r.size \in Nat
  BY TreeParts
<1>3. CASE t = Node(k, v, l, r)
  <2> HIDE DEF t
  <2>1. EvenTree(Node(k, v, l, r))
    BY <1>1, <1>3
  <2>2. AllEven(Node(k, v, l, r))
    BY <2>1, EvenNode
  <2> QED
    BY <1>3, <2>2 DEF t
<1>4. CASE l.size + r.size > 1 /\ r.size > 3 * l.size
  <2>1. r # Empty
    BY <1>2, <1>4 DEF Empty
  <2> DEFINE a == r.left  b == r.right  m == r.key  w == r.val
  <2>2. /\ a \in Tree /\ b \in Tree /\ m \in Keys /\ w \in Values
        /\ a.size \in Nat /\ b.size \in Nat /\ r.size = 1 + a.size + b.size
        /\ AllEven(a) /\ AllEven(b)
    BY <2>1, NodeParts, AllEvenIsEven
  <2>3. CASE Single(a, b)
    <3>1. t = Node(m, w, Node(k, v, l, a), b)
      BY <1>2, <1>4, <2>3 DEF Balance, RotateLeft
    <3> HIDE DEF a, b, m, w, t
    <3> DEFINE x == Node(k, v, l, a)
    <3>2. x \in Tree /\ t.left = x
      BY <2>2, <3>1, TreeParts, NodeFields
    <3>3. AllEven(x)
      BY <1>1, <2>2, <3>2, EvenNode
    <3> HIDE DEF x
    <3>4. EvenTree(Node(m, w, x, b))
      BY <1>1, <3>1 DEF x
    <3>5. AllEven(Node(m, w, x, b))
      BY <2>2, <3>2, <3>3, <3>4, EvenNode
    <3> QED
      BY <3>1, <3>5 DEF x, t
  <2>4. CASE ~Single(a, b)
    <3>1. a # Empty
      BY <1>2, <1>4, <2>2, <2>4 DEF Single, Empty
    <3> DEFINE c == a.left  d == a.right  n == a.key  q == a.val
    <3>2. c \in Tree /\ d \in Tree /\ n \in Keys /\ q \in Values /\ AllEven(c) /\ AllEven(d)
      <4> HIDE DEF a
      <4> QED
        BY <2>2, <3>1, NodeParts, AllEvenIsEven
    <3>3. t = Node(n, q, Node(k, v, l, c), Node(m, w, d, b))
      BY <1>2, <1>4, <2>4 DEF Balance, RotateLeftRight
    <3> HIDE DEF a, b, m, w, c, d, n, q, t
    <3> DEFINE x == Node(k, v, l, c)  y == Node(m, w, d, b)
    <3>4. x \in Tree /\ y \in Tree /\ t.left = x /\ t.right = y
      BY <2>2, <3>2, <3>3, TreeParts, NodeFields
    <3>5. AllEven(x) /\ AllEven(y)
      BY <1>1, <2>2, <3>2, <3>4, EvenNode
    <3> HIDE DEF x, y
    <3>6. EvenTree(Node(n, q, x, y))
      BY <1>1, <3>3 DEF x, y
    <3>7. AllEven(Node(n, q, x, y))
      BY <3>2, <3>4, <3>5, <3>6, EvenNode
    <3> QED
      BY <3>3, <3>7 DEF x, y, t
  <2> QED
    BY <2>3, <2>4
<1>5. CASE l.size + r.size > 1 /\ ~(r.size > 3 * l.size) /\ l.size > 3 * r.size
  <2>1. l # Empty
    BY <1>2, <1>5 DEF Empty
  <2> DEFINE a == l.left  b == l.right  m == l.key  w == l.val
  <2>2. /\ a \in Tree /\ b \in Tree /\ m \in Keys /\ w \in Values
        /\ a.size \in Nat /\ b.size \in Nat /\ l.size = 1 + a.size + b.size
        /\ AllEven(a) /\ AllEven(b)
    BY <2>1, NodeParts, AllEvenIsEven
  <2>3. CASE Single(b, a)
    <3>1. t = Node(m, w, a, Node(k, v, b, r))
      BY <1>2, <1>5, <2>3 DEF Balance, RotateRight
    <3> HIDE DEF a, b, m, w, t
    <3> DEFINE x == Node(k, v, b, r)
    <3>2. x \in Tree /\ t.right = x
      BY <2>2, <3>1, TreeParts, NodeFields
    <3>3. AllEven(x)
      BY <1>1, <2>2, <3>2, EvenNode
    <3> HIDE DEF x
    <3>4. EvenTree(Node(m, w, a, x))
      BY <1>1, <3>1 DEF x
    <3>5. AllEven(Node(m, w, a, x))
      BY <2>2, <3>2, <3>3, <3>4, EvenNode
    <3> QED
      BY <3>1, <3>5 DEF x, t
  <2>4. CASE ~Single(b, a)
    <3>1. b # Empty
      BY <1>2, <1>5, <2>2, <2>4 DEF Single, Empty
    <3> DEFINE c == b.left  d == b.right  n == b.key  q == b.val
    <3>2. c \in Tree /\ d \in Tree /\ n \in Keys /\ q \in Values /\ AllEven(c) /\ AllEven(d)
      <4> HIDE DEF b
      <4> QED
        BY <2>2, <3>1, NodeParts, AllEvenIsEven
    <3>3. t = Node(n, q, Node(m, w, a, c), Node(k, v, d, r))
      BY <1>2, <1>5, <2>4 DEF Balance, RotateRightLeft
    <3> HIDE DEF a, b, m, w, c, d, n, q, t
    <3> DEFINE x == Node(m, w, a, c)  y == Node(k, v, d, r)
    <3>4. x \in Tree /\ y \in Tree /\ t.left = x /\ t.right = y
      BY <2>2, <3>2, <3>3, TreeParts, NodeFields
    <3>5. AllEven(x) /\ AllEven(y)
      BY <1>1, <2>2, <3>2, <3>4, EvenNode
    <3> HIDE DEF x, y
    <3>6. EvenTree(Node(n, q, x, y))
      BY <1>1, <3>3 DEF x, y
    <3>7. AllEven(Node(n, q, x, y))
      BY <3>2, <3>4, <3>5, <3>6, EvenNode
    <3> QED
      BY <3>3, <3>7 DEF x, y, t
  <2> QED
    BY <2>3, <2>4
<1> QED
  BY <1>2, <1>3, <1>4, <1>5 DEF Balance

\* $mput keeps a tree balanced, all the way down and whatever its size, and adds at most
\* one entry.
THEOREM PutBalances ==
  ASSUME NEW k \in Keys, NEW v \in Values
  PROVE  \A t \in Tree : AllEven(t) =>
           /\ AllEven(Put(t, k, v))
           /\ Put(t, k, v) # Empty
           /\ Put(t, k, v).size \in {t.size, t.size + 1}
<1> DEFINE Good(t, u) == AllEven(t) => AllEven(u) /\ u # Empty /\ u.size \in {t.size, t.size + 1}
           S == {t \in Tree : Good(t, Put(t, k, v))}
<1>1. Empty \in S
  <2> DEFINE u == Node(k, v, Empty, Empty)
  <2>1. Put(Empty, k, v) = u
    BY PutUnfolds
  <2>2. u # Empty /\ u.size = 1
    BY TreeParts, NodeFields DEF Empty
  <2>3. AllEven(u)
    <3>1. Even(Empty.size, Empty.size)
      BY DEF Even, Empty
    <3> QED
      BY <3>1, TreeParts, AllEvenOf, AllEvenNode
  <2> HIDE DEF u
  <2>4. Good(Empty, u)
    BY <2>2, <2>3, TreeParts
  <2> QED
    BY <2>1, <2>4, TreeParts
<1>2. ASSUME NEW t \in Tree, t # Empty, t.left \in S, t.right \in S PROVE t \in S
  <2> DEFINE m == t.key  w == t.val  l == t.left  r == t.right
             x == Put(l, k, v)  y == Put(r, k, v)
  <2>1. /\ m \in Keys /\ w \in Values /\ l \in Tree /\ r \in Tree /\ t = Node(m, w, l, r)
        /\ l.size \in Nat /\ r.size \in Nat /\ t.size = 1 + l.size + r.size
    BY <1>2, NodeParts
  <2>2. x \in Tree /\ y \in Tree
    BY <2>1, PutUnfolds
  <2>3. Good(l, x) /\ Good(r, y)
    BY <1>2
  <2>4. Put(t, k, v) = PutStep(k, v, t, x, y)
    BY <1>2, PutUnfolds
  <2> SUFFICES ASSUME AllEven(t)
               PROVE  LET u == PutStep(k, v, t, x, y)
                      IN AllEven(u) /\ u # Empty /\ u.size \in {t.size, t.size + 1}
    <3> HIDE DEF x, y
    <3> QED
      BY <2>4, Zenon
  <2>5. Even(l.size, r.size) /\ AllEven(l) /\ AllEven(r)
    BY <1>2, AllEvenOf
  <2>6. AllEven(x) /\ x # Empty /\ x.size \in {l.size, l.size + 1}
    BY <2>3, <2>5
  <2>7. AllEven(y) /\ y # Empty /\ y.size \in {r.size, r.size + 1}
    BY <2>3, <2>5
  <2>8. /\ EvenTree(l) /\ EvenTree(r)
        /\ EvenTree(x) /\ EvenTree(x.left) /\ EvenTree(x.right)
        /\ EvenTree(y) /\ EvenTree(y.left) /\ EvenTree(y.right)
    BY <2>1, <2>2, <2>5, <2>6, <2>7, AllEvenIsEven
  <2>9. PutStep(k, v, t, x, y) = LET c == TermOrder(k, m)
                                 IN IF c < 0 THEN Balance(m, w, x, r)
                                    ELSE IF c > 0 THEN Balance(m, w, l, y)
                                    ELSE Node(k, v, l, r)
    BY DEF PutStep
  <2> HIDE DEF m, w, l, r, x, y
  <2>10. CASE PutStep(k, v, t, x, y) = Balance(m, w, x, r)
    <3> DEFINE u == Balance(m, w, x, r)
    <3>1. u.size = 1 + x.size + r.size /\ EvenTree(u) /\ EvenTree(u.left) /\ EvenTree(u.right)
      <4>1. Even(r.size, l.size)
        BY <2>1, <2>5, EvenSymmetric
      <4> QED
        BY <2>1, <2>6, <2>8, <4>1, InsertLeftBalances
    <3>2. AllEven(u)
      BY <2>1, <2>2, <2>5, <2>6, <3>1, BalanceAllEven
    <3> HIDE DEF u
    <3>3. u # Empty
      BY <2>1, <2>6, <3>1 DEF Empty
    <3> QED
      BY <2>1, <2>6, <2>10, <3>1, <3>2, <3>3 DEF u
  <2>11. CASE PutStep(k, v, t, x, y) = Balance(m, w, l, y)
    <3> DEFINE u == Balance(m, w, l, y)
    <3>1. u.size = 1 + l.size + y.size /\ EvenTree(u) /\ EvenTree(u.left) /\ EvenTree(u.right)
      BY <2>1, <2>5, <2>7, <2>8, InsertRightBalances
    <3>2. AllEven(u)
      BY <2>1, <2>2, <2>5, <2>7, <3>1, BalanceAllEven
    <3> HIDE DEF u
    <3>3. u # Empty
      BY <2>1, <2>7, <3>1 DEF Empty
    <3> QED
      BY <2>1, <2>7, <2>11, <3>1, <3>2, <3>3 DEF u
  <2>12. CASE PutStep(k, v, t, x, y) = Node(k, v, l, r)
    <3> DEFINE u == Node(k, v, l, r)
    <3>1. AllEven(u) /\ u # Empty /\ u.size = 1 + l.size + r.size
      BY <2>1, <2>5, AllEvenNode, TreeParts, NodeFields
    <3> HIDE DEF u
    <3> QED
      BY <2>1, <2>12, <3>1 DEF u
  <2> QED
    BY <2>9, <2>10, <2>11, <2>12
<1> HIDE DEF S
<1>3. Tree \subseteq S
  BY <1>1, <1>2, TreeInduction
<1> QED
  BY <1>3 DEF S

-----------------------------------------------------------------------------
(* Reading and writing a key.                                              *)

\* what is listed after k is bound to v
Bound(P, k, v) == {p \in P : p.key # k} \cup {Pair(k, v)}

LEMMA PairKey == \A k, v : Pair(k, v).key = k /\ Pair(k, v).val = v
BY DEF Pair

\* $mput leaves the tree in order, and changes the entry of its key and no other: it
\* replaces it, or adds it where there was none.
THEOREM PutBinds ==
  ASSUME NEW k \in Keys, NEW v \in Values
  PROVE  \A t \in Tree : Sorted(Flat(t)) =>
           /\ Sorted(Flat(Put(t, k, v)))
           /\ Entries(Put(t, k, v)) = Bound(Entries(t), k, v)
<1> DEFINE Good(t, u) == Sorted(Flat(t)) => /\ Sorted(Flat(u))
                                            /\ Entries(u) = Bound(Entries(t), k, v)
           S == {t \in Tree : Good(t, Put(t, k, v))}
<1>1. Empty \in S
  <2> DEFINE u == Node(k, v, Empty, Empty)
  <2>1. Put(Empty, k, v) = u
    BY PutUnfolds
  <2>2. u \in Tree /\ u # Empty /\ u.key = k /\ u.val = v /\ u.left = Empty /\ u.right = Empty
    BY TreeParts, NodeFields
  <2> HIDE DEF u
  <2>3. Sorted(Flat(u)) /\ Entries(u) = {Pair(k, v)}
    BY <2>2, EntriesOf DEF AllBefore, AllAfter
  <2>4. Good(Empty, u)
    BY <2>3, EntriesOf DEF Bound
  <2> QED
    BY <2>1, <2>4, TreeParts
<1>2. ASSUME NEW t \in Tree, t # Empty, t.left \in S, t.right \in S PROVE t \in S
  <2> DEFINE m == t.key  w == t.val  l == t.left  r == t.right
             x == Put(l, k, v)  y == Put(r, k, v)
  <2>1. m \in Keys /\ w \in Values /\ l \in Tree /\ r \in Tree
    BY <1>2, NodeParts
  <2>2. x \in Tree /\ y \in Tree
    BY <2>1, PutUnfolds
  <2>3. Good(l, x) /\ Good(r, y)
    BY <1>2
  <2>4. Put(t, k, v) = PutStep(k, v, t, x, y)
    BY <1>2, PutUnfolds
  <2> SUFFICES ASSUME Sorted(Flat(t))
               PROVE  LET u == PutStep(k, v, t, x, y)
                      IN Sorted(Flat(u)) /\ Entries(u) = Bound(Entries(t), k, v)
    <3> HIDE DEF x, y
    <3> QED
      BY <2>4, Zenon
  <2>5. /\ Entries(t) = Entries(l) \cup {Pair(m, w)} \cup Entries(r)
        /\ Sorted(Flat(l)) /\ Sorted(Flat(r)) /\ AllBefore(Entries(l), m) /\ AllAfter(Entries(r), m)
    BY <1>2, EntriesOf
  <2>6. /\ Sorted(Flat(x)) /\ Entries(x) = Bound(Entries(l), k, v)
        /\ Sorted(Flat(y)) /\ Entries(y) = Bound(Entries(r), k, v)
    BY <2>3, <2>5
  <2>7. PutStep(k, v, t, x, y) = LET c == TermOrder(k, m)
                                 IN IF c < 0 THEN Balance(m, w, x, r)
                                    ELSE IF c > 0 THEN Balance(m, w, l, y)
                                    ELSE Node(k, v, l, r)
    BY DEF PutStep
  <2>8. /\ \A p \in Entries(l) : p.key \in Keys /\ TermOrder(p.key, m) = -1
        /\ \A p \in Entries(r) : p.key \in Keys /\ TermOrder(m, p.key) = -1
    BY <2>1, <2>5, EntriesOf, EntryKeys DEF AllBefore, AllAfter
  <2> HIDE DEF m, w, l, r, x, y
  <2>9. CASE TermOrder(k, m) = -1
    <3> DEFINE u == Balance(m, w, x, r)
    <3>1. PutStep(k, v, t, x, y) = u
      BY <2>7, <2>9
    <3>2. AllBefore(Entries(x), m)
      BY <2>6, <2>8, <2>9, PairKey DEF AllBefore, Bound
    <3>3. Sorted(Flat(u)) /\ Entries(u) = Entries(x) \cup {Pair(m, w)} \cup Entries(r)
      BY <2>1, <2>2, <2>5, <2>6, <3>2, EntriesOfBalance
    <3>4. m # k /\ \A p \in Entries(r) : p.key # k
      BY <2>1, <2>8, <2>9, OrderFacts
    <3> HIDE DEF u
    <3>5. Entries(u) = Bound(Entries(t), k, v)
      BY <2>5, <2>6, <3>3, <3>4, PairKey DEF Bound
    <3> QED
      BY <3>1, <3>3, <3>5
  <2>10. CASE TermOrder(k, m) = 1
    <3> DEFINE u == Balance(m, w, l, y)
    <3>1. PutStep(k, v, t, x, y) = u
      BY <2>7, <2>10
    <3>2. TermOrder(m, k) = -1
      BY <2>1, <2>10, OrderFacts
    <3>3. AllAfter(Entries(y), m)
      BY <2>6, <2>8, <3>2, PairKey DEF AllAfter, Bound
    <3>4. Sorted(Flat(u)) /\ Entries(u) = Entries(l) \cup {Pair(m, w)} \cup Entries(y)
      BY <2>1, <2>2, <2>5, <2>6, <3>3, EntriesOfBalance
    <3>5. m # k /\ \A p \in Entries(l) : p.key # k
      BY <2>1, <2>8, <3>2, OrderFacts
    <3> HIDE DEF u
    <3>6. Entries(u) = Bound(Entries(t), k, v)
      BY <2>5, <2>6, <3>4, <3>5, PairKey DEF Bound
    <3> QED
      BY <3>1, <3>4, <3>6
  <2>11. CASE TermOrder(k, m) = 0
    <3> DEFINE u == Node(k, v, l, r)
    <3>1. PutStep(k, v, t, x, y) = u
      BY <2>7, <2>11
    <3>2. k = m
      BY <2>1, <2>11, OrderFacts
    <3>3. u \in Tree /\ u # Empty /\ u.key = k /\ u.val = v /\ u.left = l /\ u.right = r
      BY <2>1, TreeParts, NodeFields
    <3> HIDE DEF u
    <3>4. Sorted(Flat(u)) /\ Entries(u) = Entries(l) \cup {Pair(k, v)} \cup Entries(r)
      BY <2>5, <3>2, <3>3, EntriesOf
    <3>5. \A p \in Entries(l) \cup Entries(r) : p.key # k
      BY <2>1, <2>8, <3>2, OrderFacts
    <3>6. Entries(u) = Bound(Entries(t), k, v)
      BY <2>5, <3>2, <3>4, <3>5, PairKey DEF Bound
    <3> QED
      BY <3>1, <3>4, <3>6
  <2> QED
    BY <2>1, <2>9, <2>10, <2>11, OrderFacts
<1> HIDE DEF S
<1>3. Tree \subseteq S
  BY <1>1, <1>2, TreeInduction
<1> QED
  BY <1>3 DEF S

\* $mfind comes to an entry of its key or to null; in a tree in order, to null only when
\* there is no such entry.
THEOREM FindFinds ==
  ASSUME NEW k \in Keys
  PROVE  \A t \in Tree :
           /\ Has(t, k) => Find(t, k).key = k /\ Pair(k, Find(t, k).val) \in Entries(t)
           /\ Sorted(Flat(t)) /\ ~Has(t, k) => \A p \in Entries(t) : p.key # k
<1> DEFINE Good(t, f) == /\ f # Empty => f.key = k /\ Pair(k, f.val) \in Entries(t)
                         /\ Sorted(Flat(t)) /\ f = Empty => \A p \in Entries(t) : p.key # k
           S == {t \in Tree : Good(t, Find(t, k))}
<1>1. Empty \in S
  BY FindUnfolds, EntriesOf, TreeParts
<1>2. ASSUME NEW t \in Tree, t # Empty, t.left \in S, t.right \in S PROVE t \in S
  <2> DEFINE m == t.key  w == t.val  l == t.left  r == t.right
             x == Find(l, k)  y == Find(r, k)
  <2>1. m \in Keys /\ w \in Values /\ l \in Tree /\ r \in Tree
    BY <1>2, NodeParts
  <2>2. Good(l, x) /\ Good(r, y)
    BY <1>2
  <2>3. Find(t, k) = LET c == TermOrder(k, m) IN IF c = 0 THEN t ELSE IF c < 0 THEN x ELSE y
    BY <1>2, FindUnfolds DEF FindStep
  <2> SUFFICES Good(t, Find(t, k))
    BY <1>2
  <2>4. /\ Entries(t) = Entries(l) \cup {Pair(m, w)} \cup Entries(r)
        /\ Sorted(Flat(t)) => /\ Sorted(Flat(l)) /\ Sorted(Flat(r))
                              /\ AllBefore(Entries(l), m) /\ AllAfter(Entries(r), m)
    BY <1>2, EntriesOf
  <2>5. Sorted(Flat(t)) => /\ \A p \in Entries(l) : p.key \in Keys /\ TermOrder(p.key, m) = -1
                           /\ \A p \in Entries(r) : p.key \in Keys /\ TermOrder(m, p.key) = -1
    BY <2>1, <2>4, EntriesOf, EntryKeys DEF AllBefore, AllAfter
  <2>6. t.key = m /\ t.val = w
    OBVIOUS
  <2> HIDE DEF m, w, l, r, x, y
  <2>7. CASE TermOrder(k, m) = 0
    <3>1. k = m /\ Find(t, k) = t
      BY <2>1, <2>3, <2>7, OrderFacts
    <3> QED
      BY <1>2, <2>4, <2>6, <3>1
  <2>8. CASE TermOrder(k, m) = -1
    <3>1. Find(t, k) = x
      BY <2>3, <2>8
    <3>2. m # k /\ (Sorted(Flat(t)) => \A p \in Entries(r) : p.key # k)
      BY <2>1, <2>5, <2>8, OrderFacts
    <3> QED
      BY <2>2, <2>4, <3>1, <3>2, PairKey
  <2>9. CASE TermOrder(k, m) = 1
    <3>1. Find(t, k) = y
      BY <2>3, <2>9
    <3>2. TermOrder(m, k) = -1
      BY <2>1, <2>9, OrderFacts
    <3>3. m # k /\ (Sorted(Flat(t)) => \A p \in Entries(l) : p.key # k)
      BY <2>1, <2>5, <3>2, OrderFacts
    <3> QED
      BY <2>2, <2>4, <3>1, <3>3, PairKey
  <2> QED
    BY <2>1, <2>7, <2>8, <2>9, OrderFacts
<1> HIDE DEF S
<1>3. Tree \subseteq S
  BY <1>1, <1>2, TreeInduction
<1> QED
  BY <1>3 DEF S, Has

\* the size of a tree is the number of its entries
LEMMA FlatLength == \A t \in Tree : Len(Flat(t)) = t.size
<1> DEFINE S == {t \in Tree : Len(Flat(t)) = t.size}
<1>1. Empty \in S
  BY FlatUnfolds, TreeParts
<1>2. ASSUME NEW t \in Tree, t # Empty, t.left \in S, t.right \in S PROVE t \in S
  <2> DEFINE a == Flat(t.left)  p == Pair(t.key, t.val)  b == Flat(t.right)
  <2>1. a \in Seq(Entry) /\ p \in Entry /\ b \in Seq(Entry) /\ Flat(t) = Around(a, p, b)
    BY <1>2, NodeParts, FlatUnfolds, PairIsEntry
  <2>2. Len(a) = t.left.size /\ Len(b) = t.right.size
    BY <1>2
  <2>3. /\ t.left.size \in Nat /\ t.right.size \in Nat
        /\ t.size = 1 + t.left.size + t.right.size
    BY <1>2, NodeParts
  <2> HIDE DEF a, p, b
  <2>4. Len(Around(a, p, b)) = Len(a) + 1 + Len(b)
    BY <2>1, AroundIsSequence DEF IsAround
  <2> QED
    BY <1>2, <2>1, <2>2, <2>3, <2>4
<1> HIDE DEF S
<1>3. Tree \subseteq S
  BY <1>1, <1>2, TreeInduction
<1> QED
  BY <1>3 DEF S

\* $msel goes by the sizes of subtrees and comes to the pair that the tree lists at that
\* place; past the last it comes to null.
THEOREM SelectCounts ==
  \A t \in Tree, i \in Nat :
    IF i < t.size THEN /\ Select(t, i) # Empty
                       /\ Pair(Select(t, i).key, Select(t, i).val) = Flat(t)[i + 1]
    ELSE Select(t, i) = Empty
<1> DEFINE At(t, i, f) == IF i < t.size THEN f # Empty /\ Pair(f.key, f.val) = Flat(t)[i + 1]
                          ELSE f = Empty
           S == {t \in Tree : \A i \in Nat : At(t, i, Select(t, i))}
<1>1. Empty \in S
  BY SelectUnfolds, TreeParts
<1>2. ASSUME NEW t \in Tree, t # Empty, t.left \in S, t.right \in S, NEW i \in Nat
      PROVE  At(t, i, Select(t, i))
  <2> DEFINE a == Flat(t.left)  p == Pair(t.key, t.val)  b == Flat(t.right)
             m == t.left.size  n == t.right.size
             s == Flat(t)
  <2>1. a \in Seq(Entry) /\ p \in Entry /\ b \in Seq(Entry) /\ s = Around(a, p, b)
    BY <1>2, NodeParts, FlatUnfolds, PairIsEntry
  <2>2. /\ m \in Nat /\ n \in Nat /\ t.size = 1 + m + n
        /\ t.left \in Tree /\ t.right \in Tree
    BY <1>2, NodeParts
  <2>3. Len(a) = m /\ Len(b) = n
    BY <2>2, FlatLength
  <2> HIDE DEF a, p, b, s
  <2>4. /\ \A j \in 1 .. m : s[j] = a[j]
        /\ s[m + 1] = p
        /\ \A j \in 1 .. n : s[m + 1 + j] = b[j]
    <3>1. IsAround(s, Entry, a, p, b)
      BY <2>1, AroundIsSequence
    <3> HIDE DEF m, n
    <3> QED
      BY <2>3, <3>1 DEF IsAround
  <2>5. Select(t, i) = IF i = m THEN t ELSE IF i < m THEN Select(t.left, i)
                       ELSE Select(t.right, i - (m + 1))
    BY <1>2, SelectUnfolds
  <2>6. \A j \in Nat : IF j < m THEN LET f == Select(t.left, j) IN f # Empty /\ Pair(f.key, f.val) = a[j + 1]
                       ELSE Select(t.left, j) = Empty
    BY <1>2 DEF a
  <2>7. \A j \in Nat : IF j < n THEN LET f == Select(t.right, j) IN f # Empty /\ Pair(f.key, f.val) = b[j + 1]
                       ELSE Select(t.right, j) = Empty
    BY <1>2 DEF b
  <2> HIDE DEF m, n
  <2>8. CASE i = m
    <3>1. i < t.size /\ Select(t, i) = t /\ s[i + 1] = p
      BY <2>2, <2>4, <2>5, <2>8
    <3> QED
      BY <1>2, <3>1 DEF s, p
  <2>9. CASE i < m
    <3>1. i < t.size /\ Select(t, i) = Select(t.left, i) /\ i + 1 \in 1 .. m
      BY <2>2, <2>5, <2>9
    <3>2. s[i + 1] = a[i + 1]
      BY <2>4, <3>1
    <3> QED
      BY <2>6, <2>9, <3>1, <3>2 DEF s
  <2>10. CASE i > m
    <3> DEFINE j == i - (m + 1)
    <3>1a. j \in Nat
      BY <2>2, <2>10
    <3>1b. Select(t, i) = Select(t.right, j)
      BY <2>2, <2>5, <2>10
    <3>1c. i < t.size <=> j < n
      BY <2>2, <2>10
    <3>2. m + 1 + (j + 1) = i + 1
      BY <2>2
    <3> HIDE DEF j
    <3>3. j < n => s[i + 1] = b[j + 1]
      <4>1. j < n => j + 1 \in 1 .. n
        BY <2>2, <3>1a
      <4> QED
        BY <2>4, <3>2, <4>1
    <3> QED
      BY <2>7, <3>1a, <3>1b, <3>1c, <3>3 DEF s
  <2> QED
    BY <2>2, <2>8, <2>9, <2>10
<1> HIDE DEF At
<1>3. ASSUME NEW t \in Tree, t # Empty, t.left \in S, t.right \in S PROVE t \in S
  BY <1>2, <1>3
<1>4. Tree \subseteq S
  <2> HIDE DEF S
  <2> QED
    BY <1>1, <1>3, TreeInduction
<1> QED
  BY <1>4 DEF At

-----------------------------------------------------------------------------
(* Pair after pair: $map_from_kv, merges, from_keys.                       *)

\* a[n] is the tree after the first n pairs, up to m
Puts(m, a, t, pairs) ==
  a = [n \in 0 .. m |-> IF n = 0 THEN t ELSE Put(a[n - 1], pairs[n].key, pairs[n].val)]

LEMMA PutsExists ==
  ASSUME NEW t, NEW pairs PROVE \A m \in Nat : \E a : Puts(m, a, t, pairs)
<1> DEFINE S == {m \in Nat : \E a : Puts(m, a, t, pairs)}
<1>1. 0 \in S
  <2> DEFINE a == [n \in 0 .. 0 |-> t]
  <2>1. Puts(0, a, t, pairs)
    BY DEF Puts
  <2> QED
    BY <2>1
<1>2. ASSUME NEW m \in Nat, m \in S PROVE m + 1 \in S
  <2>1. PICK a : Puts(m, a, t, pairs)
    BY <1>2
  <2> DEFINE step(f, n) == Put(f[n - 1], pairs[n].key, pairs[n].val)
  <2>2. \A n \in 0 .. m : a[n] = IF n = 0 THEN t ELSE step(a, n)
    BY <2>1 DEF Puts
  <2> DEFINE b == [n \in 0 .. m + 1 |-> IF n = m + 1 THEN step(a, m + 1) ELSE a[n]]
  <2>3. \A n \in 0 .. m : b[n] = a[n]
    OBVIOUS
  <2>4. b[m + 1] = step(a, m + 1) /\ (m + 1) - 1 = m
    OBVIOUS
  <2>5. DOMAIN b = 0 .. m + 1 /\ b = [n \in 0 .. m + 1 |-> b[n]]
    OBVIOUS
  <2> HIDE DEF b
  <2>6. \A n \in 0 .. m + 1 : b[n] = IF n = 0 THEN t ELSE step(b, n)
    <3> TAKE n \in 0 .. m + 1
    <3>1. CASE n = m + 1
      <4>1. b[n - 1] = a[n - 1]
        BY <2>3, <3>1
      <4> QED
        BY <2>4, <3>1, <4>1
    <3>2. CASE n \in 0 .. m
      <4>1. n # 0 => b[n - 1] = a[n - 1]
        BY <2>3, <3>2
      <4> QED
        BY <2>2, <2>3, <3>2, <4>1
    <3> QED
      BY <3>1, <3>2
  <2>7. Puts(m + 1, b, t, pairs)
    BY <2>5, <2>6, Zenon DEF Puts
  <2> QED
    BY <2>7
<1> HIDE DEF S
<1>3. Nat \subseteq S
  BY <1>1, <1>2, SetInduction
<1> QED
  BY <1>3 DEF S

\* the trees on the way
LEMMA PutAllSteps ==
  ASSUME NEW t, NEW pairs, Len(pairs) \in Nat
  PROVE  \E a : Puts(Len(pairs), a, t, pairs) /\ PutAll(t, pairs) = a[Len(pairs)]
<1> DEFINE m == Len(pairs)
           body(f) == [n \in 0 .. m |-> IF n = 0 THEN t ELSE Put(f[n - 1], pairs[n].key, pairs[n].val)]
           after == CHOOSE f : f = body(f)
<1>1. PICK a : Puts(m, a, t, pairs)
  BY PutsExists
<1>2. a = body(a)
  BY <1>1 DEF Puts
<1>3. after = body(after)
  <2> HIDE DEF body
  <2> QED
    BY <1>2, Zenon
<1>4. PutAll(t, pairs) = after[m]
  BY DEF PutAll
<1> HIDE DEF after
<1>5. Puts(m, after, t, pairs)
  BY <1>3 DEF Puts
<1> QED
  BY <1>4, <1>5

\* pair by pair, a balanced tree stays balanced
LEMMA PutAllBalances ==
  ASSUME NEW t \in Tree, AllEven(t), NEW pairs \in Seq(Entry)
  PROVE  PutAll(t, pairs) \in Tree /\ AllEven(PutAll(t, pairs))
<1> DEFINE m == Len(pairs)
<1>1. m \in Nat /\ \A n \in 1 .. m : pairs[n].key \in Keys /\ pairs[n].val \in Values
  BY EntryKeys
<1>2. PICK a : Puts(m, a, t, pairs) /\ PutAll(t, pairs) = a[m]
  BY <1>1, PutAllSteps
<1> HIDE DEF m
<1>3. \A n \in 0 .. m : a[n] = IF n = 0 THEN t ELSE Put(a[n - 1], pairs[n].key, pairs[n].val)
  BY <1>2 DEF Puts
<1> DEFINE S == {n \in Nat : n <= m => a[n] \in Tree /\ AllEven(a[n])}
<1>4. 0 \in S
  BY <1>1, <1>3
<1>5. ASSUME NEW n \in Nat, n \in S PROVE n + 1 \in S
  <2> SUFFICES ASSUME n + 1 <= m PROVE a[n + 1] \in Tree /\ AllEven(a[n + 1])
    OBVIOUS
  <2>1. a[n] \in Tree /\ AllEven(a[n])
    BY <1>1, <1>5
  <2>2. n + 1 \in 1 .. m /\ n + 1 \in 0 .. m /\ n + 1 # 0 /\ (n + 1) - 1 = n
    BY <1>1
  <2> DEFINE k == pairs[n + 1].key  v == pairs[n + 1].val
  <2>3. a[n + 1] = Put(a[n], k, v) /\ k \in Keys /\ v \in Values
    BY <1>1, <1>3, <2>2
  <2> HIDE DEF k, v
  <2> QED
    BY <2>1, <2>3, PutUnfolds, PutBalances
<1> HIDE DEF S
<1>6. Nat \subseteq S
  BY <1>4, <1>5, SetInduction
<1> QED
  BY <1>1, <1>2, <1>6 DEF S

\* a key has one value
Functional(s) == \A i, j \in DOMAIN s : s[i].key = s[j].key => s[i] = s[j]

\* what is listed after all the pairs: they, and what was there of other keys
Overlaid(P, s) == {p \in P : \A i \in DOMAIN s : s[i].key # p.key} \cup Listed(s)

LEMMA PutAllBinds ==
  ASSUME NEW t \in Tree, Sorted(Flat(t)), NEW pairs \in Seq(Entry), Functional(pairs)
  PROVE  /\ Sorted(Flat(PutAll(t, pairs)))
         /\ Entries(PutAll(t, pairs)) = Overlaid(Entries(t), pairs)
<1> DEFINE m == Len(pairs)
           Over(n) == {p \in Entries(t) : \A i \in 1 .. n : pairs[i].key # p.key} \cup {pairs[i] : i \in 1 .. n}
<1>1. /\ m \in Nat /\ DOMAIN pairs = 1 .. m
      /\ \A n \in 1 .. m : /\ pairs[n].key \in Keys /\ pairs[n].val \in Values
                           /\ pairs[n] = Pair(pairs[n].key, pairs[n].val)
  BY EntryKeys
<1>2. PICK a : Puts(m, a, t, pairs) /\ PutAll(t, pairs) = a[m]
  BY <1>1, PutAllSteps
<1> HIDE DEF m
<1>3. \A n \in 0 .. m : a[n] = IF n = 0 THEN t ELSE Put(a[n - 1], pairs[n].key, pairs[n].val)
  BY <1>2 DEF Puts
<1> DEFINE S == {n \in Nat : n <= m => a[n] \in Tree /\ Sorted(Flat(a[n])) /\ Entries(a[n]) = Over(n)}
<1>4. 0 \in S
  <2>1. Over(0) = Entries(t)
    OBVIOUS
  <2>2. a[0] = t
    BY <1>1, <1>3
  <2> HIDE DEF Over
  <2> QED
    BY <2>1, <2>2
<1>5. ASSUME NEW n \in Nat, n \in S PROVE n + 1 \in S
  <2> SUFFICES ASSUME n + 1 <= m
               PROVE  a[n + 1] \in Tree /\ Sorted(Flat(a[n + 1])) /\ Entries(a[n + 1]) = Over(n + 1)
    OBVIOUS
  <2>1. a[n] \in Tree /\ Sorted(Flat(a[n])) /\ Entries(a[n]) = Over(n)
    BY <1>1, <1>5
  <2>2. /\ n + 1 \in 1 .. m /\ n + 1 \in 0 .. m /\ n + 1 # 0 /\ (n + 1) - 1 = n
        /\ \A i \in 1 .. n : i \in 1 .. m
        /\ \A i \in 1 .. n + 1 : i \in 1 .. n \/ i = n + 1
        /\ \A i \in 1 .. n : i \in 1 .. n + 1
        /\ n + 1 \in 1 .. n + 1
    BY <1>1
  <2> DEFINE q == pairs[n + 1]  k == q.key  v == q.val
  <2>3. a[n + 1] = Put(a[n], k, v) /\ k \in Keys /\ v \in Values /\ q = Pair(k, v)
    BY <1>1, <1>3, <2>2
  <2>4. \A i \in 1 .. n : pairs[i].key = k => pairs[i] = q
    BY <1>1, <2>2 DEF Functional
  <2>5. Over(n + 1) = {p \in Over(n) : p.key # k} \cup {q}
    <3>1. ASSUME NEW p \in Over(n + 1) PROVE p \in {x \in Over(n) : x.key # k} \cup {q}
      <4>1. CASE p \in Entries(t) /\ \A i \in 1 .. n + 1 : pairs[i].key # p.key
        BY <2>2, <4>1
      <4>2. CASE p \in {pairs[i] : i \in 1 .. n + 1}
        BY <2>2, <2>4, <4>2
      <4> QED
        BY <4>1, <4>2
    <3>2. ASSUME NEW p \in Over(n), p.key # k PROVE p \in Over(n + 1)
      <4>1. CASE p \in Entries(t) /\ \A i \in 1 .. n : pairs[i].key # p.key
        BY <2>2, <3>2, <4>1
      <4>2. CASE p \in {pairs[i] : i \in 1 .. n}
        BY <2>2, <4>2
      <4> QED
        BY <4>1, <4>2
    <3>3. q \in Over(n + 1)
      BY <2>2
    <3> HIDE DEF Over
    <3> QED
      BY <3>1, <3>2, <3>3
  <2> HIDE DEF q, k, v, Over
  <2>6. Sorted(Flat(a[n + 1])) /\ Entries(a[n + 1]) = Bound(Entries(a[n]), k, v)
    BY <2>1, <2>3, PutBinds
  <2>7. a[n + 1] \in Tree
    BY <2>1, <2>3, PutUnfolds
  <2>8. Bound(Over(n), k, v) = Over(n + 1)
    BY <2>3, <2>5 DEF Bound
  <2> QED
    BY <2>1, <2>6, <2>7, <2>8
<1>6. Over(m) = Overlaid(Entries(t), pairs)
  BY <1>1 DEF Overlaid, Listed
<1> HIDE DEF S, Over
<1>7. Nat \subseteq S
  BY <1>4, <1>5, SetInduction
<1>8. a[m] \in Tree /\ Sorted(Flat(a[m])) /\ Entries(a[m]) = Over(m)
  BY <1>1, <1>7 DEF S
<1> QED
  BY <1>2, <1>6, <1>8

-----------------------------------------------------------------------------
(* The trees of map literals.                                              *)

\* what build_tree_expr makes of c pairs, after the i-th, from what it makes of fewer
BuildAt(f, c, i, pairs) ==
  IF c = 0 THEN Empty
  ELSE LET m == c \div 2
           root == pairs[i + m + 1]
       IN [key |-> root.key, val |-> root.val,
           left |-> f[m][i], right |-> f[c - m - 1][i + m + 1], size |-> c]

BuildStep(f, c, pairs) == [i \in 0 .. Len(pairs) - c |-> BuildAt(f, c, i, pairs)]

\* f[c] holds the trees of c pairs, up to n
Builds(n, f, pairs) == f = [c \in 0 .. n |-> BuildStep(f, c, pairs)]

LEMMA Halves ==
  ASSUME NEW c \in Nat, c # 0
  PROVE  /\ c \div 2 \in Nat /\ c - (c \div 2) - 1 \in Nat
         /\ c \div 2 <= c - 1 /\ c - (c \div 2) - 1 <= c - 1
         /\ Even(c \div 2, c - (c \div 2) - 1)
<1> DEFINE m == c \div 2
<1>1. m \in Nat /\ (c = 2 * m \/ c = 2 * m + 1)
  OBVIOUS
<1> HIDE DEF m
<1>2. /\ m \in Nat /\ c - m - 1 \in Nat /\ m <= c - 1 /\ c - m - 1 <= c - 1
      /\ Even(m, c - m - 1)
  BY <1>1 DEF Even
<1> QED
  BY <1>2 DEF m

LEMMA BuildsExists ==
  ASSUME NEW pairs PROVE \A n \in Nat : \E f : Builds(n, f, pairs)
<1> DEFINE S == {n \in Nat : \E f : Builds(n, f, pairs)}
           B(f, c) == BuildStep(f, c, pairs)
\* a step looks at smaller trees only
<1>1. ASSUME NEW n \in Nat, NEW f, NEW g, \A c \in 0 .. n : f[c] = g[c], NEW c \in 0 .. n + 1
      PROVE  B(f, c) = B(g, c)
  <2>1. CASE c = 0
    BY <2>1 DEF BuildStep, BuildAt
  <2>2. CASE c # 0
    <3> DEFINE m == c \div 2  r == c - m - 1
    <3>1. m \in 0 .. n /\ r \in 0 .. n
      BY <2>2, Halves
    <3>2. f[m] = g[m] /\ f[r] = g[r]
      BY <1>1, <3>1
    <3> HIDE DEF m, r
    <3> QED
      BY <3>2 DEF BuildStep, BuildAt, m, r
  <2> QED
    BY <2>1, <2>2
<1>2. 0 \in S
  <2> DEFINE h == [c \in 0 .. 0 |-> B(<<>>, 0)]
  <2>1. \A f, g : B(f, 0) = B(g, 0)
    BY DEF BuildStep, BuildAt
  <2>2. h = [c \in 0 .. 0 |-> B(h, c)]
    <3>1. \A c \in 0 .. 0 : B(<<>>, 0) = B(h, c)
      BY <2>1
    <3> HIDE DEF B
    <3> QED
      BY <3>1
  <2> HIDE DEF h
  <2>3. Builds(0, h, pairs)
    BY <2>2 DEF Builds
  <2> QED
    BY <2>3
<1>3. ASSUME NEW n \in Nat, n \in S PROVE n + 1 \in S
  <2>1. PICK f : Builds(n, f, pairs)
    BY <1>3
  <2>2. \A c \in 0 .. n : f[c] = B(f, c)
    BY <2>1 DEF Builds
  <2> HIDE DEF B
  <2> DEFINE g == [c \in 0 .. n + 1 |-> IF c = n + 1 THEN B(f, n + 1) ELSE f[c]]
  <2>3. \A c \in 0 .. n : f[c] = g[c]
    OBVIOUS
  <2>4. g[n + 1] = B(f, n + 1)
    OBVIOUS
  <2>5. g = [c \in 0 .. n + 1 |-> g[c]]
    OBVIOUS
  <2> HIDE DEF g
  <2>6. \A c \in 0 .. n + 1 : g[c] = B(g, c)
    <3> TAKE c \in 0 .. n + 1
    <3>1. B(f, c) = B(g, c)
      BY <1>1, <2>3
    <3>2. c = n + 1 \/ c \in 0 .. n
      OBVIOUS
    <3> QED
      BY <2>2, <2>3, <2>4, <3>1, <3>2
  <2>7. Builds(n + 1, g, pairs)
    <3>1. g = [c \in 0 .. n + 1 |-> B(g, c)]
      BY <2>5, <2>6, Zenon
    <3> QED
      BY <3>1 DEF Builds, B
  <2> QED
    BY <2>7
<1> HIDE DEF S
<1>4. Nat \subseteq S
  BY <1>2, <1>3, SetInduction
<1> QED
  BY <1>4 DEF S

LEMMA BuildTreeSteps ==
  ASSUME NEW pairs, Len(pairs) \in Nat
  PROVE  \E f : Builds(Len(pairs), f, pairs) /\ BuildTree(pairs) = f[Len(pairs)][0]
<1> DEFINE n == Len(pairs)
           body(f) == [c \in 0 .. n |-> BuildStep(f, c, pairs)]
           build == CHOOSE f : f = body(f)
<1>1. PICK f : Builds(n, f, pairs)
  BY BuildsExists
<1>2. f = body(f)
  BY <1>1 DEF Builds
<1>3. build = body(build)
  <2> HIDE DEF body
  <2> QED
    BY <1>2, Zenon
<1>4. BuildTree(pairs) = build[n][0]
  BY DEF BuildTree, BuildStep, BuildAt, SizeOf
<1> HIDE DEF build
<1>5. Builds(n, build, pairs)
  BY <1>3 DEF Builds
<1> QED
  BY <1>4, <1>5

\* The tree that the compiler lays out for n pairs has n nodes, counts them right, is
\* balanced, and lists the pairs as they were.
THEOREM BuildTreeLists ==
  ASSUME NEW pairs \in Seq(Entry)
  PROVE  LET t == BuildTree(pairs)
         IN t \in Tree /\ AllEven(t) /\ Flat(t) = pairs
<1> DEFINE n == Len(pairs)
<1>1. n \in Nat /\ \A i \in 1 .. n : /\ pairs[i].key \in Keys /\ pairs[i].val \in Values
                                    /\ pairs[i] = Pair(pairs[i].key, pairs[i].val)
  BY EntryKeys
<1>2. PICK f : Builds(n, f, pairs) /\ BuildTree(pairs) = f[n][0]
  BY <1>1, BuildTreeSteps
<1>3. \A c \in 0 .. n : \A i \in 0 .. n - c : f[c][i] = BuildAt(f, c, i, pairs)
  <2>1. \A c \in 0 .. n : f[c] = BuildStep(f, c, pairs)
    BY <1>2 DEF Builds
  <2> QED
    BY <2>1 DEF BuildStep
<1> DEFINE Good(c) == \A i \in 0 .. n - c :
             LET t == f[c][i] IN /\ t \in Tree /\ AllEven(t) /\ t.size = c
                                 /\ \A j \in 1 .. c : Flat(t)[j] = pairs[i + j]
           S == {c \in Nat : \A d \in 0 .. c : d <= n => Good(d)}
<1>4. Good(0)
  <2> SUFFICES ASSUME NEW i \in 0 .. n - 0
               PROVE  LET t == f[0][i] IN /\ t \in Tree /\ AllEven(t) /\ t.size = 0
                                          /\ \A j \in 1 .. 0 : Flat(t)[j] = pairs[i + j]
    OBVIOUS
  <2>1. f[0][i] = Empty
    <3>1. 0 \in 0 .. n
      BY <1>1
    <3> QED
      BY <1>3, <3>1 DEF BuildAt
  <2> QED
    BY <2>1, TreeParts, AllEvenOf
<1>5. ASSUME NEW c \in Nat, c # 0, c <= n, \A d \in 0 .. c - 1 : Good(d) PROVE Good(c)
  <2> SUFFICES ASSUME NEW i \in 0 .. n - c
               PROVE  LET t == f[c][i] IN /\ t \in Tree /\ AllEven(t) /\ t.size = c
                                          /\ \A j \in 1 .. c : Flat(t)[j] = pairs[i + j]
    OBVIOUS
  <2> DEFINE m == c \div 2  r == c - m - 1
             k == pairs[i + m + 1].key  v == pairs[i + m + 1].val
             x == f[m][i]  y == f[r][i + m + 1]
             t == f[c][i]
  <2>1. /\ m \in Nat /\ r \in Nat /\ m \in 0 .. c - 1 /\ r \in 0 .. c - 1
        /\ Even(m, r) /\ c = m + 1 + r
    BY <1>5, Halves
  <2>2. t = [key |-> k, val |-> v, left |-> x, right |-> y, size |-> c]
    <3>1. c \in 0 .. n
      BY <1>1, <1>5
    <3> QED
      BY <1>3, <1>5, <3>1 DEF BuildAt
  <2> HIDE DEF m, r
  <2>3. /\ i \in Nat /\ i + m + 1 \in 1 .. n /\ i \in 0 .. n - m
        /\ i + m + 1 \in 0 .. n - r
    BY <1>1, <1>5, <2>1
  <2>4. k \in Keys /\ v \in Values /\ pairs[i + m + 1] = Pair(k, v)
    BY <1>1, <2>3
  <2>5. Good(m) /\ Good(r)
    BY <1>5, <2>1
  <2> HIDE DEF k, v, t
  <2>6. /\ x \in Tree /\ AllEven(x) /\ x.size = m
        /\ \A j \in 1 .. m : Flat(x)[j] = pairs[i + j]
    BY <2>3, <2>5
  <2>7. /\ y \in Tree /\ AllEven(y) /\ y.size = r
        /\ \A j \in 1 .. r : Flat(y)[j] = pairs[i + m + 1 + j]
    BY <2>3, <2>5
  <2> HIDE DEF Good, x, y
  <2>8. t = Node(k, v, x, y)
    <3>1. c = 1 + x.size + y.size
      BY <2>1, <2>6, <2>7
    <3> QED
      BY <2>2, <3>1 DEF Node
  <2>9. /\ t \in Tree /\ t # Empty /\ AllEven(t)
        /\ t.key = k /\ t.val = v /\ t.left = x /\ t.right = y /\ t.size = c
    <3> DEFINE u == Node(k, v, x, y)
    <3>1. u \in Tree /\ u # Empty /\ AllEven(u)
      BY <2>1, <2>4, <2>6, <2>7, AllEvenNode, TreeParts
    <3>2. u.key = k /\ u.val = v /\ u.left = x /\ u.right = y /\ u.size = 1 + x.size + y.size
      BY NodeFields
    <3>3. c = 1 + x.size + y.size
      BY <2>1, <2>6, <2>7
    <3> HIDE DEF u
    <3>4. t = u
      BY <2>8 DEF u
    <3> QED
      BY <3>1, <3>2, <3>3, <3>4
  <2> DEFINE a == Flat(x)  b == Flat(y)  p == Pair(k, v)  s == Flat(t)
  <2>10. IsAround(s, Entry, a, p, b)
    <3>1. a \in Seq(Entry) /\ b \in Seq(Entry) /\ p \in Entry
      BY <2>4, <2>6, <2>7, FlatUnfolds, PairIsEntry
    <3>2. s = Around(a, p, b)
      BY <2>9, FlatUnfolds
    <3> HIDE DEF a, b, p, s
    <3> QED
      BY <3>1, <3>2, AroundIsSequence
  <2>11. Len(a) = m /\ Len(b) = r
    BY <2>6, <2>7, FlatLength
  <2>12. \A j \in 1 .. c : s[j] = pairs[i + j]
    <3> HIDE DEF a, b, p, s
    <3>1. /\ \A j \in 1 .. m : s[j] = a[j]
          /\ s[m + 1] = p
          /\ \A j \in 1 .. r : s[m + 1 + j] = b[j]
      BY <2>10, <2>11 DEF IsAround
    <3>2. TAKE j \in 1 .. c
    <3>3. CASE j \in 1 .. m
      BY <2>6, <3>1, <3>3 DEF a
    <3>4. CASE j = m + 1
      <4>1. i + j = i + m + 1
        BY <2>1, <2>3, <3>4
      <4> QED
        BY <2>4, <3>1, <3>4, <4>1 DEF p
    <3>5. CASE j > m + 1
      <4> DEFINE h == j - (m + 1)
      <4>1. h \in 1 .. r /\ m + 1 + h = j /\ i + j = i + m + 1 + h
        BY <2>1, <2>3, <3>5
      <4> HIDE DEF h
      <4>2. s[j] = b[h]
        BY <3>1, <4>1
      <4>3. b[h] = pairs[i + m + 1 + h]
        BY <2>7, <4>1 DEF b
      <4> QED
        BY <4>1, <4>2, <4>3
    <3> QED
      BY <2>1, <3>3, <3>4, <3>5
  <2> QED
    BY <2>9, <2>12 DEF t
<1>6. 0 \in S
  BY <1>4
<1>7. ASSUME NEW c \in Nat, c \in S PROVE c + 1 \in S
  <2>1. \A d \in 0 .. c : d <= n => Good(d)
    BY <1>7
  <2> HIDE DEF Good
  <2>2. c + 1 <= n => Good(c + 1)
    <3> SUFFICES ASSUME c + 1 <= n PROVE Good(c + 1)
      OBVIOUS
    <3>1. c + 1 \in Nat /\ c + 1 # 0 /\ (c + 1) - 1 = c
      OBVIOUS
    <3>2. \A d \in 0 .. c : Good(d)
      BY <1>1, <2>1
    <3> QED
      BY <1>5, <3>1, <3>2
  <2>3. \A d \in 0 .. c + 1 : d <= n => Good(d)
    <3> TAKE d \in 0 .. c + 1
    <3>1. d = c + 1 \/ d \in 0 .. c
      OBVIOUS
    <3> QED
      BY <2>1, <2>2, <3>1
  <2> QED
    BY <2>3
<1> HIDE DEF S, Good
<1>8. Nat \subseteq S
  BY <1>6, <1>7, SetInduction
<1>9. Good(n)
  BY <1>1, <1>8 DEF S
<1> DEFINE t == f[n][0]
<1>10. /\ t \in Tree /\ AllEven(t) /\ t.size = n
       /\ \A j \in 1 .. n : Flat(t)[j] = pairs[0 + j]
  <2>1. 0 \in 0 .. n - n
    BY <1>1
  <2> QED
    BY <1>9, <2>1 DEF Good
<1> HIDE DEF t
<1> DEFINE s == Flat(t)
<1>11. s \in Seq(Entry) /\ Len(s) = n
  BY <1>10, FlatUnfolds, FlatLength
<1>12. \A j \in 1 .. n : s[j] = pairs[j]
  <2>1. \A j \in 1 .. n : 0 + j = j
    OBVIOUS
  <2> QED
    BY <1>10, <2>1
<1>13. s = pairs
  <2> HIDE DEF s
  <2> QED
    BY <1>11, <1>12, SeqEqual
<1> QED
  BY <1>2, <1>10, <1>13 DEF t

-----------------------------------------------------------------------------
(* The pairs of a literal, in the order of the compiler.                   *)

LEMMA CompilerOrderFacts ==
  /\ \A x, y \in Keys : CompilerOrder(x, y) = -1 \/ CompilerOrder(x, y) = 0 \/ CompilerOrder(x, y) = 1
  /\ \A x, y \in Keys : CompilerOrder(x, y) = 1 <=> CompilerOrder(y, x) = -1
  /\ \A x, y \in Keys : CompilerOrder(x, y) = 0 <=> x = y
  /\ \A x, y, z \in Keys : CompilerOrder(x, y) = -1 /\ CompilerOrder(y, z) = -1 => CompilerOrder(x, z) = -1
<1>1. ASSUME NEW x \in Keys, NEW y \in Keys
      PROVE  /\ CompilerOrder(x, y) \in {-1, 0, 1} /\ CompilerOrder(y, x) \in {-1, 0, 1}
             /\ CompilerOrder(x, y) = 0 <=> x = y
             /\ CompilerOrder(x, y) = -CompilerOrder(y, x)
  BY OrderAssumption DEF OrderAssumption, IsTotalOrder
<1>2. ASSUME NEW x \in Keys, NEW y \in Keys
      PROVE  CompilerOrder(x, y) = 1 <=> CompilerOrder(y, x) = -1
  BY <1>1
<1> QED
  BY <1>1, <1>2, OrderAssumption DEF OrderAssumption, IsTotalOrder

\* the keys of d before k, and how many they are
Before(d, k) == {x \in DOMAIN d : CompilerOrder(x, k) < 0}
Rank(d, k) == Cardinality(Before(d, k))

\* Counting the keys before it numbers the keys of a literal from 0, in their order.
LEMMA Ranks ==
  ASSUME NEW d \in Literals
  PROVE  /\ Cardinality(DOMAIN d) \in Nat
         /\ \A k \in DOMAIN d : Rank(d, k) \in 0 .. Cardinality(DOMAIN d) - 1
         /\ \A x, y \in DOMAIN d : CompilerOrder(x, y) = -1 => Rank(d, x) < Rank(d, y)
         /\ \A x, y \in DOMAIN d : Rank(d, x) = Rank(d, y) => x = y
         /\ \A i \in 0 .. Cardinality(DOMAIN d) - 1 : \E k \in DOMAIN d : Rank(d, k) = i
<1> DEFINE K == DOMAIN d  n == Cardinality(K)
<1>1. K \subseteq Keys /\ IsFiniteSet(K)
  BY ProgramAssumption DEF ProgramAssumption
<1>2. n \in Nat
  BY <1>1, FS_CardinalityType
<1>3. ASSUME NEW k \in K
      PROVE  /\ Before(d, k) \subseteq K /\ k \notin Before(d, k)
             /\ IsFiniteSet(Before(d, k)) /\ Rank(d, k) \in Nat /\ Rank(d, k) < n
  <2>1. Before(d, k) \subseteq K
    BY DEF Before
  <2>2. k \notin Before(d, k)
    <3>1. CompilerOrder(k, k) = 0
      BY <1>1, CompilerOrderFacts
    <3> QED
      BY <3>1 DEF Before
  <2> HIDE DEF K, n
  <2>3. IsFiniteSet(Before(d, k)) /\ Rank(d, k) <= n /\ Rank(d, k) # n
    <3> DEFINE B == Before(d, k)
    <3>1. B \in SUBSET K /\ B # K
      BY <1>3, <2>1, <2>2
    <3> HIDE DEF B
    <3>2. IsFiniteSet(B) /\ Cardinality(B) <= Cardinality(K) /\ (Cardinality(K) = Cardinality(B) => K = B)
      BY <1>1, <3>1, FS_Subset
    <3> QED
      BY <3>1, <3>2 DEF B, Rank, n
  <2>4. Rank(d, k) \in Nat
    BY <2>3, FS_CardinalityType DEF Rank
  <2> QED
    BY <1>2, <2>1, <2>2, <2>3, <2>4
<1>4. ASSUME NEW x \in K, NEW y \in K, CompilerOrder(x, y) = -1
      PROVE  Rank(d, x) < Rank(d, y)
  <2> DEFINE A == Before(d, x)  B == Before(d, y)
  <2>1. A \subseteq B
    <3> SUFFICES ASSUME NEW z \in A PROVE z \in B
      OBVIOUS
    <3>1. z \in K /\ CompilerOrder(z, x) < 0
      BY DEF Before
    <3>2. CompilerOrder(z, x) = -1
      BY <1>1, <3>1, CompilerOrderFacts
    <3>3. CompilerOrder(z, y) = -1
      BY <1>1, <1>4, <3>1, <3>2, CompilerOrderFacts
    <3> QED
      BY <3>1, <3>3 DEF Before
  <2>2. x \in B /\ x \notin A
    <3>1. x \in B
      <4>1. CompilerOrder(x, y) < 0
        BY <1>4
      <4> QED
        BY <4>1 DEF Before
    <3>2. x \notin A
      BY <1>3
    <3> QED
      BY <3>1, <3>2
  <2>3. IsFiniteSet(B) /\ Rank(d, x) \in Nat /\ Rank(d, y) \in Nat
    BY <1>3
  <2>4. Rank(d, x) = Cardinality(A) /\ Rank(d, y) = Cardinality(B)
    BY DEF Rank
  <2> HIDE DEF A, B
  <2>5. Cardinality(A) <= Cardinality(B) /\ (Cardinality(B) = Cardinality(A) => B = A)
    BY <2>1, <2>3, FS_Subset
  <2> QED
    BY <2>2, <2>3, <2>4, <2>5
<1>5. ASSUME NEW x \in K, NEW y \in K, Rank(d, x) = Rank(d, y) PROVE x = y
  <2>1. CompilerOrder(x, y) = -1 \/ x = y \/ CompilerOrder(y, x) = -1
    BY <1>1, CompilerOrderFacts
  <2>2. Rank(d, x) \in Nat /\ Rank(d, y) \in Nat
    BY <1>3
  <2>3. (CompilerOrder(x, y) = -1 => Rank(d, x) < Rank(d, y)) /\ (CompilerOrder(y, x) = -1 => Rank(d, y) < Rank(d, x))
    BY <1>4
  <2> QED
    BY <1>5, <2>1, <2>2, <2>3
<1>6. ASSUME NEW i \in 0 .. n - 1 PROVE \E k \in K : Rank(d, k) = i
  <2> DEFINE T == 0 .. n - 1  r == [k \in K |-> Rank(d, k)]
  <2>1. IsFiniteSet(T) /\ Cardinality(T) = n
    <3>1. IsFiniteSet(0 .. n - 1) /\ Cardinality(0 .. n - 1) = IF 0 > n - 1 THEN 0 ELSE (n - 1) - 0 + 1
      <4>1. 0 \in Int /\ n - 1 \in Int
        BY <1>2
      <4> HIDE DEF n
      <4> QED
        BY <4>1, FS_Interval
    <3> HIDE DEF n
    <3> QED
      BY <1>2, <3>1
  <2>2. r \in [K -> T]
    <3>1. \A k \in K : Rank(d, k) \in T
      BY <1>2, <1>3
    <3> QED
      BY <3>1
  <2>3. r \in Injection(K, T)
    <3>1. \A x, y \in K : r[x] = r[y] => x = y
      BY <1>5
    <3> QED
      BY <2>2, <3>1 DEF Injection, IsInjective
  <2> HIDE DEF T
  <2>4. \A k \in K : r[k] = Rank(d, k)
    OBVIOUS
  <2>5. i \in T
    BY DEF T
  <2> HIDE DEF r, K, n
  <2>6. r \in Surjection(K, T)
    BY <2>1, <2>3, FS_Injection DEF n
  <2>7. \E k \in K : r[k] = i
    BY <2>5, <2>6 DEF Surjection
  <2> QED
    BY <2>4, <2>7
<1>7. \A k \in K : Rank(d, k) \in 0 .. n - 1
  BY <1>2, <1>3
<1> HIDE DEF n
<1> QED
  BY <1>2, <1>4, <1>5, <1>6, <1>7 DEF n

\* The pairs of a literal come each once, in the order of the compiler.
LEMMA SortedPairsList ==
  ASSUME NEW d \in Literals
  PROVE  /\ SortedPairs(d) \in Seq(Entry)
         /\ Listed(SortedPairs(d)) = {Pair(k, d[k]) : k \in DOMAIN d}
         /\ \A i, j \in DOMAIN SortedPairs(d) : i < j =>
              CompilerOrder(SortedPairs(d)[i].key, SortedPairs(d)[j].key) = -1
<1> DEFINE K == DOMAIN d  n == Cardinality(K)
           at(i) == CHOOSE k \in DOMAIN d : Rank(d, k) = i - 1
           s == SortedPairs(d)
<1>1. K \subseteq Keys /\ \A k \in K : d[k] \in Values
  BY ProgramAssumption DEF ProgramAssumption
<1>2. n \in Nat
  BY Ranks
<1>3. s = [i \in 1 .. n |-> Pair(at(i), d[at(i)])]
  BY DEF SortedPairs, Rank, Before
<1>4. ASSUME NEW i \in 1 .. n PROVE at(i) \in K /\ Rank(d, at(i)) = i - 1
  <2>1. i - 1 \in 0 .. n - 1
    BY <1>2
  <2>2. \E k \in K : Rank(d, k) = i - 1
    BY <2>1, Ranks
  <2> QED
    BY <2>2
<1> HIDE DEF at, s
<1>5. \A i \in 1 .. n : s[i] = Pair(at(i), d[at(i)])
  BY <1>3
<1>6. \A i \in 1 .. n : s[i] \in Entry /\ s[i].key = at(i)
  BY <1>1, <1>4, <1>5, PairIsEntry, PairKey
<1>7. DOMAIN s = 1 .. n
  BY <1>3
<1>8. s \in Seq(Entry)
  <2>1. s \in [1 .. n -> Entry]
    BY <1>3, <1>6, <1>7
  <2> QED
    BY <1>2, <2>1
<1>9. Listed(s) = {Pair(k, d[k]) : k \in K}
  <2>1. ASSUME NEW k \in K PROVE Pair(k, d[k]) \in Listed(s)
    <3> DEFINE i == Rank(d, k) + 1
    <3>1. i \in 1 .. n /\ i - 1 = Rank(d, k)
      <4>1. Rank(d, k) \in 0 .. n - 1
        BY Ranks
      <4> HIDE DEF n
      <4> QED
        BY <1>2, <4>1
    <3> HIDE DEF i
    <3>2. at(i) = k
      BY <1>4, <3>1, Ranks
    <3> QED
      BY <1>5, <1>7, <3>1, <3>2 DEF Listed
  <2> QED
    BY <1>4, <1>5, <1>7, <2>1 DEF Listed
<1>10. ASSUME NEW i \in 1 .. n, NEW j \in 1 .. n, i < j
       PROVE  CompilerOrder(s[i].key, s[j].key) = -1
  <2> DEFINE x == at(i)  y == at(j)
  <2>1. x \in K /\ y \in K /\ Rank(d, x) = i - 1 /\ Rank(d, y) = j - 1
    BY <1>4
  <2>2. s[i].key = x /\ s[j].key = y
    BY <1>6
  <2> HIDE DEF x, y
  <2>3. ~(Rank(d, y) < Rank(d, x)) /\ Rank(d, x) # Rank(d, y)
    BY <1>10, <2>1
  <2>4. CompilerOrder(y, x) # -1 /\ x # y
    BY <2>1, <2>3, Ranks
  <2>5. CompilerOrder(x, y) = -1
    BY <1>1, <2>1, <2>4, CompilerOrderFacts
  <2> QED
    BY <2>2, <2>5
<1> HIDE DEF K
<1> QED
  BY <1>7, <1>8, <1>9, <1>10 DEF s, K

-----------------------------------------------------------------------------
(* The lists that maps:remove and maps:from_keys put.                       *)

LEMMA LeastNumber ==
  ASSUME NEW S, S \subseteq Nat, S # {}
  PROVE  \E i \in S : \A j \in S : i <= j
<1> SUFFICES ASSUME \A i \in S : \E j \in S : j < i PROVE FALSE
  <2>1. \A i, j \in S : ~(i <= j) => j < i
    OBVIOUS
  <2> QED
    BY <2>1
<1> DEFINE T == {n \in Nat : \A i \in S : ~(i < n)}
<1>1. 0 \in T
  OBVIOUS
<1>2. ASSUME NEW n \in Nat, n \in T PROVE n + 1 \in T
  <2> SUFFICES ASSUME NEW i \in S, i < n + 1 PROVE FALSE
    OBVIOUS
  <2>1. ~(i < n)
    BY <1>2
  <2>2. i = n
    BY <2>1
  <2>3. PICK j \in S : j < i
    OBVIOUS
  <2> QED
    BY <1>2, <2>2, <2>3
<1> HIDE DEF T
<1>3. Nat \subseteq T
  BY <1>1, <1>2, SetInduction
<1>4. PICK i \in S : TRUE
  OBVIOUS
<1>5. i + 1 \in T /\ i < i + 1
  BY <1>3
<1> QED
  BY <1>5 DEF T

LEMMA RemoveAtIs ==
  ASSUME NEW s \in Seq(Entry), NEW i \in 1 .. Len(s)
  PROVE  /\ RemoveAt(s, i) \in Seq(Entry) /\ Len(RemoveAt(s, i)) = Len(s) - 1
         /\ \A j \in 1 .. Len(s) - 1 : RemoveAt(s, i)[j] = IF j < i THEN s[j] ELSE s[j + 1]
<1> DEFINE n == Len(s)  a == SubSeq(s, 1, i - 1)  b == SubSeq(s, i + 1, n)
<1>1. n \in Nat /\ i \in 1 .. n /\ \A j \in 1 .. n : s[j] \in Entry
  BY EntryKeys
<1>2. RemoveAt(s, i) = a \o b
  BY DEF RemoveAt
<1>3. /\ a \in Seq(Entry) /\ Len(a) = i - 1
      /\ \A j \in 1 .. i - 1 : a[j] = s[j]
  <2>1. /\ a \in Seq(Entry) /\ Len(a) = IF 1 <= i - 1 THEN (i - 1) - 1 + 1 ELSE 0
        /\ \A j \in 1 .. (i - 1) - 1 + 1 : a[j] = s[1 + j - 1]
    <3>1. 1 \in Int /\ i - 1 \in Int /\ \A j \in 1 .. i - 1 : s[j] \in Entry
      BY <1>1
    <3> QED
      BY <3>1, SubSeqProperties
  <2> HIDE DEF a
  <2>2. (i - 1) - 1 + 1 = i - 1 /\ \A j \in 1 .. i - 1 : 1 + j - 1 = j
    OBVIOUS
  <2> QED
    BY <2>1, <2>2
<1>4. /\ b \in Seq(Entry) /\ Len(b) = n - i
      /\ \A j \in 1 .. n - i : b[j] = s[i + j]
  <2>1. /\ b \in Seq(Entry) /\ Len(b) = IF i + 1 <= n THEN n - (i + 1) + 1 ELSE 0
        /\ \A j \in 1 .. n - (i + 1) + 1 : b[j] = s[(i + 1) + j - 1]
    <3>1. i + 1 \in Int /\ n \in Int /\ \A j \in i + 1 .. n : s[j] \in Entry
      BY <1>1
    <3> HIDE DEF n
    <3> QED
      BY <3>1, SubSeqProperties
  <2> HIDE DEF b, n
  <2>2. n - (i + 1) + 1 = n - i /\ \A j \in 1 .. n - i : (i + 1) + j - 1 = i + j
    BY <1>1
  <2> QED
    BY <1>1, <2>1, <2>2
<1> HIDE DEF a, b
<1>5. /\ a \o b \in Seq(Entry) /\ Len(a \o b) = Len(a) + Len(b)
      /\ \A j \in 1 .. Len(a) + Len(b) : (a \o b)[j] = IF j <= Len(a) THEN a[j] ELSE b[j - Len(a)]
  BY <1>3, <1>4, ConcatProperties
<1> DEFINE r == RemoveAt(s, i)
<1>6. /\ r \in Seq(Entry) /\ Len(r) = Len(a) + Len(b)
      /\ \A j \in 1 .. Len(a) + Len(b) : r[j] = IF j <= Len(a) THEN a[j] ELSE b[j - Len(a)]
  BY <1>2, <1>5
<1> HIDE DEF r, n
<1>7. Len(r) = n - 1
  BY <1>1, <1>3, <1>4, <1>6
<1>8. ASSUME NEW j \in 1 .. n - 1 PROVE r[j] = IF j < i THEN s[j] ELSE s[j + 1]
  <2>1. r[j] = IF j <= i - 1 THEN a[j] ELSE b[j - (i - 1)]
    BY <1>1, <1>3, <1>4, <1>6
  <2>2. CASE j < i
    <3>1. j <= i - 1 /\ j \in 1 .. i - 1
      BY <1>1, <2>2
    <3> QED
      BY <1>3, <2>1, <2>2, <3>1
  <2>3. CASE ~(j < i)
    <3>1. ~(j <= i - 1) /\ j - (i - 1) \in 1 .. n - i /\ i + (j - (i - 1)) = j + 1
      BY <1>1, <2>3
    <3>2. b[j - (i - 1)] = s[j + 1]
      <4> DEFINE x == j - (i - 1)
      <4> HIDE DEF x
      <4>1. x \in 1 .. n - i /\ i + x = j + 1
        BY <3>1 DEF x
      <4>2. b[x] = s[j + 1]
        BY <1>4, <4>1
      <4> QED
        BY <4>2 DEF x
    <3> QED
      BY <2>1, <2>3, <3>1, <3>2
  <2> QED
    BY <2>2, <2>3
<1> QED
  BY <1>6, <1>7, <1>8 DEF r, n

\* cutting one pair out of a list in order takes its key away and no other
LEMMA RemoveAtDrops ==
  ASSUME NEW s \in Seq(Entry), Sorted(s), NEW i \in 1 .. Len(s)
  PROVE  /\ Sorted(RemoveAt(s, i))
         /\ Listed(RemoveAt(s, i)) = {p \in Listed(s) : p.key # s[i].key}
<1> DEFINE n == Len(s)  r == RemoveAt(s, i)
<1>1. /\ n \in Nat /\ DOMAIN s = 1 .. n
      /\ DOMAIN r = 1 .. n - 1
  BY RemoveAtIs
<1>2. \A j \in 1 .. n - 1 : r[j] = IF j < i THEN s[j] ELSE s[j + 1]
  BY RemoveAtIs
<1>3. \A x, y \in 1 .. n : x < y => TermOrder(s[x].key, s[y].key) = -1 /\ TermOrder(s[y].key, s[x].key) = 1
  BY <1>1 DEF Sorted
<1>4. \A x, y \in 1 .. n : s[x].key = s[y].key => x = y
  BY <1>1, SortedOnce
<1>5. i \in 1 .. n
  OBVIOUS
<1> HIDE DEF n, r
<1> DEFINE up(j) == IF j < i THEN j ELSE j + 1
<1>6. \A j \in 1 .. n - 1 : up(j) \in 1 .. n /\ up(j) # i /\ r[j] = s[up(j)]
  BY <1>1, <1>2, <1>5
<1>7. \A x, y \in 1 .. n - 1 : x < y => up(x) < up(y)
  BY <1>1, <1>5
<1>8. \A x \in 1 .. n : x # i => \E j \in 1 .. n - 1 : up(j) = x
  <2> SUFFICES ASSUME NEW x \in 1 .. n, x # i PROVE \E j \in 1 .. n - 1 : up(j) = x
    OBVIOUS
  <2>1. CASE x < i
    <3>1. x \in 1 .. n - 1 /\ up(x) = x
      BY <1>1, <1>5, <2>1
    <3> QED
      BY <3>1
  <2>2. CASE ~(x < i)
    <3>1. x - 1 \in 1 .. n - 1 /\ up(x - 1) = x
      BY <1>1, <1>5, <2>2
    <3> QED
      BY <3>1
  <2> QED
    BY <2>1, <2>2
<1> HIDE DEF up
<1>9. Sorted(r)
  BY <1>1, <1>3, <1>6, <1>7 DEF Sorted
<1>10. Listed(r) = {p \in Listed(s) : p.key # s[i].key}
  <2>1. ASSUME NEW p \in Listed(r) PROVE p \in Listed(s) /\ p.key # s[i].key
    BY <1>1, <1>4, <1>5, <1>6 DEF Listed
  <2>2. ASSUME NEW p \in Listed(s), p.key # s[i].key PROVE p \in Listed(r)
    <3>1. PICK x \in 1 .. n : p = s[x]
      BY <1>1 DEF Listed
    <3>2. PICK j \in 1 .. n - 1 : up(j) = x
      BY <1>8, <2>2, <3>1
    <3> QED
      BY <1>1, <1>6, <3>1, <3>2 DEF Listed
  <2> QED
    BY <2>1, <2>2
<1> QED
  BY <1>9, <1>10 DEF r

LEMMA SortedFunctional ==
  ASSUME NEW s \in Seq(Entry), Sorted(s)
  PROVE  Functional(s)
BY SortedOnce DEF Functional

\* the first place where the list of a tree has the key
FirstAt(pairs, k) ==
  CHOOSE i \in DOMAIN pairs : /\ TermOrder(pairs[i].key, k) = 0
                              /\ \A j \in 1 .. i - 1 : TermOrder(pairs[j].key, k) # 0

LEMMA FirstAtIs ==
  ASSUME NEW t \in Tree, NEW k \in Keys, Has(t, k)
  PROVE  FirstAt(Flat(t), k) \in 1 .. Len(Flat(t)) /\ Flat(t)[FirstAt(Flat(t), k)].key = k
<1> DEFINE s == Flat(t)  n == Len(s)
<1>1. s \in Seq(Entry)
  BY FlatUnfolds
<1>2. Pair(k, Find(t, k).val) \in Listed(s)
  BY FindFinds DEF Entries
<1> HIDE DEF s
<1>3. n \in Nat /\ DOMAIN s = 1 .. n /\ \A j \in 1 .. n : s[j].key \in Keys
  BY <1>1, EntryKeys
<1> DEFINE S == {j \in 1 .. n : TermOrder(s[j].key, k) = 0}
<1>4. S # {}
  <2>1. PICK j \in 1 .. n : s[j] = Pair(k, Find(t, k).val)
    BY <1>2, <1>3 DEF Listed
  <2>2. TermOrder(s[j].key, k) = 0
    BY <2>1, PairKey, OrderFacts
  <2> QED
    BY <2>2
<1>5. S \subseteq Nat
  BY <1>3
<1>6. PICK i \in S : \A j \in S : i <= j
  <2> HIDE DEF S
  <2> QED
    BY <1>4, <1>5, LeastNumber
<1> DEFINE First(x) == TermOrder(s[x].key, k) = 0 /\ \A j \in 1 .. x - 1 : TermOrder(s[j].key, k) # 0
<1>7. i \in DOMAIN s /\ First(i)
  <2>1. \A j \in 1 .. i - 1 : j \in 1 .. n /\ ~(i <= j)
    BY <1>3
  <2> QED
    BY <1>3, <1>6, <2>1
<1>8. FirstAt(s, k) \in DOMAIN s /\ First(FirstAt(s, k))
  BY <1>7, Zenon DEF FirstAt
<1>9. s[FirstAt(s, k)].key = k
  BY <1>3, <1>8, OrderFacts
<1> QED
  BY <1>3, <1>8, <1>9 DEF s

\* the list of maps:from_keys
LEMMA SameValue ==
  ASSUME NEW ks \in Seq(Keys), NEW v \in Values
  PROVE  LET s == [i \in DOMAIN ks |-> Pair(ks[i], v)]
         IN /\ s \in Seq(Entry) /\ Functional(s)
            /\ Listed(s) = {Pair(k, v) : k \in {ks[i] : i \in DOMAIN ks}}
<1> DEFINE n == Len(ks)  s == [i \in DOMAIN ks |-> Pair(ks[i], v)]
<1>1. n \in Nat /\ DOMAIN ks = 1 .. n /\ \A i \in 1 .. n : ks[i] \in Keys
  OBVIOUS
<1>2. DOMAIN s = 1 .. n /\ \A i \in 1 .. n : s[i] = Pair(ks[i], v) /\ s[i] \in Entry
  BY <1>1, PairIsEntry
<1>3. s \in Seq(Entry)
  <2>1. s \in [1 .. n -> Entry]
    BY <1>1, <1>2
  <2> HIDE DEF s
  <2> QED
    BY <1>1, <2>1
<1> HIDE DEF s, n
<1>4. Functional(s)
  BY <1>2, PairKey DEF Functional
<1>5. Listed(s) = {Pair(k, v) : k \in {ks[i] : i \in DOMAIN ks}}
  BY <1>1, <1>2 DEF Listed
<1> QED
  BY <1>3, <1>4, <1>5 DEF s

-----------------------------------------------------------------------------
(* What each operation makes of the tree.                                  *)

\* the order of the compiler is that of the runtime on the keys of each literal
LiteralsAgree ==
  \A d \in Literals : \A x, y \in DOMAIN d : CompilerOrder(x, y) = TermOrder(x, y)

\* the pairs of a dictionary
Graph(f) == {Pair(k, f[k]) : k \in DOMAIN f}

\* a literal is a balanced tree of its pairs, in order if the two orders agree on its keys
LEMMA LiteralIs ==
  ASSUME NEW d \in Literals
  PROVE  /\ LiteralTree(d) \in Tree /\ AllEven(LiteralTree(d))
         /\ Flat(LiteralTree(d)) \in Seq(Entry)
         /\ Entries(LiteralTree(d)) = Graph(d)
         /\ LiteralsAgree => Sorted(Flat(LiteralTree(d)))
<1> DEFINE s == SortedPairs(d)  t == LiteralTree(d)
<1>1. /\ s \in Seq(Entry) /\ Listed(s) = Graph(d)
      /\ \A i, j \in DOMAIN s : i < j => CompilerOrder(s[i].key, s[j].key) = -1
  BY SortedPairsList DEF Graph
<1>2. t = BuildTree(s)
  BY DEF LiteralTree
<1> HIDE DEF s, t
<1>3. t \in Tree /\ AllEven(t) /\ Flat(t) = s
  BY <1>1, <1>2, BuildTreeLists
<1>4. ASSUME LiteralsAgree PROVE Sorted(s)
  <2>1. \A i \in DOMAIN s : s[i].key \in Keys /\ s[i].key \in DOMAIN d
    <3>1. DOMAIN s = 1 .. Len(s)
      BY <1>1
    <3>2. \A i \in DOMAIN s : s[i] \in Graph(d)
      BY <1>1 DEF Listed
    <3> QED
      BY <1>1, <3>1, <3>2, EntryKeys, PairKey DEF Graph
  <2>2. \A x, y \in DOMAIN d : CompilerOrder(x, y) = TermOrder(x, y)
    BY <1>4 DEF LiteralsAgree
  <2>3. \A i, j \in DOMAIN s : i < j => TermOrder(s[i].key, s[j].key) = -1
    BY <1>1, <2>1, <2>2
  <2> QED
    BY <2>1, <2>3, OrderFacts DEF Sorted
<1> QED
  BY <1>1, <1>3, <1>4 DEF t, Entries

\* maps:remove rebuilds the tree from the pairs of the other keys
LEMMA RemoveIs ==
  ASSUME NEW t \in Tree, NEW k \in Keys, Has(t, k)
  PROVE  LET u == PutAll(Empty, RemoveAt(Flat(t), FirstAt(Flat(t), k)))
         IN /\ u \in Tree /\ AllEven(u)
            /\ Sorted(Flat(t)) => /\ Sorted(Flat(u))
                                  /\ Entries(u) = {p \in Entries(t) : p.key # k}
<1> DEFINE s == Flat(t)  i == FirstAt(s, k)  r == RemoveAt(s, i)  u == PutAll(Empty, r)
<1>1. s \in Seq(Entry) /\ i \in 1 .. Len(s) /\ s[i].key = k
  BY FlatUnfolds, FirstAtIs
<1>2. Entries(t) = Listed(s)
  BY DEF Entries
<1> HIDE DEF s, i
<1>3. r \in Seq(Entry)
  BY <1>1, RemoveAtIs
<1>4. Sorted(s) => Sorted(r) /\ Listed(r) = {p \in Listed(s) : p.key # k}
  BY <1>1, RemoveAtDrops
<1> HIDE DEF r
<1>5. Empty \in Tree /\ AllEven(Empty) /\ Sorted(Flat(Empty)) /\ Entries(Empty) = {}
  BY TreeParts, AllEvenOf, EntriesOf
<1>6. u \in Tree /\ AllEven(u)
  BY <1>3, <1>5, PutAllBalances
<1>7. Sorted(r) => Sorted(Flat(u)) /\ Entries(u) = Listed(r)
  <2> SUFFICES ASSUME Sorted(r) PROVE Sorted(Flat(u)) /\ Entries(u) = Listed(r)
    OBVIOUS
  <2>1. Functional(r)
    BY <1>3, SortedFunctional
  <2>2. Sorted(Flat(u)) /\ Entries(u) = Overlaid(Entries(Empty), r)
    BY <1>3, <1>5, <2>1, PutAllBinds
  <2> QED
    BY <1>5, <2>2 DEF Overlaid
<1> HIDE DEF u
<1> QED
  BY <1>2, <1>4, <1>6, <1>7 DEF u, r, s, i

\* maps:merge puts the pairs of the second map over the first
LEMMA MergeIs ==
  ASSUME NEW t \in Tree, AllEven(t), NEW d \in Literals
  PROVE  LET u == PutAll(t, Flat(LiteralTree(d)))
         IN /\ u \in Tree /\ AllEven(u)
            /\ LiteralsAgree /\ Sorted(Flat(t)) =>
                 /\ Sorted(Flat(u))
                 /\ Entries(u) = {p \in Entries(t) : p.key \notin DOMAIN d} \cup Graph(d)
<1> DEFINE s == Flat(LiteralTree(d))  u == PutAll(t, s)
<1>1. s \in Seq(Entry) /\ Listed(s) = Graph(d) /\ (LiteralsAgree => Sorted(s))
  BY LiteralIs DEF Entries
<1> HIDE DEF s
<1>2. u \in Tree /\ AllEven(u)
  BY <1>1, PutAllBalances
<1>3. ASSUME LiteralsAgree, Sorted(Flat(t))
      PROVE  /\ Sorted(Flat(u))
             /\ Entries(u) = {p \in Entries(t) : p.key \notin DOMAIN d} \cup Graph(d)
  <2>1. Functional(s)
    BY <1>1, <1>3, SortedFunctional
  <2>2. Sorted(Flat(u)) /\ Entries(u) = Overlaid(Entries(t), s)
    BY <1>1, <1>3, <2>1, PutAllBinds
  <2>3. \A p : (\A i \in DOMAIN s : s[i].key # p.key) <=> p.key \notin DOMAIN d
    <3>1. \A p : (\A q \in Listed(s) : q.key # p.key) <=> (\A i \in DOMAIN s : s[i].key # p.key)
      BY DEF Listed
    <3>2. \A p : (\A q \in Graph(d) : q.key # p.key) <=> p.key \notin DOMAIN d
      BY PairKey DEF Graph
    <3> QED
      BY <1>1, <3>1, <3>2
  <2> QED
    BY <1>1, <2>2, <2>3 DEF Overlaid
<1> QED
  BY <1>2, <1>3 DEF s

\* maps:from_keys is a tree of its keys
LEMMA FromKeysIs ==
  ASSUME NEW ks \in KeyLists, NEW v \in Values
  PROVE  LET u == PutAll(Empty, [i \in DOMAIN ks |-> Pair(ks[i], v)])
         IN /\ u \in Tree /\ AllEven(u) /\ Sorted(Flat(u))
            /\ Entries(u) = {Pair(k, v) : k \in {ks[i] : i \in DOMAIN ks}}
<1> DEFINE s == [i \in DOMAIN ks |-> Pair(ks[i], v)]  u == PutAll(Empty, s)
<1>1. ks \in Seq(Keys)
  BY ProgramAssumption DEF ProgramAssumption
<1>2. /\ s \in Seq(Entry) /\ Functional(s)
      /\ Listed(s) = {Pair(k, v) : k \in {ks[i] : i \in DOMAIN ks}}
  BY <1>1, SameValue
<1> HIDE DEF s
<1>3. Empty \in Tree /\ AllEven(Empty) /\ Sorted(Flat(Empty)) /\ Entries(Empty) = {}
  BY TreeParts, AllEvenOf, EntriesOf
<1>4. u \in Tree /\ AllEven(u)
  BY <1>2, <1>3, PutAllBalances
<1>5. Sorted(Flat(u)) /\ Entries(u) = Overlaid(Entries(Empty), s)
  BY <1>2, <1>3, PutAllBinds
<1> QED
  BY <1>2, <1>3, <1>4, <1>5 DEF Overlaid, s

-----------------------------------------------------------------------------
(* The variable map.                                                       *)

\* no operation leaves the balanced trees
TreeInv == map \in Tree /\ AllEven(map)

LEMMA TreeInvInductive ==
  /\ Init => TreeInv
  /\ TreeInv /\ [Next]_map => TreeInv'
<1>1. Init => TreeInv
  BY TreeParts, AllEvenOf DEF Init, TreeInv
<1>2. ASSUME TreeInv, [Next]_map PROVE TreeInv'
  <2>1. map \in Tree /\ AllEven(map)
    BY <1>2 DEF TreeInv
  <2>2. CASE \E d \in Literals : Literal(d)
    BY <2>2, LiteralIs DEF Literal, TreeInv
  <2>3. CASE \E d \in Literals : MapMerge(d)
    BY <2>1, <2>3, MergeIs DEF MapMerge, TreeInv
  <2>4. CASE \E k \in Keys, v \in Values : MapPut(k, v) \/ MapUpdate(k, v)
    <3>1. PICK k \in Keys, v \in Values : map' = Put(map, k, v)
      BY <2>4 DEF MapPut, MapUpdate
    <3> QED
      BY <2>1, <3>1, PutUnfolds, PutBalances DEF TreeInv
  <2>5. CASE \E k \in Keys : MapRemove(k)
    <3>1. PICK k \in Keys : MapRemove(k)
      BY <2>5
    <3>2. Has(map, k) /\ map' = PutAll(Empty, RemoveAt(Flat(map), FirstAt(Flat(map), k)))
      BY <3>1, Zenon DEF MapRemove, FirstAt
    <3> QED
      BY <2>1, <3>2, RemoveIs DEF TreeInv
  <2>6. CASE \E ks \in KeyLists, v \in Values : FromKeys(ks, v)
    BY <2>6, FromKeysIs DEF FromKeys, TreeInv
  <2>7. CASE UNCHANGED map
    BY <2>1, <2>7 DEF TreeInv
  <2> QED
    BY <1>2, <2>2, <2>3, <2>4, <2>5, <2>6, <2>7 DEF Next
<1> QED
  BY <1>1, <1>2

\* Every map that operations can build is a tree of the program's keys and values in which
\* every node counts its descendants, whatever the two orders make of the literals.
THEOREM MapIsTree == Spec => []TypeOK
<1>1. TreeInv => TypeOK
  BY TreeWithin DEF TreeInv, TypeOK
<1> QED
  BY <1>1, TreeInvInductive, PTL DEF Spec

\* ... and balanced: no side of any node outweighs the other by more than delta.
THEOREM MapIsBalanced == Spec => []Balanced
<1>1. TreeInv => Balanced
  BY DEF TreeInv, Balanced, AllEven
<1> QED
  BY <1>1, TreeInvInductive, PTL DEF Spec

\* and where the compiler's order of a literal's keys is the runtime's, in order
OrderInv == TreeInv /\ Sorted(Flat(map))

LEMMA OrderInvInductive ==
  ASSUME LiteralsAgree
  PROVE  /\ Init => OrderInv
         /\ OrderInv /\ [Next]_map => OrderInv'
<1>1. Init => OrderInv
  BY TreeInvInductive, EntriesOf DEF Init, OrderInv
<1>2. ASSUME OrderInv, [Next]_map PROVE Sorted(Flat(map'))
  <2>1. map \in Tree /\ AllEven(map) /\ Sorted(Flat(map))
    BY <1>2 DEF OrderInv, TreeInv
  <2>2. CASE \E d \in Literals : Literal(d)
    BY <2>2, LiteralIs DEF Literal
  <2>3. CASE \E d \in Literals : MapMerge(d)
    BY <2>1, <2>3, MergeIs DEF MapMerge
  <2>4. CASE \E k \in Keys, v \in Values : MapPut(k, v) \/ MapUpdate(k, v)
    <3>1. PICK k \in Keys, v \in Values : map' = Put(map, k, v)
      BY <2>4 DEF MapPut, MapUpdate
    <3> QED
      BY <2>1, <3>1, PutBinds
  <2>5. CASE \E k \in Keys : MapRemove(k)
    <3>1. PICK k \in Keys : MapRemove(k)
      BY <2>5
    <3>2. Has(map, k) /\ map' = PutAll(Empty, RemoveAt(Flat(map), FirstAt(Flat(map), k)))
      BY <3>1, Zenon DEF MapRemove, FirstAt
    <3> QED
      BY <2>1, <3>2, RemoveIs
  <2>6. CASE \E ks \in KeyLists, v \in Values : FromKeys(ks, v)
    BY <2>6, FromKeysIs DEF FromKeys
  <2>7. CASE UNCHANGED map
    BY <2>1, <2>7
  <2> QED
    BY <1>2, <2>2, <2>3, <2>4, <2>5, <2>6, <2>7 DEF Next
<1>3. OrderInv /\ [Next]_map => OrderInv'
  BY <1>2, TreeInvInductive DEF OrderInv
<1> QED
  BY <1>1, <1>3

\* Tree order is the strict order of $term_compare after any operations, if the compiler
\* sorted the keys of each literal as the runtime compares them.
THEOREM MapIsOrdered == LiteralsAgree => (Spec => []KeysOrdered)
<1> SUFFICES ASSUME LiteralsAgree PROVE Spec => []KeysOrdered
  OBVIOUS
<1>1. OrderInv => KeysOrdered
  BY DEF OrderInv, KeysOrdered, Sorted
<1> QED
  BY <1>1, OrderInvInductive, PTL DEF Spec

\* In a tree in order the search by key and the search by index are each right about
\* every key and every index.
LEMMA OrderedReads == OrderInv => ReadsAgree
<1> SUFFICES ASSUME OrderInv PROVE ReadsAgree
  OBVIOUS
<1> DEFINE s == Flat(map)  n == Len(s)
<1>1. map \in Tree /\ Sorted(s)
  BY DEF OrderInv, TreeInv
<1>2. s \in Seq(Entry) /\ Entries(map) = Listed(s) /\ n = map.size
  BY <1>1, FlatUnfolds, FlatLength DEF Entries
<1>3. ASSUME NEW i \in DOMAIN s
      PROVE  /\ Find(map, s[i].key) # Empty
             /\ Pair(Find(map, s[i].key).key, Find(map, s[i].key).val) = s[i]
  <2> DEFINE k == s[i].key  f == Find(map, k)
  <2>1. k \in Keys /\ s[i] \in Listed(s)
    <3>1. i \in 1 .. Len(s)
      BY <1>2
    <3> QED
      BY <1>2, <1>3, <3>1, EntryKeys DEF Listed
  <2>2. Has(map, k)
    <3>1. Sorted(Flat(map)) /\ ~Has(map, k) => \A p \in Entries(map) : p.key # k
      BY <1>1, <2>1, FindFinds
    <3> QED
      BY <1>1, <1>2, <2>1, <3>1
  <2>3. f # Empty /\ f.key = k /\ Pair(k, f.val) \in Listed(s)
    BY <1>1, <1>2, <2>1, <2>2, FindFinds DEF Has
  <2> HIDE DEF f, s
  <2>4. PICK j \in DOMAIN s : s[j] = Pair(k, f.val)
    BY <2>3 DEF Listed
  <2>5. j = i
    BY <1>1, <1>2, <2>4, PairKey, SortedOnce
  <2> QED
    BY <2>3, <2>4, <2>5 DEF f
<1>4. ASSUME NEW i \in DOMAIN s
      PROVE  /\ Select(map, i - 1) # Empty
             /\ Pair(Select(map, i - 1).key, Select(map, i - 1).val) = s[i]
  <2> DEFINE j == i - 1
  <2>1. j \in Nat /\ j < map.size /\ j + 1 = i
    <3>1. i \in 1 .. n /\ n \in Nat
      BY <1>2
    <3> HIDE DEF n
    <3> QED
      BY <1>2, <3>1
  <2> HIDE DEF j
  <2>2. Select(map, j) # Empty /\ Pair(Select(map, j).key, Select(map, j).val) = s[j + 1]
    BY <1>1, <2>1, SelectCounts
  <2> QED
    BY <2>1, <2>2 DEF j
<1>5. Select(map, n) = Empty
  <2>1. map.size \in Nat /\ ~(map.size < map.size)
    BY <1>1, TreeParts
  <2> QED
    BY <1>1, <1>2, <2>1, SelectCounts
<1>6. ASSUME NEW k \in Keys, Has(map, k) PROVE \E i \in DOMAIN s : s[i].key = k
  <2>1. Pair(k, Find(map, k).val) \in Listed(s)
    BY <1>1, <1>2, <1>6, FindFinds
  <2> QED
    BY <2>1, PairKey DEF Listed
<1> HIDE DEF n
<1> QED
  BY <1>3, <1>4, <1>5, <1>6 DEF ReadsAgree, n

\* Reads agree with what the map holds after any operations, under the same condition.
THEOREM MapReadsAgree == LiteralsAgree => (Spec => []ReadsAgree)
<1> SUFFICES ASSUME LiteralsAgree PROVE Spec => []ReadsAgree
  OBVIOUS
<1> QED
  BY OrderedReads, OrderInvInductive, PTL DEF Spec

-----------------------------------------------------------------------------
(* The dictionary.                                                         *)

\* The specification with the dictionary beside it is the same program.
THEOREM DictionaryIsGhost == DictSpec => Spec
<1>1. DictInit => Init
  BY DEF DictInit
<1>2. [DictNext]_<<map, dict>> => [Next]_map
  BY DEF DictNext, Next
<1> QED
  BY <1>1, <1>2, PTL DEF DictSpec, Spec

\* the tree holds the pairs of the dictionary, in order
DictInv ==
  /\ OrderInv
  /\ DOMAIN dict \subseteq Keys
  /\ Entries(map) = Graph(dict)

LEMMA DictInvInductive ==
  ASSUME LiteralsAgree
  PROVE  /\ DictInit => DictInv
         /\ DictInv /\ [DictNext]_<<map, dict>> => DictInv'
<1>1. DictInit => DictInv
  <2> SUFFICES ASSUME DictInit PROVE DictInv
    OBVIOUS
  <2>1. OrderInv
    BY OrderInvInductive DEF DictInit
  <2>2. map = Empty /\ DOMAIN dict = {}
    BY DEF DictInit, Init, D!Empty
  <2> QED
    BY <2>1, <2>2, EntriesOf DEF DictInv, Graph
<1>2. ASSUME DictInv, [DictNext]_<<map, dict>>
      PROVE  DOMAIN dict' \subseteq Keys /\ Entries(map') = Graph(dict')
  <2>1. map \in Tree /\ AllEven(map) /\ Sorted(Flat(map))
    BY <1>2 DEF DictInv, OrderInv, TreeInv
  <2>2. DOMAIN dict \subseteq Keys /\ Entries(map) = Graph(dict)
    BY <1>2 DEF DictInv
  <2>3. CASE \E d \in Literals : Literal(d) /\ D!New(d)
    <3>1. PICK d \in Literals : map' = LiteralTree(d) /\ dict' = d
      BY <2>3 DEF Literal, D!New
    <3>2. DOMAIN d \subseteq Keys
      BY ProgramAssumption DEF ProgramAssumption
    <3> QED
      BY <3>1, <3>2, LiteralIs
  <2>4. CASE \E d \in Literals : MapMerge(d) /\ D!MergeIn(d)
    <3>1. PICK d \in Literals : MapMerge(d) /\ D!MergeIn(d)
      BY <2>4
    <3> DEFINE f == [x \in DOMAIN dict \cup DOMAIN d |-> IF x \in DOMAIN d THEN d[x] ELSE dict[x]]
    <3>2. dict' = f
      BY <3>1 DEF D!MergeIn
    <3>3. DOMAIN d \subseteq Keys /\ DOMAIN f = DOMAIN dict \cup DOMAIN d
      BY ProgramAssumption DEF ProgramAssumption
    <3>4. Entries(map') = {p \in Graph(dict) : p.key \notin DOMAIN d} \cup Graph(d)
      BY <2>1, <2>2, <3>1, MergeIs DEF MapMerge
    <3>5. \A x \in DOMAIN f : f[x] = IF x \in DOMAIN d THEN d[x] ELSE dict[x]
      OBVIOUS
    <3> HIDE DEF f
    <3>6. Graph(f) = {p \in Graph(dict) : p.key \notin DOMAIN d} \cup Graph(d)
      BY <3>3, <3>5, PairKey DEF Graph
    <3> QED
      BY <2>2, <3>2, <3>3, <3>4, <3>6
  <2>5. CASE \E k \in Keys, v \in Values : (MapPut(k, v) \/ MapUpdate(k, v)) /\ D!Bind(k, v)
    <3>1. PICK k \in Keys, v \in Values : (MapPut(k, v) \/ MapUpdate(k, v)) /\ D!Bind(k, v)
      BY <2>5
    <3> DEFINE f == [x \in DOMAIN dict \cup {k} |-> IF x = k THEN v ELSE dict[x]]
    <3>2. map' = Put(map, k, v) /\ dict' = f
      BY <3>1 DEF MapPut, MapUpdate, D!Bind
    <3>3. Entries(map') = Bound(Graph(dict), k, v)
      BY <2>1, <2>2, <3>2, PutBinds
    <3>4. DOMAIN f = DOMAIN dict \cup {k} /\ \A x \in DOMAIN f : f[x] = IF x = k THEN v ELSE dict[x]
      OBVIOUS
    <3> HIDE DEF f
    <3>5. Graph(f) = Bound(Graph(dict), k, v)
      BY <3>4, PairKey DEF Graph, Bound
    <3> QED
      BY <2>2, <3>2, <3>3, <3>4, <3>5
  <2>6. CASE \E k \in Keys : MapRemove(k) /\ D!Drop(k)
    <3>1. PICK k \in Keys : MapRemove(k) /\ D!Drop(k)
      BY <2>6
    <3>2. Has(map, k) /\ map' = PutAll(Empty, RemoveAt(Flat(map), FirstAt(Flat(map), k)))
      BY <3>1, Zenon DEF MapRemove, FirstAt
    <3> DEFINE f == [x \in DOMAIN dict \ {k} |-> dict[x]]
    <3>3. dict' = f
      BY <3>1 DEF D!Drop
    <3>4. Entries(map') = {p \in Graph(dict) : p.key # k}
      BY <2>1, <2>2, <3>2, RemoveIs
    <3>5. DOMAIN f = DOMAIN dict \ {k} /\ \A x \in DOMAIN f : f[x] = dict[x]
      OBVIOUS
    <3> HIDE DEF f
    <3>6. Graph(f) = {p \in Graph(dict) : p.key # k}
      BY <3>5, PairKey DEF Graph
    <3> QED
      BY <2>2, <3>3, <3>4, <3>5, <3>6
  <2>7. CASE \E ks \in KeyLists, v \in Values : FromKeys(ks, v) /\ D!SameFor(ks, v)
    <3>1. PICK ks \in KeyLists, v \in Values : FromKeys(ks, v) /\ D!SameFor(ks, v)
      BY <2>7
    <3> DEFINE K == {ks[i] : i \in DOMAIN ks}  f == [k \in K |-> v]
    <3>2. dict' = f
      BY <3>1 DEF D!SameFor
    <3>3. Entries(map') = {Pair(k, v) : k \in K}
      BY <3>1, FromKeysIs DEF FromKeys
    <3>4. K \subseteq Keys
      <4>1. ks \in Seq(Keys)
        BY ProgramAssumption DEF ProgramAssumption
      <4> QED
        BY <4>1
    <3> HIDE DEF K
    <3>5. DOMAIN f = K /\ Graph(f) = {Pair(k, v) : k \in K}
      BY DEF Graph
    <3> QED
      BY <3>2, <3>3, <3>4, <3>5
  <2>8. CASE UNCHANGED <<map, dict>>
    BY <2>2, <2>8
  <2> QED
    BY <1>2, <2>3, <2>4, <2>5, <2>6, <2>7, <2>8 DEF DictNext
<1>3. [DictNext]_<<map, dict>> => [Next]_map
  BY DEF DictNext, Next
<1>4. DictInv /\ [DictNext]_<<map, dict>> => DictInv'
  BY <1>2, <1>3, OrderInvInductive DEF DictInv
<1> QED
  BY <1>1, <1>4

\* a tree in order with the pairs of the dictionary has one for each key
LEMMA DictionaryRead == DictInv => ActsAsDictionary
<1> SUFFICES ASSUME DictInv PROVE ActsAsDictionary
  OBVIOUS
<1> DEFINE s == Flat(map)  n == Len(s)  K == DOMAIN dict
<1>1. s \in Seq(Entry) /\ Sorted(s) /\ Listed(s) = Graph(dict)
  BY FlatUnfolds DEF DictInv, OrderInv, TreeInv, Entries
<1> HIDE DEF s
<1>2. n \in Nat /\ DOMAIN s = 1 .. n
  BY <1>1
<1>3. ASSUME NEW i \in DOMAIN s PROVE s[i].key \in K /\ dict[s[i].key] = s[i].val
  <2>1. s[i] \in Graph(dict)
    BY <1>1 DEF Listed
  <2> QED
    BY <2>1, PairKey DEF Graph
<1>4. n = Cardinality(K)
  <2> DEFINE f == [i \in 1 .. n |-> s[i].key]
  <2>1. f \in [1 .. n -> K]
    BY <1>2, <1>3
  <2>2. \A i, j \in 1 .. n : f[i] = f[j] => i = j
    BY <1>1, <1>2, SortedOnce
  <2>3. \A k \in K : \E i \in 1 .. n : f[i] = k
    <3> SUFFICES ASSUME NEW k \in K PROVE \E i \in 1 .. n : f[i] = k
      OBVIOUS
    <3>1. Pair(k, dict[k]) \in Listed(s)
      BY <1>1 DEF Graph
    <3>2. PICK i \in 1 .. n : s[i] = Pair(k, dict[k])
      BY <1>2, <3>1 DEF Listed
    <3> QED
      BY <3>2, PairKey
  <2> HIDE DEF f, K, n
  <2>4. f \in Bijection(1 .. n, K)
    BY <2>1, <2>2, <2>3 DEF Bijection, Injection, Surjection, IsInjective
  <2>5. IsFiniteSet(1 .. n) /\ Cardinality(1 .. n) = n
    <3>1. 1 \in Int /\ n \in Int
      BY <1>2
    <3>2. IsFiniteSet(1 .. n) /\ Cardinality(1 .. n) = IF 1 > n THEN 0 ELSE n - 1 + 1
      BY <3>1, FS_Interval
    <3> QED
      BY <1>2, <3>2
  <2>6. Cardinality(K) = Cardinality(1 .. n)
    BY <2>4, <2>5, FS_Bijection DEF ExistsBijection
  <2> QED
    BY <2>5, <2>6
<1> HIDE DEF n
<1> QED
  BY <1>3, <1>4 DEF ActsAsDictionary, s, n

\* A map is a dictionary: after any sequence of puts, updates, removals, merges, literals
\* and from_keys it holds the last value given to each key and nothing else, if the two
\* orders agree on the keys of the literals.
THEOREM MapActsAsDictionary == LiteralsAgree => (DictSpec => []ActsAsDictionary)
<1> SUFFICES ASSUME LiteralsAgree PROVE DictSpec => []ActsAsDictionary
  OBVIOUS
<1> QED
  BY DictionaryRead, DictInvInductive, PTL DEF DictSpec
=============================================================================
