--------------------------- MODULE WeightBalance ---------------------------
(***************************************************************************)
(* The nodes and rotations of the weight-balanced trees of runtime.ex.      *)
(* Weights are sizes; delta is 3 and gamma is 2.                            *)
(***************************************************************************)
EXTENDS Integers

Pair(k, v) == [key |-> k, val |-> v]

Empty == [size |-> 0]

Node(k, v, l, r) ==
  [key |-> k, val |-> v, left |-> l, right |-> r, size |-> 1 + l.size + r.size]

RotateLeft(k, v, l, r) ==
  Node(r.key, r.val, Node(k, v, l, r.left), r.right)

RotateRight(k, v, l, r) ==
  Node(l.key, l.val, l.left, Node(k, v, l.right, r))

\* $mrotLR; the mutant hangs the inner subtrees on the wrong sides
RotateLeftRightCrossed(k, v, l, r) ==
  LET rl == r.left
  IN Node(rl.key, rl.val, Node(k, v, l, rl.right), Node(r.key, r.val, rl.left, r.right))
RotateLeftRight(k, v, l, r) ==
  LET rl == r.left
  IN Node(rl.key, rl.val, Node(k, v, l, rl.left), Node(r.key, r.val, rl.right, r.right))

\* $mrotRL
RotateRightLeft(k, v, l, r) ==
  LET lr == l.right
  IN Node(lr.key, lr.val, Node(l.key, l.val, l.left, lr.left), Node(k, v, lr.right, r))

\* a single rotation is enough when the inner subtree is less than gamma times the
\* outer one; the mutant always rotates once
AlwaysSingle(inner, outer) == TRUE
Single(inner, outer) == inner.size < 2 * outer.size

\* $mbal
Balance(k, v, l, r) ==
  IF l.size + r.size <= 1 THEN Node(k, v, l, r)
  ELSE IF r.size > 3 * l.size
  THEN IF Single(r.left, r.right) THEN RotateLeft(k, v, l, r)
                                  ELSE RotateLeftRight(k, v, l, r)
  ELSE IF l.size > 3 * r.size
  THEN IF Single(l.right, l.left) THEN RotateRight(k, v, l, r)
                                  ELSE RotateRightLeft(k, v, l, r)
  ELSE Node(k, v, l, r)

\* two subtrees that may hang on one node
Even(m, n) == m + n <= 1 \/ (m <= 3 * n /\ n <= 3 * m)
=============================================================================
