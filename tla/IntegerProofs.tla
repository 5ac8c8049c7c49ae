---------------------------- MODULE IntegerProofs ----------------------------
(***************************************************************************)
(* The integers of compiled modules are exact, whatever the widths of the  *)
(* tiers: an operation of the runtime on the terms of two integers gives   *)
(* the term of the result, the domains of a fused chain say nothing false  *)
(* of its nodes, and a chain computes what the unfused code does.          *)
(***************************************************************************)
EXTENDS ChainFusion, WellFoundedInduction, TLAPS

USE TierAssumption

\* An i31 is an i64.
LEMMA Tiers == \A v \in Int : FitsI31(v) => FitsI64(v)
<1>1. Small <= Small * Small
  OBVIOUS
<1> QED
  BY <1>1 DEF FitsI31, FitsI64

LEMMA TwiceSmall == Small + Small <= Half
<1>1. Small = 1 \/ Small >= 2
  OBVIOUS
<1>2. Small >= 2 => Small * Small >= Small + Small
  OBVIOUS
<1>3. Small = 1 => Half >= 2
  OBVIOUS
<1> QED
  BY <1>1, <1>2, <1>3

\* Wrapping leaves a multiple of 2^64 out, and an i64 as it is.
LEMMA WrapModulo ==
  ASSUME NEW v \in Int
  PROVE  /\ Wrap(v) \in Int /\ FitsI64(Wrap(v))
         /\ \E k \in Int : v = Wrap(v) + k * (2 * Half)
<1> DEFINE w == 2 * Half
           m == (v + Half) % w
           q == (v + Half) \div w
<1>1. w \in Nat /\ w > 0
  OBVIOUS
<1> HIDE DEF w
<1>2. m \in Int /\ 0 <= m /\ m < w /\ q \in Int /\ v + Half = q * w + m
  BY <1>1
<1> HIDE DEF m, q
<1>3. Wrap(v) = m - Half
  BY DEF Wrap, m, w
<1>4. FitsI64(Wrap(v)) /\ Wrap(v) \in Int
  BY <1>2, <1>3 DEF FitsI64, w
<1>5. v = Wrap(v) + q * w
  <2> DEFINE t == q * w
  <2>1. t \in Int /\ v + Half = t + m
    BY <1>1, <1>2
  <2> HIDE DEF t
  <2>2. v = Wrap(v) + t
    BY <1>2, <1>3, <2>1
  <2> QED
    BY <2>2 DEF t
<1> QED
  BY <1>2, <1>4, <1>5 DEF w

LEMMA WrapFits == ASSUME NEW v \in Int, FitsI64(v) PROVE Wrap(v) = v
<1>1. PICK k \in Int : v = Wrap(v) + k * (2 * Half)
  BY WrapModulo
<1>2. FitsI64(Wrap(v)) /\ Wrap(v) \in Int
  BY WrapModulo
<1>3. k = 0
  <2> DEFINE w == 2 * Half
             t == k * w
  <2>0. w \in Nat /\ w > 0 /\ t \in Int
    OBVIOUS
  <2>1. k >= 1 => t >= w
    BY <2>0
  <2>2. k <= -1 => t <= -w
    BY <2>0
  <2>3. v = Wrap(v) + t
    BY <1>1
  <2> HIDE DEF t
  <2>4. -w < t /\ t < w
    BY <1>2, <2>0, <2>3 DEF FitsI64
  <2> QED
    BY <2>0, <2>1, <2>2, <2>4
<1> QED
  BY <1>1, <1>2, <1>3

\* The two ways to the term of an integer.
LEMMA FromBigTerm == ASSUME NEW v \in Int PROVE FromBig(v) = Term(v)
  BY WrapFits DEF FromBig, Term

LEMMA NarrowTerm == ASSUME NEW v \in Int, FitsI64(v) PROVE Narrow(v) = Term(v)
  BY DEF Narrow, Term

LEMMA TermOK ==
  ASSUME NEW v \in Int
  PROVE  Term(v).v = v /\ (IsI31(Term(v)) <=> FitsI31(v)) /\ (IsI64rep(Term(v)) <=> FitsI64(v))
  BY Tiers DEF Term, I31, I64, Big, IsI31, IsI64rep
-----------------------------------------------------------------------------
\* Adding and subtracting terms gives the term of the result: the carry test
\* on the signs finds exactly the results that no i64 holds
\* (runtime.ex $int_add, $int_sub).
LEMMA Overflow ==
  ASSUME NEW v \in Int, -2 * Half <= v, v < 2 * Half
  PROVE  /\ v >= Half => Wrap(v) = v - 2 * Half
         /\ v < -Half => Wrap(v) = v + 2 * Half
         /\ FitsI64(v) => Wrap(v) = v
<1>1. PICK k \in Int : v = Wrap(v) + k * (2 * Half)
  BY WrapModulo
<1>2. FitsI64(Wrap(v)) /\ Wrap(v) \in Int
  BY WrapModulo
<1> DEFINE w == 2 * Half
           t == k * w
<1>3. w \in Nat /\ w > 0 /\ t \in Int
  OBVIOUS
<1>4. (k >= 2 => t >= 2 * w) /\ (k <= -2 => t <= -2 * w)
  BY <1>3
<1>5. (k = 1 => t = w) /\ (k = 0 => t = 0) /\ (k = -1 => t = -w)
  BY <1>3
<1>6. v = Wrap(v) + t
  BY <1>1
<1> HIDE DEF t
<1> QED
  BY <1>2, <1>3, <1>4, <1>5, <1>6, WrapFits DEF FitsI64

\* Adding terms gives the term of the sum, for integers of any size: the test
\* of the signs finds every sum that leaves an i64 (runtime.ex $int_add).
THEOREM AdditionExact ==
  ASSUME NEW a \in Int, NEW b \in Int
  PROVE  IntAdd(Term(a), Term(b)) = Term(a + b)
<1> DEFINE x == Term(a)
           y == Term(b)
           r == Wrap(a + b)
<1>1. /\ x.v = a /\ (IsI31(x) <=> FitsI31(a)) /\ (IsI64rep(x) <=> FitsI64(a))
      /\ y.v = b /\ (IsI31(y) <=> FitsI31(b)) /\ (IsI64rep(y) <=> FitsI64(b))
  BY TermOK
<1> HIDE DEF x, y
<1>2. CASE Tier1(x, y)
  <2>1. FitsI31(a) /\ FitsI31(b)
    BY <1>1, <1>2 DEF Tier1
  <2>2. FitsI64(a + b)
    BY <2>1, TwiceSmall DEF FitsI31, FitsI64
  <2>3. r = a + b
    BY <2>2, WrapFits
  <2>4. IntAdd(x, y) = Narrow(r)
    BY <1>1, <1>2 DEF IntAdd, Tier2
  <2> QED
    BY <2>2, <2>3, <2>4, NarrowTerm DEF x, y
<1>3. CASE Tier2(x, y)
  <2>1. FitsI64(a) /\ FitsI64(b)
    BY <1>1, <1>3 DEF Tier2
  <2>2. /\ a + b >= Half => r = a + b - 2 * Half
        /\ a + b < -Half => r = a + b + 2 * Half
        /\ FitsI64(a + b) => r = a + b
    BY <2>1, Overflow DEF FitsI64
  <2>3. ((a < 0) # (r < 0) /\ (b < 0) # (r < 0)) <=> ~FitsI64(a + b)
    BY <2>1, <2>2 DEF FitsI64
  <2>4. ~Tier1(x, y)
    BY <1>3 DEF Tier2
  <2>5. IntAdd(x, y) = IF (a < 0) # (r < 0) /\ (b < 0) # (r < 0) THEN FromBig(a + b) ELSE Narrow(r)
    BY <1>1, <1>3, <2>4 DEF IntAdd
  <2>6. CASE FitsI64(a + b)
    BY <2>2, <2>3, <2>5, <2>6, NarrowTerm DEF x, y
  <2>7. CASE ~FitsI64(a + b)
    BY <2>3, <2>5, <2>7, FromBigTerm DEF x, y
  <2> QED
    BY <2>6, <2>7
<1>4. CASE ~Tier1(x, y) /\ ~Tier2(x, y)
  <2>1. IntAdd(x, y) = FromBig(a + b)
    BY <1>1, <1>4 DEF IntAdd
  <2> QED
    BY <2>1, FromBigTerm DEF x, y
<1> QED
  BY <1>2, <1>3, <1>4 DEF x, y

\* Subtracting terms gives the term of the difference (runtime.ex $int_sub).
THEOREM SubtractionExact ==
  ASSUME NEW a \in Int, NEW b \in Int
  PROVE  IntSub(Term(a), Term(b)) = Term(a - b)
<1> DEFINE x == Term(a)
           y == Term(b)
           r == Wrap(a - b)
<1>1. /\ x.v = a /\ (IsI31(x) <=> FitsI31(a)) /\ (IsI64rep(x) <=> FitsI64(a))
      /\ y.v = b /\ (IsI31(y) <=> FitsI31(b)) /\ (IsI64rep(y) <=> FitsI64(b))
  BY TermOK
<1> HIDE DEF x, y
<1>2. CASE Tier1(x, y)
  <2>1. FitsI31(a) /\ FitsI31(b)
    BY <1>1, <1>2 DEF Tier1
  <2>2. FitsI64(a - b)
    BY <2>1, TwiceSmall DEF FitsI31, FitsI64
  <2>3. r = a - b
    BY <2>2, WrapFits
  <2>4. IntSub(x, y) = Narrow(r)
    BY <1>1, <1>2 DEF IntSub, Tier2
  <2> QED
    BY <2>2, <2>3, <2>4, NarrowTerm DEF x, y
<1>3. CASE Tier2(x, y)
  <2>1. FitsI64(a) /\ FitsI64(b)
    BY <1>1, <1>3 DEF Tier2
  <2>2. /\ a - b >= Half => r = a - b - 2 * Half
        /\ a - b < -Half => r = a - b + 2 * Half
        /\ FitsI64(a - b) => r = a - b
    BY <2>1, Overflow DEF FitsI64
  <2>3. ((a < 0) # (b < 0) /\ (a < 0) # (r < 0)) <=> ~FitsI64(a - b)
    BY <2>1, <2>2 DEF FitsI64
  <2>4. ~Tier1(x, y)
    BY <1>3 DEF Tier2
  <2>5. IntSub(x, y) = IF (a < 0) # (b < 0) /\ (a < 0) # (r < 0) THEN FromBig(a - b) ELSE Narrow(r)
    BY <1>1, <1>3, <2>4 DEF IntSub
  <2>6. CASE FitsI64(a - b)
    BY <2>2, <2>3, <2>5, <2>6, NarrowTerm DEF x, y
  <2>7. CASE ~FitsI64(a - b)
    BY <2>3, <2>5, <2>7, FromBigTerm DEF x, y
  <2> QED
    BY <2>6, <2>7
<1>4. CASE ~Tier1(x, y) /\ ~Tier2(x, y)
  <2>1. IntSub(x, y) = FromBig(a - b)
    BY <1>1, <1>4 DEF IntSub
  <2> QED
    BY <2>1, FromBigTerm DEF x, y
<1> QED
  BY <1>2, <1>3, <1>4 DEF x, y
-----------------------------------------------------------------------------
(* Division truncates: what it leaves of a dividend, on magnitudes.        *)
LEMMA Division ==
  ASSUME NEW n \in Nat, NEW d \in Nat \ {0}
  PROVE  /\ n \div d \in Nat /\ n % d \in Nat /\ n % d < d
         /\ d * (n \div d) \in Nat /\ n = d * (n \div d) + (n % d)
<1> DEFINE q == n \div d
           t == d * q
           m == n % d
<1>1. q \in Int
  OBVIOUS
<1>2. m \in 0 .. d - 1
  OBVIOUS
<1>3. n = q * d + m
  OBVIOUS
<1> HIDE DEF q, m
<1>4. t \in Int /\ n = t + m
  BY <1>1, <1>3
<1>5. (q <= -1 => t <= -d) /\ (q >= 0 => t >= 0)
  BY <1>1
<1> HIDE DEF t
<1>6. q >= 0
  BY <1>1, <1>2, <1>4, <1>5
<1>7. q \in Nat /\ m \in Nat /\ m < d /\ t \in Nat /\ n = t + m
  BY <1>1, <1>2, <1>4, <1>5, <1>6
<1> QED
  BY <1>7 DEF q, t, m

LEMMA QuotientParts ==
  ASSUME NEW a \in Int, NEW b \in Int, b # 0
  PROVE  \E t \in Nat, m \in Nat :
           /\ Quotient(a, b) \in Int
           /\ Abs(a) = t + m /\ m < Abs(b)
           /\ b * Quotient(a, b) = IF a < 0 THEN -t ELSE t
           /\ Abs(Quotient(a, b)) <= t
           /\ Abs(b) >= 2 => 2 * Abs(Quotient(a, b)) <= t
<1> DEFINE n == Abs(a)
           d == Abs(b)
           q == n \div d
           t == d * q
           m == n % d
<1>1. n \in Nat /\ d \in Nat \ {0}
  BY DEF Abs
<1>2. q \in Nat /\ m \in Nat /\ m < d /\ t \in Nat /\ n = t + m
  BY <1>1, Division
<1>3. Quotient(a, b) = IF (a < 0) = (b < 0) THEN q ELSE -q
  BY DEF Quotient
<1> HIDE DEF q
<1>4. Quotient(a, b) \in Int /\ Abs(Quotient(a, b)) = q
  BY <1>2, <1>3 DEF Abs
<1>5. b * Quotient(a, b) = IF a < 0 THEN -t ELSE t
  <2>2. ASSUME NEW x \in Int, NEW y \in Int PROVE x * (-y) = -(x * y) /\ (-x) * y = -(x * y) /\ (-x) * (-y) = x * y
    OBVIOUS
  <2>3. d * (-q) = -t /\ (-d) * q = -t /\ (-d) * (-q) = t
    BY <1>1, <1>2, <2>2
  <2>4. (b > 0 => b = d) /\ (b < 0 => b = -d)
    BY DEF Abs
  <2>5. CASE a < 0 /\ b < 0
    <3>1. b = -d /\ Quotient(a, b) = q
      BY <1>3, <2>4, <2>5
    <3> QED
      BY <2>3, <2>5, <3>1
  <2>6. CASE a >= 0 /\ b > 0
    <3>1. b = d /\ Quotient(a, b) = q
      BY <1>3, <2>4, <2>6
    <3> QED
      BY <2>6, <3>1
  <2>7. CASE a < 0 /\ b > 0
    <3>1. b = d /\ Quotient(a, b) = -q
      BY <1>3, <2>4, <2>7
    <3> QED
      BY <2>3, <2>7, <3>1
  <2>8. CASE a >= 0 /\ b < 0
    <3>1. b = -d /\ Quotient(a, b) = -q
      BY <1>3, <2>4, <2>8
    <3> QED
      BY <2>3, <2>8, <3>1
  <2> QED
    BY <2>5, <2>6, <2>7, <2>8
<1>6. q <= t /\ (d >= 2 => 2 * q <= t)
  BY <1>1, <1>2
<1> QED
  BY <1>2, <1>4, <1>5, <1>6
-----------------------------------------------------------------------------
\* Dividing the wrapped product by a factor gives the other one only if the
\* product did not wrap, but for -1 times the least i64 (runtime.ex $int_mul).
LEMMA ProductFits ==
  ASSUME NEW a \in Int, NEW b \in Int, FitsI64(a), FitsI64(b),
         ~MulOverflows(a, b, Wrap(a * b))
  PROVE  FitsI64(a * b)
<1> DEFINE r == Wrap(a * b)
<1>1. r \in Int /\ FitsI64(r)
  BY WrapModulo
<1>2. CASE a = 0
  BY <1>2 DEF FitsI64
<1>3. CASE a = -1
  <2>1. a * b = -b /\ b # -Half
    BY <1>3 DEF MulOverflows
  <2> QED
    BY <2>1 DEF FitsI64
<1>4. CASE a \notin {0, -1}
  <2>1. Quotient(r, a) = b
    BY <1>4 DEF MulOverflows
  <2> HIDE DEF r
  <2>2. PICK t \in Nat, m \in Nat :
          Abs(r) = t + m /\ a * Quotient(r, a) = IF r < 0 THEN -t ELSE t
    BY <1>1, <1>4, QuotientParts
  <2>3. a * b = IF r < 0 THEN -t ELSE t
    BY <2>1, <2>2
  <2> QED
    BY <1>1, <2>2, <2>3 DEF FitsI64, Abs
<1> QED
  BY <1>2, <1>3, <1>4

LEMMA SmallProducts ==
  ASSUME NEW a \in Int, NEW b \in Int, FitsI31(a), FitsI31(b)
  PROVE  FitsI64(a * b)
<1> DEFINE p == a * b
           s == Small * Small
<1>1. -s <= p /\ p <= s
  <2>1. \A x, y \in Nat : x <= Small /\ y <= Small => x * y <= s
    <3> TAKE x, y \in Nat
    <3> HAVE x <= Small /\ y <= Small
    <3>1. x * y <= Small * y
      OBVIOUS
    <3>2. Small * y <= Small * Small
      OBVIOUS
    <3> QED
      BY <3>1, <3>2
  <2>2. CASE a >= 0 /\ b >= 0
    BY <2>1, <2>2 DEF FitsI31
  <2>3. CASE a >= 0 /\ b < 0
    <3>1. a * (-b) <= s /\ p = -(a * (-b)) /\ a * (-b) >= 0
      BY <2>1, <2>3 DEF FitsI31
    <3> QED
      BY <3>1
  <2>4. CASE a < 0 /\ b >= 0
    <3>1. (-a) * b <= s /\ p = -((-a) * b) /\ (-a) * b >= 0
      BY <2>1, <2>4 DEF FitsI31
    <3> QED
      BY <3>1
  <2>5. CASE a < 0 /\ b < 0
    <3>1. (-a) * (-b) <= s /\ p = (-a) * (-b) /\ p >= 0
      BY <2>1, <2>5 DEF FitsI31
    <3> QED
      BY <3>1
  <2> QED
    BY <2>2, <2>3, <2>4, <2>5
<1>2. s < Half /\ p \in Int /\ s \in Int
  OBVIOUS
<1> HIDE DEF p, s
<1>3. FitsI64(p)
  BY <1>1, <1>2 DEF FitsI64
<1> QED
  BY <1>3 DEF p

\* Multiplying terms gives the term of the product.
THEOREM MultiplicationExact ==
  ASSUME NEW a \in Int, NEW b \in Int
  PROVE  IntMul(Term(a), Term(b)) = Term(a * b)
<1> DEFINE x == Term(a)
           y == Term(b)
           p == a * b
           r == Wrap(p)
<1>1. /\ x.v = a /\ (IsI31(x) <=> FitsI31(a)) /\ (IsI64rep(x) <=> FitsI64(a))
      /\ y.v = b /\ (IsI31(y) <=> FitsI31(b)) /\ (IsI64rep(y) <=> FitsI64(b))
  BY TermOK
<1>2. p \in Int
  OBVIOUS
<1> HIDE DEF x, y
<1>3. ASSUME Tier1(x, y) PROVE IntMul(x, y) = Term(p)
  <2>1. FitsI64(p)
    BY <1>1, <1>3, SmallProducts DEF Tier1
  <2>2. IntMul(x, y) = Narrow(r)
    BY <1>1, <1>3 DEF IntMul, Tier2
  <2> HIDE DEF p
  <2> QED
    BY <1>2, <2>1, <2>2, WrapFits, NarrowTerm
<1>4. ASSUME Tier2(x, y) PROVE IntMul(x, y) = Term(p)
  <2>1. FitsI64(a) /\ FitsI64(b)
    BY <1>1, <1>4 DEF Tier2
  <2>2. MulOverflows(a, b, r) \/ FitsI64(p)
    BY <2>1, ProductFits
  <2>3. IntMul(x, y) = IF MulOverflows(a, b, r) THEN FromBig(p) ELSE Narrow(r)
    BY <1>1, <1>4 DEF IntMul, Tier2
  <2> HIDE DEF p
  <2>4. CASE MulOverflows(a, b, r)
    BY <1>2, <2>3, <2>4, FromBigTerm
  <2>5. CASE ~MulOverflows(a, b, r)
    BY <1>2, <2>2, <2>3, <2>5, WrapFits, NarrowTerm
  <2> QED
    BY <2>4, <2>5
<1>5. ASSUME ~Tier1(x, y), ~Tier2(x, y) PROVE IntMul(x, y) = Term(p)
  <2>1. IntMul(x, y) = FromBig(p)
    BY <1>1, <1>5 DEF IntMul
  <2> HIDE DEF p
  <2> QED
    BY <1>2, <2>1, FromBigTerm
<1> QED
  BY <1>3, <1>4, <1>5 DEF x, y, p
-----------------------------------------------------------------------------
LEMMA QuotientFits ==
  ASSUME NEW a \in Int, NEW b \in Int, FitsI64(a), FitsI64(b), b # 0,
         ~(a = -Half /\ b = -1)
  PROVE  FitsI64(Quotient(a, b))
<1> DEFINE q == Quotient(a, b)
<1>1. PICK t \in Nat, m \in Nat :
        /\ q \in Int /\ Abs(a) = t + m /\ m < Abs(b)
        /\ b * q = IF a < 0 THEN -t ELSE t
        /\ Abs(q) <= t
        /\ Abs(b) >= 2 => 2 * Abs(q) <= t
  BY QuotientParts
<1>2. (b = 1 => b * q = q) /\ (b = -1 => b * q = -q)
  BY <1>1
<1> HIDE DEF q
<1>3. CASE b \notin {1, -1}
  <2>1. 2 * Abs(q) <= t /\ t <= Half /\ Half > 0
    BY <1>1, <1>3 DEF Abs, FitsI64
  <2> QED
    BY <1>1, <2>1 DEF Abs, FitsI64, q
<1>4. CASE b \in {1, -1}
  BY <1>1, <1>2, <1>4 DEF Abs, FitsI64, q
<1> QED
  BY <1>3, <1>4

LEMMA RemainderFits ==
  ASSUME NEW a \in Int, NEW b \in Int, FitsI64(b), b # 0
  PROVE  Remainder(a, b) \in Int /\ FitsI64(Remainder(a, b))
<1> DEFINE p == b * Quotient(a, b)
<1>1. PICK t \in Nat, m \in Nat :
        Abs(a) = t + m /\ m < Abs(b) /\ p = IF a < 0 THEN -t ELSE t
  BY QuotientParts
<1>2. Remainder(a, b) = a - p
  BY DEF Remainder
<1> HIDE DEF p
<1> QED
  BY <1>1, <1>2 DEF Abs, FitsI64

\* Dividing terms gives the terms of the quotient and of the remainder: no
\* quotient leaves the range of its tier but that of the least i64 by -1
\* (runtime.ex $int_div, $int_rem).
THEOREM DivisionExact ==
  ASSUME NEW a \in Int, NEW b \in Int, b # 0
  PROVE  /\ IntDiv(Term(a), Term(b)) = Term(Quotient(a, b))
         /\ IntRem(Term(a), Term(b)) = Term(Remainder(a, b))
<1> DEFINE x == Term(a)
           y == Term(b)
           q == Quotient(a, b)
           r == Remainder(a, b)
<1>1. /\ x.v = a /\ (IsI31(x) <=> FitsI31(a)) /\ (IsI64rep(x) <=> FitsI64(a))
      /\ y.v = b /\ (IsI31(y) <=> FitsI31(b)) /\ (IsI64rep(y) <=> FitsI64(b))
  BY TermOK
<1>2. y # I31(0)
  BY <1>1 DEF I31
<1>3. q \in Int
  BY QuotientParts
<1>4. /\ FitsI64(a) /\ FitsI64(b) /\ ~(a = -Half /\ b = -1) => FitsI64(q)
      /\ r \in Int /\ (FitsI64(b) => FitsI64(r))
  <2>1. FitsI64(a) /\ FitsI64(b) /\ ~(a = -Half /\ b = -1) => FitsI64(q)
    BY QuotientFits
  <2>2. FitsI64(b) => FitsI64(r)
    BY RemainderFits
  <2>3. r \in Int
    BY <1>3 DEF Remainder
  <2> QED
    BY <2>1, <2>2, <2>3
<1> HIDE DEF x, y, q, r
<1>5. IntDiv(x, y) = Term(q)
  <2>1. CASE Tier1(x, y)
    <3>1. FitsI31(a) /\ FitsI31(b)
      BY <1>1, <2>1 DEF Tier1
    <3>2. FitsI64(q)
      BY <1>4, <3>1, TwiceSmall DEF FitsI31, FitsI64
    <3>3. IntDiv(x, y) = Narrow(q)
      BY <1>1, <1>2, <2>1 DEF IntDiv, Tier2, q
    <3> QED
      BY <1>3, <3>2, <3>3, NarrowTerm
  <2>2. CASE Tier2(x, y)
    <3>1. FitsI64(a) /\ FitsI64(b) /\ ~Tier1(x, y)
      BY <1>1, <2>2 DEF Tier2
    <3>2. IntDiv(x, y) = IF b = -1 /\ a = -Half THEN FromBig(q) ELSE Narrow(Wrap(q))
      BY <1>1, <1>2, <2>2, <3>1 DEF IntDiv, q
    <3>3. CASE b = -1 /\ a = -Half
      BY <1>3, <3>2, <3>3, FromBigTerm
    <3>4. CASE ~(b = -1 /\ a = -Half)
      BY <1>3, <1>4, <3>1, <3>2, <3>4, WrapFits, NarrowTerm
    <3> QED
      BY <3>3, <3>4
  <2>3. CASE ~Tier1(x, y) /\ ~Tier2(x, y)
    <3>1. IntDiv(x, y) = FromBig(q)
      BY <1>1, <1>2, <2>3 DEF IntDiv, q
    <3> QED
      BY <1>3, <3>1, FromBigTerm
  <2> QED
    BY <2>1, <2>2, <2>3
<1>6. IntRem(x, y) = Term(r)
  <2>1. CASE IsI64rep(x) /\ IsI64rep(y)
    <3>1. IntRem(x, y) = Narrow(r)
      BY <1>1, <1>2, <2>1 DEF IntRem, r
    <3> QED
      BY <1>1, <1>4, <2>1, <3>1, NarrowTerm
  <2>2. CASE ~(IsI64rep(x) /\ IsI64rep(y))
    <3>1. IntRem(x, y) = FromBig(r)
      BY <1>1, <1>2, <2>2 DEF IntRem, r
    <3> QED
      BY <1>4, <3>1, FromBigTerm
  <2> QED
    BY <2>1, <2>2
<1> QED
  BY <1>5, <1>6 DEF x, y, q, r
-----------------------------------------------------------------------------
\* A natural number below 2^64 survives the way through its u64 bit pattern
\* (runtime.ex $term_u64bits, $narrow_u64), the way in and out of a fused chain.
THEOREM BitsKeepU64 ==
  ASSUME NEW v \in Int, 0 <= v, v < 2 * Half
  PROVE  NarrowU64(TermU64Bits(Term(v))) = Term(v)
<1>1. Term(v).v = v /\ (IsI64rep(Term(v)) <=> FitsI64(v))
  BY TermOK
<1>2. CASE FitsI64(v)
  <2>1. TermU64Bits(Term(v)) = v
    BY <1>1, <1>2 DEF TermU64Bits
  <2> QED
    BY <1>2, <2>1, NarrowTerm DEF NarrowU64
<1>3. CASE ~FitsI64(v)
  <2> DEFINE u == v - 2 * Half
  <2>1. TermU64Bits(Term(v)) = u
    BY <1>1, <1>3, Overflow DEF TermU64Bits, FitsI64
  <2>2. u < 0
    OBVIOUS
  <2>3. Unsigned(u) = v
    BY DEF Unsigned
  <2> QED
    BY <2>1, <2>2, <2>3, FromBigTerm DEF NarrowU64
<1> QED
  BY <1>2, <1>3

HIDE TierAssumption
-----------------------------------------------------------------------------
(* Induction and recursion over numbers.                                   *)

\* A set that holds 0 and, with a number, the next, holds every number.
LEMMA SetInduction ==
  ASSUME NEW S, 0 \in S, \A n \in Nat : n \in S => n + 1 \in S
  PROVE  Nat \subseteq S
<1> DEFINE R == OpToRel(<, Nat)
           T == Nat \ S
<1> SUFFICES ASSUME T # {} PROVE FALSE
  OBVIOUS
<1>1. T \subseteq Nat
  OBVIOUS
<1>2. IsWellFoundedOn(R, Nat)
  BY NatLessThanWellFounded, Zenon
<1>3. \A m, n \in Nat : m < n => <<m, n>> \in R
  BY DEF OpToRel
<1> HIDE DEF R
<1>4. PICK x \in T : \A y \in T : ~(<<y, x>> \in R)
  BY <1>1, <1>2, WFMin, Zenon
<1>5. x \in Nat /\ x # 0
  OBVIOUS
<1>6. x - 1 \in Nat /\ x - 1 < x /\ (x - 1) + 1 = x
  BY <1>5
<1>7. x - 1 \notin T
  BY <1>3, <1>4, <1>5, <1>6
<1> QED
  BY <1>5, <1>6, <1>7

\* The first values of d, F[d], F[F[d]], ...
Iterates(n, f, d, F) == f[0] = d /\ \A m \in 0 .. n : m < n => f[m + 1] = F[f[m]]

\* They exist, as far as any number.
LEMMA IteratesExist ==
  ASSUME NEW D, NEW d \in D, NEW F \in [D -> D]
  PROVE  \A n \in Nat : \E f \in [Nat -> D] : Iterates(n, f, d, F)
<1> DEFINE S == {n \in Nat : \E f \in [Nat -> D] : Iterates(n, f, d, F)}
<1>1. 0 \in S
  <2>1. [m \in Nat |-> d] \in [Nat -> D] /\ Iterates(0, [m \in Nat |-> d], d, F)
    BY DEF Iterates
  <2> QED
    BY <2>1
<1>2. ASSUME NEW n \in Nat, n \in S PROVE n + 1 \in S
  <2>1. PICK f \in [Nat -> D] : Iterates(n, f, d, F)
    BY <1>2
  <2> DEFINE g == [f EXCEPT ![n + 1] = F[f[n]]]
  <2>2. g \in [Nat -> D] /\ g[n + 1] = F[f[n]] /\ \A m \in Nat : m # n + 1 => g[m] = f[m]
    OBVIOUS
  <2> HIDE DEF g
  <2>3. g[0] = d
    BY <2>1, <2>2 DEF Iterates
  <2>4. ASSUME NEW m \in 0 .. n + 1, m < n + 1 PROVE g[m + 1] = F[g[m]]
    <3>1. m \in 0 .. n /\ g[m] = f[m]
      BY <2>2, <2>4
    <3>2. CASE m = n
      BY <2>2, <3>1, <3>2
    <3>3. CASE m < n
      BY <2>1, <2>2, <3>1, <3>3 DEF Iterates
    <3> QED
      BY <3>1, <3>2, <3>3
  <2>5. Iterates(n + 1, g, d, F)
    BY <2>3, <2>4 DEF Iterates
  <2> QED
    BY <2>2, <2>5
<1> HIDE DEF S
<1>3. Nat \subseteq S
  BY <1>1, <1>2, SetInduction
<1> QED
  BY <1>3 DEF S

\* Two such sequences agree where both are defined.
LEMMA IteratesAgree ==
  ASSUME NEW d, NEW F, NEW f, NEW g, NEW n \in Nat, NEW m \in Nat, m <= n,
         Iterates(m, f, d, F), Iterates(n, g, d, F)
  PROVE  f[m] = g[m]
<1> DEFINE S == {i \in Nat : i <= m => f[i] = g[i]}
<1>1. 0 \in S
  BY DEF Iterates
<1>2. ASSUME NEW i \in Nat, i \in S PROVE i + 1 \in S
  <2> SUFFICES ASSUME i + 1 <= m PROVE f[i + 1] = g[i + 1]
    OBVIOUS
  <2>1. i \in 0 .. m /\ i \in 0 .. n /\ i < m /\ i < n
    OBVIOUS
  <2>2. f[i + 1] = F[f[i]] /\ g[i + 1] = F[g[i]]
    BY <2>1 DEF Iterates
  <2>3. f[i] = g[i]
    BY <1>2
  <2> QED
    BY <2>2, <2>3
<1> HIDE DEF S
<1>3. Nat \subseteq S
  BY <1>1, <1>2, SetInduction
<1> QED
  BY <1>3 DEF S

Recursive(f, d, F) == f = [n \in Nat |-> IF n = 0 THEN d ELSE F[f[n - 1]]]

\* What is defined from its value one number before exists.
LEMMA Recursion ==
  ASSUME NEW D, NEW d \in D, NEW F \in [D -> D]
  PROVE  \E f \in [Nat -> D] : Recursive(f, d, F)
<1> DEFINE c(n) == CHOOSE f \in [Nat -> D] : Iterates(n, f, d, F)
           G == [n \in Nat |-> c(n)[n]]
           B == [n \in Nat |-> IF n = 0 THEN d ELSE F[G[n - 1]]]
<1>1. \A n \in Nat : c(n) \in [Nat -> D] /\ Iterates(n, c(n), d, F)
  BY IteratesExist
<1> HIDE DEF c
<1>2. G \in [Nat -> D]
  BY <1>1
<1>3. ASSUME NEW n \in Nat PROVE G[n] = IF n = 0 THEN d ELSE F[G[n - 1]]
  <2>1. G[n] = c(n)[n] /\ (n # 0 => n - 1 \in Nat /\ G[n - 1] = c(n - 1)[n - 1])
    OBVIOUS
  <2> HIDE DEF G
  <2>2. CASE n = 0
    BY <1>1, <2>1, <2>2 DEF Iterates
  <2>3. CASE n # 0
    <3>1. n - 1 \in Nat /\ n - 1 <= n /\ n - 1 < n /\ n - 1 \in 0 .. n /\ (n - 1) + 1 = n
      BY <2>3
    <3>2. Iterates(n, c(n), d, F) /\ Iterates(n - 1, c(n - 1), d, F)
      BY <1>1, <3>1
    <3>3. c(n)[n] = F[c(n)[n - 1]]
      <4> DEFINE k == n - 1
      <4>1. k \in 0 .. n /\ k < n /\ k + 1 = n
        BY <3>1
      <4> HIDE DEF k
      <4>2. c(n)[k + 1] = F[c(n)[k]]
        BY <3>2, <4>1 DEF Iterates
      <4> QED
        BY <4>1, <4>2 DEF k
    <3>4. c(n - 1)[n - 1] = c(n)[n - 1]
      BY <3>1, <3>2, IteratesAgree
    <3> QED
      BY <2>1, <2>3, <3>3, <3>4
  <2> QED
    BY <2>2, <2>3
<1>4. G = B
  <2>1. \A n \in Nat : G[n] = B[n]
    <3> HIDE DEF G
    <3> QED
      BY <1>3
  <2>2. G = [n \in Nat |-> G[n]] /\ B = [n \in Nat |-> B[n]]
    OBVIOUS
  <2> HIDE DEF G, B
  <2> QED
    BY <2>1, <2>2, Zenon
<1>5. Recursive(G, d, F)
  <2> HIDE DEF G
  <2> QED
    BY <1>4 DEF Recursive
<1> HIDE DEF G
<1> QED
  BY <1>2, <1>5

\* So does 2^n ...
LEMMA Pow2Unfolds ==
  Pow2 \in [Nat -> Nat] /\ \A n \in Nat : Pow2[n] = IF n = 0 THEN 1 ELSE 2 * Pow2[n - 1]
<1> DEFINE Twice == [x \in Nat |-> 2 * x]
           Body(f) == [n \in Nat |-> IF n = 0 THEN 1 ELSE 2 * f[n - 1]]
<1>1. Twice \in [Nat -> Nat] /\ 1 \in Nat
  OBVIOUS
<1>2. PICK f \in [Nat -> Nat] : Recursive(f, 1, Twice)
  <2> HIDE DEF Twice, Body
  <2> QED
    BY <1>1, Recursion
<1>3. f = Body(f)
  <2>1. ASSUME NEW n \in Nat, n # 0 PROVE f[n - 1] \in Nat /\ Twice[f[n - 1]] = 2 * f[n - 1]
    <3>1. n - 1 \in Nat
      BY <2>1
    <3> QED
      BY <3>1
  <2>2. \A n \in Nat : f[n] = IF n = 0 THEN 1 ELSE Twice[f[n - 1]]
    BY <1>2 DEF Recursive
  <2>3. \A n \in Nat : f[n] = Body(f)[n]
    <3> HIDE DEF Twice
    <3> QED
      BY <2>1, <2>2
  <2>4. f = [n \in Nat |-> f[n]] /\ Body(f) = [n \in Nat |-> Body(f)[n]]
    OBVIOUS
  <2> HIDE DEF Body
  <2> QED
    BY <2>3, <2>4, Zenon
<1>4. Pow2 = CHOOSE g : g = Body(g)
  BY DEF Pow2
<1>5. Pow2 = Body(Pow2)
  <2> HIDE DEF Body
  <2> QED
    BY <1>3, <1>4, Zenon
<1>6. \A n \in Nat : Pow2[n] = IF n = 0 THEN 1 ELSE 2 * Pow2[n - 1]
  <2> DEFINE P == Pow2
  <2>1. P = Body(P)
    BY <1>5
  <2> HIDE DEF P
  <2>2. \A n \in Nat : P[n] = IF n = 0 THEN 1 ELSE 2 * P[n - 1]
    BY <2>1
  <2> QED
    BY <2>2 DEF P
<1>7. Pow2 \in [Nat -> Nat]
  <2> DEFINE P == Pow2
             S == {n \in Nat : P[n] \in Nat}
  <2>0. P = Body(P) /\ \A n \in Nat : P[n] = IF n = 0 THEN 1 ELSE 2 * P[n - 1]
    BY <1>5, <1>6
  <2> HIDE DEF P
  <2>1. 0 \in S
    BY <2>0
  <2>2. ASSUME NEW n \in Nat, n \in S PROVE n + 1 \in S
    <3>1. P[n + 1] = 2 * P[n]
      <4>1. n + 1 \in Nat /\ n + 1 # 0 /\ (n + 1) - 1 = n
        OBVIOUS
      <4> QED
        BY <2>0, <4>1
    <3> QED
      BY <2>2, <3>1
  <2> HIDE DEF S
  <2>3. Nat \subseteq S
    BY <2>1, <2>2, SetInduction
  <2>4. P = [n \in Nat |-> P[n]]
    <3>1. Body(P) = [n \in Nat |-> Body(P)[n]]
      OBVIOUS
    <3> HIDE DEF Body
    <3> QED
      BY <2>0, <3>1, Zenon
  <2> QED
    BY <2>3, <2>4 DEF P, S
<1> QED
  BY <1>6, <1>7

\* ... and the bitwise operators on numbers of n digits.
LEMMA DigitwiseUnfolds ==
  \A n \in Nat : Digitwise[n] = IF n = 0 THEN OnSigns ELSE OneDigitMore(Digitwise[n - 1])
<1> DEFINE D == [BitOps -> [Int -> [Int -> Int]]]
           F == [h \in D |-> OneDigitMore(h)]
           Body(f) == [n \in Nat |-> IF n = 0 THEN OnSigns ELSE OneDigitMore(f[n - 1])]
<1>1. \A o \in BitOps : \A i, j : BitOp(o, i, j) \in Int
  BY DEF BitOp, BitOps
<1>2. OnSigns \in D
  BY <1>1 DEF OnSigns
<1>3. ASSUME NEW h \in D PROVE OneDigitMore(h) \in D
  <2>1. ASSUME NEW o \in BitOps, NEW a \in Int, NEW b \in Int
        PROVE  BitOp(o, a % 2, b % 2) + 2 * h[o][a \div 2][b \div 2] \in Int
    <3> DEFINE x == a \div 2
               y == b \div 2
               c == BitOp(o, a % 2, b % 2)
    <3>1. x \in Int /\ y \in Int
      OBVIOUS
    <3>2. c \in Int
      BY <1>1
    <3> HIDE DEF x, y, c
    <3>3. h[o][x][y] \in Int
      BY <3>1
    <3>4. c + 2 * h[o][x][y] \in Int
      BY <3>2, <3>3
    <3> QED
      BY <3>4 DEF x, y, c
  <2> QED
    BY <2>1 DEF OneDigitMore
<1> HIDE DEF D
<1>4. F \in [D -> D]
  BY <1>3
<1>6. PICK f \in [Nat -> D] : Recursive(f, OnSigns, F)
  <2> HIDE DEF F, Body
  <2> QED
    BY <1>2, <1>4, Recursion
<1>7. f = Body(f)
  <2>1. ASSUME NEW n \in Nat, n # 0 PROVE F[f[n - 1]] = OneDigitMore(f[n - 1])
    <3>1. n - 1 \in Nat
      BY <2>1
    <3>2. f[n - 1] \in D
      BY <3>1
    <3> QED
      BY <3>2
  <2>2. \A n \in Nat : f[n] = IF n = 0 THEN OnSigns ELSE F[f[n - 1]]
    <3> HIDE DEF F
    <3> QED
      BY <1>6 DEF Recursive
  <2>3. \A n \in Nat : f[n] = Body(f)[n]
    <3> HIDE DEF F
    <3> QED
      BY <2>1, <2>2
  <2>4. f = [n \in Nat |-> f[n]] /\ Body(f) = [n \in Nat |-> Body(f)[n]]
    OBVIOUS
  <2> HIDE DEF Body
  <2> QED
    BY <2>3, <2>4, Zenon
<1>8. Digitwise = CHOOSE g : g = Body(g)
  BY DEF Digitwise
<1>9. Digitwise = Body(Digitwise)
  <2> HIDE DEF Body
  <2> QED
    BY <1>7, <1>8, Zenon
<1> DEFINE H == Digitwise
<1>10. H = Body(H)
  <2> HIDE DEF Body
  <2> QED
    BY <1>9
<1> HIDE DEF H
<1>11. \A n \in Nat : H[n] = IF n = 0 THEN OnSigns ELSE OneDigitMore(H[n - 1])
  BY <1>10
<1> QED
  BY <1>11 DEF H

\* The same for each operator and pair of numbers.
LEMMA DigitwiseStep ==
  \A o \in BitOps, a \in Int, b \in Int :
    /\ Digitwise[0][o][a][b] = -BitOp(o, SignBit(a), SignBit(b))
    /\ \A n \in Nat :
         Digitwise[n + 1][o][a][b] = BitOp(o, a % 2, b % 2) + 2 * Digitwise[n][o][a \div 2][b \div 2]
<1> DEFINE H == Digitwise
<1>1. H[0] = OnSigns
  BY DigitwiseUnfolds
<1>2. ASSUME NEW n \in Nat PROVE H[n + 1] = OneDigitMore(H[n])
  <2>1. n + 1 \in Nat /\ n + 1 # 0 /\ (n + 1) - 1 = n
    OBVIOUS
  <2> QED
    BY <2>1, DigitwiseUnfolds
<1> HIDE DEF H
<1>3. TAKE o \in BitOps, a \in Int, b \in Int
<1>4. H[0][o][a][b] = -BitOp(o, SignBit(a), SignBit(b))
  BY <1>1 DEF OnSigns
<1>5. ASSUME NEW n \in Nat
      PROVE  H[n + 1][o][a][b] = BitOp(o, a % 2, b % 2) + 2 * H[n][o][a \div 2][b \div 2]
  <2> DEFINE h == H[n]
  <2>1. H[n + 1] = OneDigitMore(h)
    BY <1>2
  <2> HIDE DEF h
  <2>2. OneDigitMore(h)[o][a][b] = BitOp(o, a % 2, b % 2) + 2 * h[o][a \div 2][b \div 2]
    BY DEF OneDigitMore
  <2>3. H[n + 1][o][a][b] = BitOp(o, a % 2, b % 2) + 2 * h[o][a \div 2][b \div 2]
    BY <2>1, <2>2
  <2> QED
    BY <2>3 DEF h
<1> QED
  BY <1>4, <1>5 DEF H

-----------------------------------------------------------------------------
(* Powers of two.                                                          *)

\* The powers of two double ...
LEMMA Pow2Step == Pow2[0] = 1 /\ \A n \in Nat : Pow2[n] \in Nat /\ Pow2[n + 1] = 2 * Pow2[n]
<1> DEFINE P == Pow2
<1>1. P \in [Nat -> Nat] /\ \A n \in Nat : P[n] = IF n = 0 THEN 1 ELSE 2 * P[n - 1]
  BY Pow2Unfolds
<1> HIDE DEF P
<1>2. ASSUME NEW n \in Nat PROVE P[n + 1] = 2 * P[n]
  <2>1. n + 1 \in Nat /\ n + 1 # 0 /\ (n + 1) - 1 = n
    OBVIOUS
  <2> QED
    BY <1>1, <2>1
<1>3. P[0] = 1 /\ \A n \in Nat : P[n] \in Nat /\ P[n + 1] = 2 * P[n]
  BY <1>1, <1>2
<1> QED
  BY <1>3 DEF P

\* ... are positive ...
LEMMA Pow2Positive == \A n \in Nat : Pow2[n] \in Nat /\ Pow2[n] >= 1
<1> DEFINE S == {n \in Nat : Pow2[n] >= 1}
<1>1. 0 \in S
  BY Pow2Step
<1>2. ASSUME NEW n \in Nat, n \in S PROVE n + 1 \in S
  BY <1>2, Pow2Step
<1> HIDE DEF S
<1>3. Nat \subseteq S
  BY <1>1, <1>2, SetInduction
<1> QED
  BY <1>3, Pow2Step DEF S

\* ... and grow.
LEMMA Pow2Monotone ==
  ASSUME NEW m \in Nat, NEW n \in Nat, m <= n PROVE Pow2[m] <= Pow2[n]
<1> DEFINE S == {k \in Nat : Pow2[m] <= Pow2[m + k]}
<1>1. 0 \in S
  BY Pow2Step
<1>2. ASSUME NEW k \in Nat, k \in S PROVE k + 1 \in S
  <2>1. m + k \in Nat /\ m + (k + 1) = (m + k) + 1
    OBVIOUS
  <2>2. Pow2[m + (k + 1)] = 2 * Pow2[m + k] /\ Pow2[m + k] \in Nat /\ Pow2[m] \in Nat
    BY <2>1, Pow2Step
  <2>3. Pow2[m] <= Pow2[m + k]
    BY <1>2
  <2> QED
    BY <2>2, <2>3
<1> HIDE DEF S
<1>3. Nat \subseteq S
  BY <1>1, <1>2, SetInduction
<1>4. n - m \in S /\ m + (n - m) = n
  <2>1. n - m \in Nat /\ m + (n - m) = n
    OBVIOUS
  <2> QED
    BY <1>3, <2>1
<1> QED
  BY <1>4 DEF S

\* 2^63 is half of 2^64.
LEMMA HalfIsPower == Bits - 1 \in Nat /\ Pow2[Bits - 1] = Half /\ Half > 1 /\ Half \in Nat
<1>1. Half \in Nat /\ Half > 1
  BY TwiceSmall, TierAssumption
<1>2. Bits # 0
  BY <1>1, Pow2Step, FusionAssumption
<1>3. Bits - 1 \in Nat /\ (Bits - 1) + 1 = Bits
  BY <1>2, FusionAssumption
<1>4. Pow2[Bits] = 2 * Pow2[Bits - 1] /\ Pow2[Bits - 1] \in Nat
  BY <1>3, Pow2Step
<1> QED
  BY <1>1, <1>3, <1>4, FusionAssumption
-----------------------------------------------------------------------------
(* Bitwise operators, digit by digit.                                      *)

\* The operators on one binary digit, and those digits of -1 and 0.
LEMMA BitOpOK ==
  \A o \in BitOps : \A i, j \in {0, 1} :
    /\ BitOp(o, i, j) \in {0, 1}
    /\ BitOp(o, 0, 0) = 0
    /\ BitOp("band", i, j) <= i /\ BitOp("band", i, j) <= j
    /\ BitOp(o, i, j) <= i + j
  BY DEF BitOp, BitOps

\* The lowest digit of an integer and the rest of it.
LEMMA Digits ==
  ASSUME NEW a \in Int
  PROVE  /\ a % 2 \in {0, 1} /\ a \div 2 \in Int /\ a = 2 * (a \div 2) + (a % 2)
         /\ SignBit(a) \in {0, 1}
  BY DEF SignBit

\* Operators on natural numbers give natural numbers: band none above its
\* operands, the others none above the sum.
LEMMA DigitwiseNaturals ==
  ASSUME NEW o \in BitOps
  PROVE  \A n \in Nat : \A a, b \in Nat :
           /\ Digitwise[n][o][a][b] \in Nat
           /\ Digitwise[n][o][a][b] <= a + b
           /\ o = "band" => Digitwise[n][o][a][b] <= a /\ Digitwise[n][o][a][b] <= b
<1> DEFINE H(n, a, b) == Digitwise[n][o][a][b]
           OK(n, a, b) == /\ H(n, a, b) \in Nat /\ H(n, a, b) <= a + b
                          /\ o = "band" => H(n, a, b) <= a /\ H(n, a, b) <= b
           S == {n \in Nat : \A a, b \in Nat : OK(n, a, b)}
<1>0. ASSUME NEW a \in Nat, NEW b \in Nat
      PROVE  /\ H(0, a, b) = -BitOp(o, SignBit(a), SignBit(b))
             /\ \A n \in Nat : H(n + 1, a, b) = BitOp(o, a % 2, b % 2) + 2 * H(n, a \div 2, b \div 2)
  <2>1. a \in Int /\ b \in Int
    OBVIOUS
  <2> QED
    BY <2>1, DigitwiseStep
<1> HIDE DEF H
<1>1. 0 \in S
  <2>1. ASSUME NEW a \in Nat, NEW b \in Nat PROVE OK(0, a, b)
    <3>1. SignBit(a) = 0 /\ SignBit(b) = 0
      BY DEF SignBit
    <3>2. H(0, a, b) = -BitOp(o, 0, 0) /\ BitOp(o, 0, 0) = 0
      BY <1>0, <3>1, BitOpOK
    <3>3. H(0, a, b) = 0
      BY <3>2
    <3> QED
      BY <3>3
  <2> QED
    BY <2>1
<1>2. ASSUME NEW n \in Nat, n \in S PROVE n + 1 \in S
  <2>1. ASSUME NEW a \in Nat, NEW b \in Nat PROVE OK(n + 1, a, b)
    <3> DEFINE x == a \div 2
               y == b \div 2
               i == a % 2
               j == b % 2
               c == BitOp(o, i, j)
    <3>1. x \in Nat /\ y \in Nat /\ i \in {0, 1} /\ j \in {0, 1} /\ a = 2 * x + i /\ b = 2 * y + j
      OBVIOUS
    <3> HIDE DEF x, y, i, j
    <3>2. c \in {0, 1} /\ c <= i + j /\ (o = "band" => c <= i /\ c <= j)
      BY <3>1, BitOpOK
    <3>3. H(n + 1, a, b) = c + 2 * H(n, x, y)
      BY <1>0 DEF x, y, i, j
    <3> HIDE DEF c
    <3>4. OK(n, x, y)
      BY <1>2, <3>1
    <3> QED
      BY <3>1, <3>2, <3>3, <3>4
  <2> QED
    BY <2>1
<1> HIDE DEF S
<1>3. Nat \subseteq S
  BY <1>1, <1>2, SetInduction
<1> QED
  BY <1>3 DEF S, H

\* With enough digits, 0 and -1 are their sign.
LEMMA DigitwiseSigns ==
  ASSUME NEW o \in BitOps
  PROVE  \A n \in Nat : \A a, b \in -1 .. 0 :
           /\ Digitwise[n][o][a][b] = -BitOp(o, SignBit(a), SignBit(b))
           /\ Digitwise[n][o][a][b] \in -1 .. 0
<1> DEFINE H(n, a, b) == Digitwise[n][o][a][b]
           OK(n, a, b) == H(n, a, b) = -BitOp(o, SignBit(a), SignBit(b))
           S == {n \in Nat : \A a, b \in -1 .. 0 : OK(n, a, b)}
<1>0. ASSUME NEW a \in -1 .. 0, NEW b \in -1 .. 0
      PROVE  /\ H(0, a, b) = -BitOp(o, SignBit(a), SignBit(b))
             /\ \A n \in Nat : H(n + 1, a, b) = BitOp(o, a % 2, b % 2) + 2 * H(n, a \div 2, b \div 2)
  <2>1. a \in Int /\ b \in Int
    OBVIOUS
  <2> QED
    BY <2>1, DigitwiseStep
<1> HIDE DEF H
<1>1. 0 \in S
  BY <1>0
<1>2. ASSUME NEW n \in Nat, n \in S PROVE n + 1 \in S
  <2>1. ASSUME NEW a \in -1 .. 0, NEW b \in -1 .. 0 PROVE OK(n + 1, a, b)
    <3>1. a % 2 = SignBit(a) /\ a \div 2 = a /\ b % 2 = SignBit(b) /\ b \div 2 = b
      BY DEF SignBit
    <3> DEFINE c == BitOp(o, SignBit(a), SignBit(b))
    <3>2. H(n + 1, a, b) = c + 2 * H(n, a, b)
      BY <1>0, <3>1
    <3>3. H(n, a, b) = -c
      BY <1>2
    <3>4. c \in {0, 1}
      BY BitOpOK DEF SignBit
    <3> HIDE DEF c
    <3>5. H(n + 1, a, b) = -c
      BY <3>2, <3>3, <3>4
    <3> QED
      BY <3>5 DEF c
  <2> QED
    BY <2>1
<1> HIDE DEF S
<1>3. Nat \subseteq S
  BY <1>1, <1>2, SetInduction
<1>4. ASSUME NEW a \in -1 .. 0, NEW b \in -1 .. 0 PROVE -BitOp(o, SignBit(a), SignBit(b)) \in -1 .. 0
  <2>1. BitOp(o, SignBit(a), SignBit(b)) \in {0, 1}
    BY BitOpOK DEF SignBit
  <2> QED
    BY <2>1
<1> QED
  BY <1>3, <1>4 DEF S, H

\* Operators on numbers of m digits give numbers of m digits.
LEMMA DigitwiseFits ==
  ASSUME NEW o \in BitOps
  PROVE  \A n \in Nat : \A m \in 0 .. n : \A a, b \in -Pow2[m] .. Pow2[m] - 1 :
           Digitwise[n][o][a][b] \in -Pow2[m] .. Pow2[m] - 1
<1> DEFINE H(n, a, b) == Digitwise[n][o][a][b]
           Fits(m, a) == a \in Int /\ -Pow2[m] <= a /\ a < Pow2[m]
           OK(n) == \A m \in 0 .. n : \A a, b \in Int : Fits(m, a) /\ Fits(m, b) => Fits(m, H(n, a, b))
           S == {n \in Nat : OK(n)}
<1>0. ASSUME NEW a \in Int, NEW b \in Int, NEW n \in Nat
      PROVE  H(n + 1, a, b) = BitOp(o, a % 2, b % 2) + 2 * H(n, a \div 2, b \div 2)
  BY DigitwiseStep
<1>1. ASSUME NEW n \in Nat, NEW a \in Int, NEW b \in Int, Fits(0, a), Fits(0, b)
      PROVE  Fits(0, H(n, a, b))
  <2>1. a \in -1 .. 0 /\ b \in -1 .. 0
    BY <1>1, Pow2Step
  <2>2. H(n, a, b) \in -1 .. 0
    BY <2>1, DigitwiseSigns
  <2> HIDE DEF H
  <2> QED
    BY <2>2, Pow2Step
<1> HIDE DEF H
<1>2. 0 \in S
  <2>1. ASSUME NEW m \in 0 .. 0 PROVE m = 0
    OBVIOUS
  <2> HIDE DEF Fits
  <2> QED
    BY <1>1, <2>1
<1>3. ASSUME NEW n \in Nat, n \in S PROVE n + 1 \in S
  <2>1. ASSUME NEW m \in 0 .. n + 1, NEW a \in Int, NEW b \in Int, Fits(m, a), Fits(m, b)
        PROVE  Fits(m, H(n + 1, a, b))
    <3>1. CASE m = 0
      <4> HIDE DEF Fits
      <4> QED
        BY <1>1, <2>1, <3>1
    <3>2. CASE m # 0
      <4> DEFINE k == m - 1
                 p == Pow2[k]
                 x == a \div 2
                 y == b \div 2
                 i == a % 2
                 j == b % 2
                 c == BitOp(o, i, j)
      <4>1. k \in 0 .. n /\ k \in Nat /\ m = k + 1
        BY <3>2
      <4> HIDE DEF k
      <4>2. Pow2[m] = 2 * p /\ p \in Nat
        BY <4>1, Pow2Step
      <4>3. -2 * p <= a /\ a < 2 * p /\ -2 * p <= b /\ b < 2 * p
        BY <2>1, <4>2
      <4>4. x \in Int /\ y \in Int /\ i \in {0, 1} /\ j \in {0, 1} /\ a = 2 * x + i /\ b = 2 * y + j
        OBVIOUS
      <4>5. H(n + 1, a, b) = c + 2 * H(n, x, y)
        BY <1>0
      <4>6. c \in {0, 1}
        BY <4>4, BitOpOK
      <4> HIDE DEF c, i, j, x, y
      <4>7. Fits(k, x) /\ Fits(k, y)
        <5> HIDE DEF p
        <5>1. -p <= x /\ x < p /\ -p <= y /\ y < p
          BY <4>2, <4>3, <4>4
        <5> QED
          BY <4>4, <5>1 DEF p
      <4>8. Fits(k, H(n, x, y))
        <5> HIDE DEF Fits
        <5> QED
          BY <1>3, <4>1, <4>4, <4>7
      <4>9. H(n, x, y) \in Int /\ -p <= H(n, x, y) /\ H(n, x, y) < p
        BY <4>8
      <4> HIDE DEF p
      <4> QED
        BY <4>2, <4>5, <4>6, <4>9
    <3> QED
      BY <3>1, <3>2
  <2> HIDE DEF Fits
  <2> QED
    BY <2>1
<1> HIDE DEF S
<1>4. Nat \subseteq S
  BY <1>2, <1>3, SetInduction
<1>5. ASSUME NEW n \in Nat, NEW m \in 0 .. n, NEW a \in -Pow2[m] .. Pow2[m] - 1, NEW b \in -Pow2[m] .. Pow2[m] - 1
      PROVE  H(n, a, b) \in -Pow2[m] .. Pow2[m] - 1
  <2>0. n \in S
    BY <1>4
  <2>1. Pow2[m] \in Nat /\ OK(n)
    <3>1. OK(n)
      <4> HIDE DEF OK
      <4> QED
        BY <2>0 DEF S
    <3>2. m \in Nat
      OBVIOUS
    <3> QED
      BY <3>1, <3>2, Pow2Step
  <2>2. Fits(m, a) /\ Fits(m, b)
    BY <2>1
  <2>3. Fits(m, H(n, a, b))
    <3>1. a \in Int /\ b \in Int
      BY <2>2
    <3> HIDE DEF Fits
    <3> QED
      BY <2>1, <2>2, <3>1
  <2> QED
    BY <2>1, <2>3
<1> QED
  BY <1>5 DEF H

\* Operators on an integer of any size give an integer.
LEMMA DigitwiseInt ==
  ASSUME NEW o \in BitOps
  PROVE  \A n \in Nat : \A a, b \in Int : Digitwise[n][o][a][b] \in Int
<1> DEFINE H(n, a, b) == Digitwise[n][o][a][b]
           S == {n \in Nat : \A a, b \in Int : H(n, a, b) \in Int}
<1>0. ASSUME NEW a \in Int, NEW b \in Int
      PROVE  /\ H(0, a, b) = -BitOp(o, SignBit(a), SignBit(b))
             /\ \A n \in Nat : H(n + 1, a, b) = BitOp(o, a % 2, b % 2) + 2 * H(n, a \div 2, b \div 2)
  BY DigitwiseStep
<1> HIDE DEF H
<1>1. 0 \in S
  <2>1. ASSUME NEW a \in Int, NEW b \in Int PROVE H(0, a, b) \in Int
    <3> DEFINE c == BitOp(o, SignBit(a), SignBit(b))
    <3>1. c \in {0, 1}
      BY BitOpOK DEF SignBit
    <3>2. H(0, a, b) = -c
      BY <1>0
    <3> HIDE DEF c
    <3> QED
      BY <3>1, <3>2
  <2> QED
    BY <2>1
<1>2. ASSUME NEW n \in Nat, n \in S PROVE n + 1 \in S
  <2>1. ASSUME NEW a \in Int, NEW b \in Int PROVE H(n + 1, a, b) \in Int
    <3> DEFINE c == BitOp(o, a % 2, b % 2)
               h == H(n, a \div 2, b \div 2)
    <3>1. c \in {0, 1}
      <4>1. a % 2 \in {0, 1} /\ b % 2 \in {0, 1}
        OBVIOUS
      <4> QED
        BY <4>1, BitOpOK
    <3>2. h \in Int
      <4>1. a \div 2 \in Int /\ b \div 2 \in Int
        OBVIOUS
      <4> QED
        BY <1>2, <4>1
    <3>3. H(n + 1, a, b) = c + 2 * h
      BY <1>0
    <3> HIDE DEF c, h
    <3> QED
      BY <3>1, <3>2, <3>3
  <2> QED
    BY <2>1
<1> HIDE DEF S
<1>3. Nat \subseteq S
  BY <1>1, <1>2, SetInduction
<1> QED
  BY <1>3 DEF S, H

\* Numbers that differ by a multiple of 2^j in each operand give results that
\* do: the lowest digits of a result depend on those of the operands only.
LEMMA DigitwiseCongruent ==
  ASSUME NEW o \in BitOps
  PROVE  \A n \in Nat : \A j \in 0 .. n : \A a, b, s, t \in Int : \E u \in Int :
           Digitwise[n][o][a + s * Pow2[j]][b + t * Pow2[j]] = Digitwise[n][o][a][b] + u * Pow2[j]
<1> DEFINE H(n, a, b) == Digitwise[n][o][a][b]
           Same(n, j, a, b, s, t) ==
             \E u \in Int : H(n, a + s * Pow2[j], b + t * Pow2[j]) = H(n, a, b) + u * Pow2[j]
           OK(n) == \A j \in 0 .. n : \A a, b, s, t \in Int : Same(n, j, a, b, s, t)
           S == {n \in Nat : OK(n)}
<1>0. ASSUME NEW a \in Int, NEW b \in Int, NEW n \in Nat
      PROVE  H(n + 1, a, b) = BitOp(o, a % 2, b % 2) + 2 * H(n, a \div 2, b \div 2)
  BY DigitwiseStep
<1>1. ASSUME NEW n \in Nat, NEW a \in Int, NEW b \in Int PROVE H(n, a, b) \in Int
  BY DigitwiseInt
<1> HIDE DEF H
<1>2. ASSUME NEW n \in Nat, NEW a \in Int, NEW b \in Int, NEW s \in Int, NEW t \in Int
      PROVE  Same(n, 0, a, b, s, t)
  <2> DEFINE u == H(n, a + s, b + t) - H(n, a, b)
  <2>0. a + s \in Int /\ b + t \in Int
    OBVIOUS
  <2>1. H(n, a + s, b + t) \in Int /\ H(n, a, b) \in Int
    BY <1>1, <2>0
  <2>2. u \in Int /\ H(n, a + s, b + t) = H(n, a, b) + u
    BY <2>1
  <2> HIDE DEF u
  <2>3. s * Pow2[0] = s /\ t * Pow2[0] = t /\ u * Pow2[0] = u
    BY <2>2, Pow2Step
  <2>4. H(n, a + s * Pow2[0], b + t * Pow2[0]) = H(n, a, b) + u * Pow2[0]
    BY <2>2, <2>3
  <2> QED
    BY <2>2, <2>4
<1>3. 0 \in S
  <2>1. ASSUME NEW j \in 0 .. 0 PROVE j = 0
    OBVIOUS
  <2> HIDE DEF Same
  <2> QED
    BY <1>2, <2>1
<1>4. ASSUME NEW n \in Nat, n \in S PROVE n + 1 \in S
  <2>1. ASSUME NEW j \in 0 .. n + 1, NEW a \in Int, NEW b \in Int, NEW s \in Int, NEW t \in Int
        PROVE  Same(n + 1, j, a, b, s, t)
    <3>1. CASE j = 0
      <4> HIDE DEF Same
      <4> QED
        BY <1>2, <3>1
    <3>2. CASE j # 0
      <4> DEFINE k == j - 1
                 p == Pow2[k]
                 x == a \div 2
                 y == b \div 2
                 c == BitOp(o, a % 2, b % 2)
                 sp == s * p
                 tp == t * p
      <4>1. k \in 0 .. n /\ k \in Nat /\ j = k + 1
        BY <3>2
      <4> HIDE DEF k
      <4>2. Pow2[j] = 2 * p /\ p \in Nat
        BY <4>1, Pow2Step
      <4> HIDE DEF p
      <4>3. sp \in Int /\ tp \in Int
        BY <4>2
      <4>4. s * Pow2[j] = 2 * sp /\ t * Pow2[j] = 2 * tp
        BY <4>2
      <4>5. x \in Int /\ y \in Int
        OBVIOUS
      <4> HIDE DEF sp, tp
      <4>6. /\ (a + 2 * sp) % 2 = a % 2 /\ (a + 2 * sp) \div 2 = x + sp
            /\ (b + 2 * tp) % 2 = b % 2 /\ (b + 2 * tp) \div 2 = y + tp
        BY <4>3
      <4>7. H(n + 1, a + 2 * sp, b + 2 * tp) = c + 2 * H(n, x + sp, y + tp)
        <5>1. a + 2 * sp \in Int /\ b + 2 * tp \in Int
          BY <4>3
        <5> HIDE DEF x, y
        <5>2. H(n + 1, a + 2 * sp, b + 2 * tp)
                = BitOp(o, (a + 2 * sp) % 2, (b + 2 * tp) % 2)
                    + 2 * H(n, (a + 2 * sp) \div 2, (b + 2 * tp) \div 2)
          BY <1>0, <5>1
        <5> QED
          BY <4>6, <5>2
      <4>8. H(n + 1, a, b) = c + 2 * H(n, x, y)
        BY <1>0
      <4>9. c \in {0, 1}
        <5>1. a % 2 \in {0, 1} /\ b % 2 \in {0, 1}
          OBVIOUS
        <5> QED
          BY <5>1, BitOpOK
      <4> HIDE DEF c, x, y
      <4>10. PICK u \in Int : H(n, x + sp, y + tp) = H(n, x, y) + u * p
        <5>1. Same(n, k, x, y, s, t)
          <6> HIDE DEF Same
          <6> QED
            BY <1>4, <4>1, <4>5
        <5> QED
          BY <5>1 DEF sp, tp, p
      <4> DEFINE up == u * p
      <4>11. up \in Int /\ u * Pow2[j] = 2 * up
        BY <4>2
      <4>12. H(n, x + sp, y + tp) = H(n, x, y) + up
        BY <4>10
      <4> HIDE DEF up
      <4>13. H(n, x, y) \in Int
        BY <1>1, <4>5
      <4>14. H(n + 1, a + 2 * sp, b + 2 * tp) = H(n + 1, a, b) + 2 * up
        BY <4>7, <4>8, <4>9, <4>11, <4>12, <4>13
      <4>15. H(n + 1, a + s * Pow2[j], b + t * Pow2[j]) = H(n + 1, a, b) + u * Pow2[j]
        BY <4>4, <4>11, <4>14
      <4> QED
        BY <4>15
    <3> QED
      BY <3>1, <3>2
  <2> HIDE DEF Same
  <2> QED
    BY <2>1
<1> HIDE DEF S
<1>5. Nat \subseteq S
  BY <1>3, <1>4, SetInduction
<1>6. ASSUME NEW n \in Nat PROVE OK(n)
  <2>1. n \in S
    BY <1>5
  <2> HIDE DEF OK
  <2> QED
    BY <2>1 DEF S
<1> QED
  BY <1>6 DEF H

-----------------------------------------------------------------------------
(* Congruence modulo 2^64.                                                 *)

Congruent(a, b) == \E k \in Int : a = b + k * Pow64

\* 2^64, twice 2^63.
LEMMA Pow64OK == Pow64 \in Nat /\ Pow64 > 2 /\ Pow64 = Half + Half /\ Pow64 = Pow2[Bits]
  BY HalfIsPower, FusionAssumption DEF Pow64

\* The bits of an integer differ from it by a multiple of 2^64 ...
LEMMA WrapCongruent ==
  ASSUME NEW v \in Int
  PROVE  Wrap(v) \in Int /\ FitsI64(Wrap(v)) /\ Congruent(v, Wrap(v)) /\ Congruent(Wrap(v), v)
<1>1. PICK k \in Int : v = Wrap(v) + k * (2 * Half)
  BY WrapModulo
<1>2. Wrap(v) \in Int /\ FitsI64(Wrap(v))
  BY WrapModulo
<1> DEFINE w == Pow64
           t == k * w
           n == -k
<1>3. v = Wrap(v) + t /\ w \in Int
  BY <1>1, Pow64OK DEF Pow64
<1> HIDE DEF w
<1>4. t \in Int /\ n * w = -t /\ n \in Int
  BY <1>3
<1> HIDE DEF n
<1>5. Wrap(v) = v + n * w
  <2> DEFINE x == Wrap(v)
  <2>1. x \in Int /\ v = x + t /\ t \in Int
    BY <1>2, <1>3, <1>4
  <2> HIDE DEF t, x
  <2>2. x = v + (-t)
    BY <2>1
  <2> QED
    BY <1>4, <2>2 DEF x
<1>6. Congruent(v, Wrap(v)) /\ Congruent(Wrap(v), v)
  BY <1>3, <1>4, <1>5 DEF Congruent, w
<1> QED
  BY <1>2, <1>6

\* No number but 0 is within 2^64 and a multiple of it.
LEMMA NoMultiple ==
  ASSUME NEW k \in Int, -Pow64 < k * Pow64, k * Pow64 < Pow64 PROVE k = 0
<1> DEFINE w == Pow64
           t == k * w
<1>1. w \in Nat /\ w > 0
  BY Pow64OK
<1> HIDE DEF w
<1>2. (k >= 1 => t >= w) /\ (k <= -1 => t <= -w)
  BY <1>1
<1> QED
  BY <1>1, <1>2 DEF w

\* ... and are the same for two integers that differ by one.
LEMMA WrapSame ==
  ASSUME NEW a \in Int, NEW b \in Int, Congruent(a, b) PROVE Wrap(a) = Wrap(b)
<1> DEFINE x == Wrap(a)
           y == Wrap(b)
           w == Pow64
<1>1. x \in Int /\ y \in Int /\ FitsI64(x) /\ FitsI64(y) /\ Congruent(x, a) /\ Congruent(b, y)
  BY WrapCongruent
<1> HIDE DEF x, y
<1>2. PICK k \in Int : x = a + k * w
  BY <1>1 DEF Congruent
<1>3. PICK m \in Int : a = b + m * w
  BY DEF Congruent
<1>4. PICK n \in Int : b = y + n * w
  BY <1>1 DEF Congruent
<1>5. w \in Nat /\ w = Half + Half
  BY Pow64OK
<1> HIDE DEF w
<1> DEFINE q == k + m + n
<1>6. q \in Int /\ q * w = k * w + m * w + n * w /\ k * w \in Int /\ m * w \in Int /\ n * w \in Int
  BY <1>5
<1> HIDE DEF q
<1>7. x = y + q * w
  BY <1>1, <1>2, <1>3, <1>4, <1>6
<1>8. -w < q * w /\ q * w < w
  <2> DEFINE t == q * w
  <2>1. t \in Int /\ x = y + t
    BY <1>5, <1>6, <1>7
  <2> HIDE DEF t
  <2>2. -w < t /\ t < w
    BY <1>1, <1>5, <2>1, TierAssumption DEF FitsI64
  <2> QED
    BY <2>2 DEF t
<1>9. q = 0
  BY <1>6, <1>8, NoMultiple DEF w
<1>10. x = y
  BY <1>1, <1>5, <1>7, <1>9
<1> QED
  BY <1>10 DEF x, y

\* Read without a sign they differ from it by a multiple as well.
LEMMA UnsignedCongruent ==
  ASSUME NEW v \in Int
  PROVE  Unsigned(v) \in Nat /\ Unsigned(v) < Pow64 /\ Congruent(Unsigned(v), v)
<1> DEFINE w == 2 * Half
           m == v % w
           q == v \div w
           n == -q
<1>1. w \in Nat /\ w > 0 /\ w = Pow64
  BY Pow64OK DEF Pow64
<1> HIDE DEF w
<1>2. m \in Int /\ 0 <= m /\ m < w /\ q \in Int /\ v = q * w + m
  BY <1>1
<1> HIDE DEF m, q
<1>3. n \in Int /\ n * w = -(q * w) /\ q * w \in Int
  BY <1>1, <1>2
<1> HIDE DEF n
<1>4. m = v + n * w
  <2> DEFINE t == q * w
  <2>1. t \in Int /\ n * w = -t /\ v = t + m
    BY <1>2, <1>3
  <2> HIDE DEF t
  <2> QED
    BY <1>2, <2>1
<1>5. Unsigned(v) = m
  BY DEF Unsigned, m, w
<1> QED
  <2>1. Congruent(m, v)
    BY <1>1, <1>3, <1>4 DEF Congruent
  <2>2. m \in Nat /\ m < Pow64
    BY <1>1, <1>2
  <2> QED
    BY <1>5, <2>1, <2>2

\* The bits of a 64-bit natural, read without a sign, are the number.
LEMMA UnsignedWrap ==
  ASSUME NEW v \in Int, 0 <= v, v < Pow64 PROVE Unsigned(Wrap(v)) = v
<1> DEFINE x == Wrap(v)
           u == Unsigned(x)
           w == Pow64
<1>1. x \in Int /\ Congruent(x, v)
  BY WrapCongruent
<1> HIDE DEF x
<1>2. u \in Nat /\ u < w /\ Congruent(u, x)
  BY <1>1, UnsignedCongruent
<1> HIDE DEF u
<1>3. PICK k \in Int : x = v + k * w
  BY <1>1 DEF Congruent
<1>4. PICK m \in Int : u = x + m * w
  BY <1>2 DEF Congruent
<1>5. w \in Nat /\ v < w
  BY Pow64OK
<1> HIDE DEF w
<1> DEFINE q == k + m
<1>6. q \in Int /\ q * w = k * w + m * w /\ k * w \in Int /\ m * w \in Int
  BY <1>5
<1> HIDE DEF q
<1>7. u = v + q * w
  BY <1>1, <1>2, <1>3, <1>4, <1>6
<1>8. -w < q * w /\ q * w < w
  <2> DEFINE t == q * w
  <2>1. t \in Int /\ u = v + t
    BY <1>5, <1>6, <1>7
  <2> HIDE DEF t
  <2>2. -w < t /\ t < w
    BY <1>2, <1>5, <2>1
  <2> QED
    BY <2>2 DEF t
<1>9. q = 0
  BY <1>6, <1>8, NoMultiple DEF w
<1>10. u = v
  BY <1>2, <1>5, <1>7, <1>9
<1> QED
  BY <1>10 DEF u, x

\* Sums, ...
LEMMA CongruentSum ==
  ASSUME NEW a \in Int, NEW b \in Int, NEW c \in Int, NEW d \in Int,
         Congruent(a, c), Congruent(b, d)
  PROVE  Congruent(a + b, c + d)
<1> DEFINE w == Pow64
<1>1. w \in Nat
  BY Pow64OK
<1>2. PICK k \in Int : a = c + k * w
  BY DEF Congruent
<1>3. PICK m \in Int : b = d + m * w
  BY DEF Congruent
<1> HIDE DEF w
<1> DEFINE q == k + m
<1>4. q \in Int /\ q * w = k * w + m * w /\ k * w \in Int /\ m * w \in Int
  BY <1>1
<1> HIDE DEF q
<1>5. a + b = (c + d) + q * w
  BY <1>2, <1>3, <1>4
<1> QED
  BY <1>4, <1>5 DEF Congruent, w

\* ... products ...
LEMMA CongruentProduct ==
  ASSUME NEW a \in Int, NEW b \in Int, NEW c \in Int, NEW d \in Int,
         Congruent(a, c), Congruent(b, d)
  PROVE  Congruent(a * b, c * d)
<1> DEFINE w == Pow64
<1>1. w \in Int
  BY Pow64OK
<1>2. PICK k \in Int : a = c + k * w
  BY DEF Congruent
<1>3. PICK m \in Int : b = d + m * w
  BY DEF Congruent
<1> HIDE DEF w
<1> DEFINE q == c * m + k * b
<1>4. q \in Int
  OBVIOUS
<1>5. a * b = c * d + q * w
  <2>1. a * b = c * b + k * w * b
    BY <1>1, <1>2
  <2>2. c * b = c * d + c * (m * w)
    BY <1>1, <1>3
  <2>3. c * (m * w) = (c * m) * w
    BY <1>1
  <2>4. k * w * b = (k * b) * w
    BY <1>1
  <2>5. q * w = (c * m) * w + (k * b) * w
    BY <1>1
  <2>6. (c * m) * w \in Int /\ (k * b) * w \in Int /\ c * d \in Int /\ c * b \in Int
    BY <1>1
  <2> DEFINE g == (c * m) * w
             h == (k * b) * w
             e == c * d
             f == c * b
  <2>7. a * b = f + h /\ f = e + g /\ q * w = g + h /\ g \in Int /\ h \in Int /\ e \in Int /\ f \in Int
    BY <2>1, <2>2, <2>3, <2>4, <2>5, <2>6
  <2> HIDE DEF e, f, g, h, q
  <2>8. a * b = e + q * w
    BY <2>7
  <2> QED
    BY <2>8 DEF e
<1> HIDE DEF q
<1> QED
  BY <1>4, <1>5 DEF Congruent, w

\* ... and what the bitwise operators give are congruent when the operands are.
LEMMA CongruentBitwise ==
  ASSUME NEW o \in BitOps, NEW a \in Int, NEW b \in Int, NEW c \in Int, NEW d \in Int,
         Congruent(a, c), Congruent(b, d)
  PROVE  Congruent(Bitwise(o, a, b), Bitwise(o, c, d))
<1>1. PICK k \in Int : a = c + k * Pow2[Bits]
  BY Pow64OK DEF Congruent
<1>2. PICK m \in Int : b = d + m * Pow2[Bits]
  BY Pow64OK DEF Congruent
<1>3. Bits \in 0 .. Width /\ Width \in Nat
  BY FusionAssumption
<1> DEFINE Same(j, x, y, s, t) ==
             \E u \in Int : Digitwise[Width][o][x + s * Pow2[j]][y + t * Pow2[j]]
                              = Digitwise[Width][o][x][y] + u * Pow2[j]
<1>4. \A j \in 0 .. Width : \A x, y, s, t \in Int : Same(j, x, y, s, t)
  BY <1>3, DigitwiseCongruent
<1>5. Same(Bits, c, d, k, m)
  <2> HIDE DEF Same
  <2> QED
    BY <1>3, <1>4
<1>6. PICK u \in Int :
        Digitwise[Width][o][c + k * Pow2[Bits]][d + m * Pow2[Bits]]
          = Digitwise[Width][o][c][d] + u * Pow2[Bits]
  BY <1>5
<1>7. Bitwise(o, a, b) = Bitwise(o, c, d) + u * Pow64
  BY <1>1, <1>2, <1>6, Pow64OK DEF Bitwise
<1> QED
  BY <1>7 DEF Congruent

-----------------------------------------------------------------------------
(* Erlang's operators, and the unfused code.                               *)

\* An operator on integers gives an integer, ...
LEMMA BitwiseInt ==
  ASSUME NEW o \in BitOps, NEW a \in Int, NEW b \in Int PROVE Bitwise(o, a, b) \in Int
  BY DigitwiseInt, FusionAssumption DEF Bitwise

\* ... on natural numbers a natural number ...
LEMMA BitwiseNatural ==
  ASSUME NEW o \in BitOps, NEW a \in Int, NEW b \in Int, a >= 0, b >= 0
  PROVE  /\ Bitwise(o, a, b) \in Nat /\ Bitwise(o, a, b) <= a + b
         /\ o = "band" => Bitwise(o, a, b) <= a /\ Bitwise(o, a, b) <= b
<1>1. a \in Nat /\ b \in Nat /\ Width \in Nat
  BY FusionAssumption
<1> QED
  BY <1>1, DigitwiseNaturals DEF Bitwise

\* ... on two i64 an i64, so $int_band, $int_bor, $int_bxor need no BigInt ...
LEMMA BitwiseFits ==
  ASSUME NEW o \in BitOps, NEW a \in Int, NEW b \in Int, FitsI64(a), FitsI64(b)
  PROVE  FitsI64(Bitwise(o, a, b))
<1> DEFINE m == Bits - 1
<1>1. m \in 0 .. Width /\ Width \in Nat /\ Pow2[m] = Half /\ Half \in Nat
  BY HalfIsPower, FusionAssumption
<1> HIDE DEF m
<1>2. a \in -Pow2[m] .. Pow2[m] - 1 /\ b \in -Pow2[m] .. Pow2[m] - 1
  BY <1>1 DEF FitsI64
<1>3. Bitwise(o, a, b) \in -Pow2[m] .. Pow2[m] - 1
  BY <1>1, <1>2, DigitwiseFits DEF Bitwise
<1> QED
  BY <1>1, <1>3, BitwiseInt DEF FitsI64

\* ... and on two naturals of 64 bits one of 64 bits.
LEMMA BitwiseBelowPow64 ==
  ASSUME NEW o \in BitOps, NEW a \in Int, NEW b \in Int, a >= 0, a < Pow64, b >= 0, b < Pow64
  PROVE  Bitwise(o, a, b) < Pow64
<1> DEFINE m == Bits
<1>1. m \in 0 .. Width /\ Width \in Nat /\ Pow2[m] = Pow64 /\ Pow64 \in Nat
  BY Pow64OK, FusionAssumption
<1> HIDE DEF m
<1>2. a \in -Pow2[m] .. Pow2[m] - 1 /\ b \in -Pow2[m] .. Pow2[m] - 1
  BY <1>1
<1>3. Bitwise(o, a, b) \in -Pow2[m] .. Pow2[m] - 1
  BY <1>1, <1>2, DigitwiseFits DEF Bitwise
<1> QED
  BY <1>1, <1>3, BitwiseInt

\* So do shifts, either way, ...
LEMMA ShiftRightInt ==
  ASSUME NEW a \in Int, NEW k \in Int PROVE ShiftRight(a, k) \in Int
<1>1. CASE k >= 0
  <2> DEFINE d == Pow2[k]
  <2>1. d \in Nat /\ d >= 1
    BY <1>1, Pow2Positive
  <2> HIDE DEF d
  <2>2. a \div d \in Int
    BY <2>1
  <2> QED
    BY <1>1, <2>2 DEF ShiftRight, d
<1>2. CASE k < 0
  <2>1. -k \in Nat
    BY <1>2
  <2>2. Pow2[-k] \in Int
    BY <2>1, Pow2Positive
  <2> QED
    BY <1>2, <2>2 DEF ShiftRight
<1> QED
  BY <1>1, <1>2

\* ... and all of Erlang's operators.
LEMMA ExactInt ==
  ASSUME NEW o \in Operators, NEW a \in Int, NEW b \in Int, o \in {"rem", "div"} => b # 0
  PROVE  Exact(o, a, b) \in Int
<1>1. CASE o \in {"+", "-", "*"}
  BY <1>1 DEF Exact, BitOps
<1>2. CASE o = "div"
  BY <1>2, QuotientParts DEF Exact, BitOps
<1>3. CASE o = "rem"
  <2>1. Quotient(a, b) \in Int
    BY <1>3, QuotientParts
  <2>2. Remainder(a, b) \in Int
    BY <2>1 DEF Remainder
  <2> QED
    BY <1>3, <2>2 DEF Exact, BitOps
<1>4. CASE o \in BitOps
  BY <1>4, BitwiseInt DEF Exact, BitOps
<1>5. CASE o = "bsl"
  BY <1>5, ShiftRightInt DEF Exact, BitOps
<1>6. CASE o = "bsr"
  BY <1>6, ShiftRightInt DEF Exact, BitOps
<1> QED
  BY <1>1, <1>2, <1>3, <1>4, <1>5, <1>6 DEF Operators, BitOps

\* Every $int_ function takes the terms of two integers to the term of the
\* result (runtime.ex:280-401).
THEOREM OperationsExact ==
  ASSUME NEW o \in Operators, NEW a \in Int, NEW b \in Int, o \in {"rem", "div"} => b # 0
  PROVE  IntOp(o, Term(a), Term(b)) = Term(Exact(o, a, b))
<1> DEFINE x == Term(a)
           y == Term(b)
<1>1. /\ x.v = a /\ (IsI64rep(x) <=> FitsI64(a))
      /\ y.v = b /\ (IsI64rep(y) <=> FitsI64(b))
  BY TermOK
<1>2. CASE o = "+"
  <2>1. IntOp(o, x, y) = IntAdd(x, y) /\ Exact(o, a, b) = a + b
    BY <1>2 DEF IntOp, Exact, BitOps
  <2> QED
    BY <2>1, AdditionExact
<1>3. CASE o = "-"
  <2>1. IntOp(o, x, y) = IntSub(x, y) /\ Exact(o, a, b) = a - b
    BY <1>3 DEF IntOp, Exact, BitOps
  <2> QED
    BY <2>1, SubtractionExact
<1>4. CASE o = "*"
  <2>1. IntOp(o, x, y) = IntMul(x, y) /\ Exact(o, a, b) = a * b
    BY <1>4 DEF IntOp, Exact, BitOps
  <2> QED
    BY <2>1, MultiplicationExact
<1>5. CASE o = "div"
  <2>1. IntOp(o, x, y) = IntDiv(x, y) /\ Exact(o, a, b) = Quotient(a, b)
    BY <1>5 DEF IntOp, Exact, BitOps
  <2> QED
    BY <1>5, <2>1, DivisionExact
<1>6. CASE o = "rem"
  <2>1. IntOp(o, x, y) = IntRem(x, y) /\ Exact(o, a, b) = Remainder(a, b)
    BY <1>6 DEF IntOp, Exact, BitOps
  <2> QED
    BY <1>6, <2>1, DivisionExact
<1> HIDE DEF x, y
<1>7. CASE o \in BitOps
  <2> DEFINE v == Exact(o, a, b)
  <2>1. IntOp(o, x, y) = IntBits(o, x, y) /\ v = Bitwise(o, a, b)
    BY <1>7 DEF IntOp, Exact, BitOps
  <2>2. v \in Int
    BY ExactInt
  <2>3. IntBits(o, x, y) = IF FitsI64(a) /\ FitsI64(b) THEN Narrow(v) ELSE FromBig(v)
    BY <1>1 DEF IntBits
  <2>4. FitsI64(a) /\ FitsI64(b) => FitsI64(v)
    BY <1>7, <2>1, BitwiseFits
  <2> HIDE DEF v
  <2>5. IntOp(o, x, y) = Term(v)
    BY <2>1, <2>2, <2>3, <2>4, NarrowTerm, FromBigTerm
  <2> QED
    BY <2>5 DEF v, x, y
<1>8. CASE o \in {"bsl", "bsr"}
  <2> DEFINE v == Exact(o, a, b)
  <2>1. IntOp(o, x, y) = FromBig(v)
    BY <1>1, <1>8 DEF IntOp, BitOps
  <2>2. v \in Int
    BY ExactInt
  <2> HIDE DEF v
  <2>3. IntOp(o, x, y) = Term(v)
    BY <2>1, <2>2, FromBigTerm
  <2> QED
    BY <2>3 DEF v, x, y
<1> QED
  BY <1>2, <1>3, <1>4, <1>5, <1>6, <1>7, <1>8 DEF Operators, BitOps
-----------------------------------------------------------------------------
(* The bounds of results.                                                  *)

Within(v, b) == b.lo <= v /\ v <= b.hi
AreBounds(b) == b.lo \in Int /\ b.hi \in Int

\* The least and the greatest of two numbers ...
LEMMA Least ==
  ASSUME NEW p \in Int, NEW q \in Int
  PROVE  /\ Min({p, q}) \in {p, q} /\ Min({p, q}) <= p /\ Min({p, q}) <= q
         /\ Max({p, q}) \in {p, q} /\ Max({p, q}) >= p /\ Max({p, q}) >= q
<1>1. \E x \in {p, q} : \A y \in {p, q} : x <= y
  OBVIOUS
<1>2. \E x \in {p, q} : \A y \in {p, q} : x >= y
  OBVIOUS
<1> QED
  BY <1>1, <1>2 DEF Min, Max

\* ... and of four.
LEMMA LeastOfFour ==
  ASSUME NEW p \in Int, NEW q \in Int, NEW r \in Int, NEW s \in Int, NEW S, S = {p, q, r, s}
  PROVE  /\ Min(S) \in Int /\ Min(S) <= p /\ Min(S) <= q /\ Min(S) <= r /\ Min(S) <= s
         /\ Max(S) \in Int /\ Max(S) >= p /\ Max(S) >= q /\ Max(S) >= r /\ Max(S) >= s
<1>1. \E x \in S : \A y \in S : x <= y
  OBVIOUS
<1>2. \E x \in S : \A y \in S : x >= y
  OBVIOUS
<1>3. Min(S) \in S /\ \A y \in S : Min(S) <= y
  BY <1>1 DEF Min
<1>4. Max(S) \in S /\ \A y \in S : Max(S) >= y
  BY <1>2 DEF Max
<1> QED
  BY <1>3, <1>4

\* A product is between products of bounds of its factors.
LEMMA ProductsBetween ==
  ASSUME NEW x \in Int, NEW y \in Int, NEW a \in Int, NEW b \in Int, NEW c \in Int, NEW d \in Int,
         a <= x, x <= b, c <= y, y <= d
  PROVE  /\ a * c <= x * y \/ a * d <= x * y \/ b * c <= x * y \/ b * d <= x * y
         /\ a * c >= x * y \/ a * d >= x * y \/ b * c >= x * y \/ b * d >= x * y
<1>1. \A i, j, k \in Int : i <= j /\ k >= 0 => i * k <= j * k
  <2> TAKE i, j, k \in Int
  <2> HAVE i <= j /\ k >= 0
  <2>1. j * k = i * k + (j - i) * k /\ (j - i) * k >= 0
    OBVIOUS
  <2> QED
    BY <2>1
<1>2. \A i, j, k \in Int : i <= j /\ k <= 0 => i * k >= j * k
  <2> TAKE i, j, k \in Int
  <2> HAVE i <= j /\ k <= 0
  <2>1. j * k = i * k + (j - i) * k /\ (j - i) * k <= 0
    OBVIOUS
  <2> QED
    BY <2>1
<1>3. \A i, j, k \in Int : i <= j /\ k >= 0 => k * i <= k * j
  BY <1>1
<1>4. \A i, j, k \in Int : i <= j /\ k <= 0 => k * i >= k * j
  BY <1>2
<1> DEFINE ac == a * c
           ad == a * d
           bc == b * c
           bd == b * d
           ay == a * y
           by == b * y
           xy == x * y
<1>5. (y >= 0 => ay <= xy /\ xy <= by) /\ (y <= 0 => ay >= xy /\ xy >= by)
  BY <1>1, <1>2
<1>6. (a >= 0 => ac <= ay /\ ay <= ad) /\ (a <= 0 => ac >= ay /\ ay >= ad)
  BY <1>3, <1>4
<1>7. (b >= 0 => bc <= by /\ by <= bd) /\ (b <= 0 => bc >= by /\ by >= bd)
  BY <1>3, <1>4
<1>8. ac \in Int /\ ad \in Int /\ bc \in Int /\ bd \in Int /\ ay \in Int /\ by \in Int /\ xy \in Int
  OBVIOUS
<1> HIDE DEF ac, ad, bc, bd, ay, by, xy
<1>9. (ac <= xy \/ ad <= xy \/ bc <= xy \/ bd <= xy) /\ (ac >= xy \/ ad >= xy \/ bc >= xy \/ bd >= xy)
  BY <1>5, <1>6, <1>7, <1>8
<1> QED
  BY <1>9 DEF ac, ad, bc, bd, xy

\* The bounds of a product hold it.
LEMMA ProductWithin ==
  ASSUME NEW x \in Int, NEW y \in Int, NEW ta, NEW tb, AreBounds(ta), AreBounds(tb),
         Within(x, ta), Within(y, tb)
  PROVE  AreBounds(ProductBounds(ta, tb)) /\ Within(x * y, ProductBounds(ta, tb))
<1> DEFINE a == ta.lo
           b == ta.hi
           c == tb.lo
           d == tb.hi
           S == {i * j : i \in {ta.lo, ta.hi}, j \in {tb.lo, tb.hi}}
           p == a * c
           q == a * d
           r == b * c
           s == b * d
           v == x * y
<1>1. a \in Int /\ b \in Int /\ c \in Int /\ d \in Int /\ a <= x /\ x <= b /\ c <= y /\ y <= d
  BY DEF AreBounds, Within
<1>2. S = {p, q, r, s}
  OBVIOUS
<1>3. ProductBounds(ta, tb) = [lo |-> Min(S), hi |-> Max(S)]
  BY DEF ProductBounds
<1> HIDE DEF a, b, c, d, S
<1>4. p \in Int /\ q \in Int /\ r \in Int /\ s \in Int /\ v \in Int
  BY <1>1
<1>5. /\ p <= v \/ q <= v \/ r <= v \/ s <= v
      /\ p >= v \/ q >= v \/ r >= v \/ s >= v
  BY <1>1, ProductsBetween
<1> HIDE DEF p, q, r, s, v
<1>6. /\ Min(S) \in Int /\ Min(S) <= p /\ Min(S) <= q /\ Min(S) <= r /\ Min(S) <= s
      /\ Max(S) \in Int /\ Max(S) >= p /\ Max(S) >= q /\ Max(S) >= r /\ Max(S) >= s
  BY <1>2, <1>4, LeastOfFour
<1>7. Min(S) <= v /\ v <= Max(S)
  BY <1>4, <1>5, <1>6
<1> QED
  BY <1>3, <1>6, <1>7 DEF AreBounds, Within, v

-----------------------------------------------------------------------------
(* Nodes of a chain.                                                       *)

\* What the domain of a node says of the value that its bits stand for.
NodeOK(v, n) ==
  /\ v \in Int
  /\ \/ n.dom = U64raw /\ v >= 0 /\ n.bits = Wrap(v)
     \/ n.dom = U64 /\ v >= 0 /\ v < Pow64 /\ n.bits = Wrap(v)
     \/ /\ n.dom.dom = "s64" /\ AreBounds(n.dom) /\ FitsS64(n.dom)
        /\ Within(v, n.dom) /\ n.bits = v
     \/ n.dom = No

\* Differences of congruent numbers are congruent; so is a number to itself ...
LEMMA CongruentDifference ==
  ASSUME NEW a \in Int, NEW b \in Int, NEW c \in Int, NEW d \in Int,
         Congruent(a, c), Congruent(b, d)
  PROVE  Congruent(a - b, c - d)
<1> DEFINE w == Pow64
<1>1. w \in Nat
  BY Pow64OK
<1>2. PICK k \in Int : a = c + k * w
  BY DEF Congruent
<1>3. PICK m \in Int : b = d + m * w
  BY DEF Congruent
<1> HIDE DEF w
<1> DEFINE q == k - m
<1>4. q \in Int /\ q * w = k * w - m * w /\ k * w \in Int /\ m * w \in Int
  BY <1>1
<1> HIDE DEF q
<1>5. a - b = (c - d) + q * w
  BY <1>2, <1>3, <1>4
<1> QED
  BY <1>4, <1>5 DEF Congruent, w

\* ... itself, ...
LEMMA CongruentSelf == ASSUME NEW a \in Int PROVE Congruent(a, a)
<1>1. a = a + 0 * Pow64
  BY Pow64OK
<1> QED
  BY <1>1 DEF Congruent

\* ... and to what one congruent to it is congruent to.
LEMMA CongruentTrans ==
  ASSUME NEW a \in Int, NEW b \in Int, NEW c \in Int, Congruent(a, b), Congruent(b, c)
  PROVE  Congruent(a, c)
<1> DEFINE w == Pow64
<1>1. w \in Nat
  BY Pow64OK
<1>2. PICK k \in Int : a = b + k * w
  BY DEF Congruent
<1>3. PICK m \in Int : b = c + m * w
  BY DEF Congruent
<1> HIDE DEF w
<1> DEFINE q == k + m
<1>4. q \in Int /\ q * w = k * w + m * w /\ k * w \in Int /\ m * w \in Int
  BY <1>1
<1> HIDE DEF q
<1>5. a = c + q * w
  BY <1>2, <1>3, <1>4
<1> QED
  BY <1>4, <1>5 DEF Congruent, w

\* The bits of a node and its value differ by a multiple of 2^64; those of a
\* canonical domain are the value.
LEMMA NodeBits ==
  ASSUME NEW v, NEW n, NodeOK(v, n), n.dom # No
  PROVE  /\ v \in Int /\ n.bits \in Int /\ Congruent(n.bits, v)
         /\ Raw(n.dom) \/ NonNeg(n.dom) => v >= 0
         /\ NonNeg(n.dom) => v < Pow64 /\ Unsigned(n.bits) = v
         /\ n.dom.dom = "s64" => /\ AreBounds(n.dom) /\ FitsS64(n.dom) /\ Within(v, n.dom)
                                 /\ n.bits = v
         /\ n.dom.dom # "s64" => n.dom \in {U64raw, U64}
<1>1. v \in Int
  BY DEF NodeOK
<1>2. Half \in Nat /\ Pow64 = Half + Half
  BY Pow64OK, TierAssumption
<1>3. CASE n.dom = U64raw
  BY <1>1, <1>3, WrapCongruent DEF NodeOK, U64raw, U64, No, Raw, NonNeg
<1>4. CASE n.dom = U64
  <2>1. v >= 0 /\ v < Pow64 /\ n.bits = Wrap(v)
    BY <1>4 DEF NodeOK, U64raw, U64, No
  <2>2. Unsigned(Wrap(v)) = v
    BY <1>1, <2>1, UnsignedWrap
  <2> QED
    BY <1>1, <1>4, <2>1, <2>2, WrapCongruent DEF U64raw, U64, No, Raw, NonNeg
<1>5. CASE n.dom.dom = "s64"
  <2>1. AreBounds(n.dom) /\ FitsS64(n.dom) /\ Within(v, n.dom) /\ n.bits = v
    BY <1>5 DEF NodeOK, U64raw, U64, No
  <2>2. Congruent(n.bits, v)
    BY <1>1, <2>1, CongruentSelf
  <2>3. ASSUME n.dom.lo >= 0 PROVE v >= 0 /\ v < Pow64 /\ Unsigned(v) = v
    <3>1. v >= 0 /\ v < Half
      BY <1>1, <1>2, <2>1, <2>3 DEF AreBounds, FitsS64, Within
    <3>2. FitsI64(v) /\ v < Pow64
      BY <1>1, <1>2, <3>1 DEF FitsI64
    <3>3. Wrap(v) = v
      BY <1>1, <3>2, WrapFits
    <3> QED
      BY <1>1, <3>1, <3>2, <3>3, UnsignedWrap
  <2> QED
    BY <1>1, <1>5, <2>1, <2>2, <2>3 DEF Raw, NonNeg
<1> QED
  BY <1>3, <1>4, <1>5 DEF NodeOK

\* Bits congruent to a value within the bounds of a domain make a node of it.
LEMMA RawNode ==
  ASSUME NEW r \in Int, NEW x \in Int, Congruent(x, r), r >= 0
  PROVE  NodeOK(r, NodeOf(U64raw, Wrap(x)))
<1>1. Wrap(x) = Wrap(r)
  BY WrapSame
<1> QED
  BY <1>1 DEF NodeOK, NodeOf

\* A canonical one needs a natural below 2^64, ...
LEMMA U64Node ==
  ASSUME NEW r \in Int, NEW x \in Int, Congruent(x, r), r >= 0, r < Pow64
  PROVE  NodeOK(r, NodeOf(U64, Wrap(x)))
<1>1. Wrap(x) = Wrap(r)
  BY WrapSame
<1> QED
  BY <1>1 DEF NodeOK, NodeOf

\* ... a signed one a number within bounds that an i64 holds.
LEMMA S64Node ==
  ASSUME NEW r \in Int, NEW x \in Int, Congruent(x, r),
         NEW lo \in Int, NEW hi \in Int, -Half <= lo, lo <= r, r <= hi, hi < Half
  PROVE  NodeOK(r, NodeOf(S64(lo, hi), Wrap(x)))
<1>1. Wrap(x) = Wrap(r)
  BY WrapSame
<1>2. FitsI64(r)
  BY TierAssumption DEF FitsI64
<1>3. Wrap(x) = r
  BY <1>1, <1>2, WrapFits
<1> QED
  BY <1>3 DEF NodeOK, NodeOf, S64, AreBounds, FitsS64, Within

\* An i64 instruction on the bits of two nodes gives the bits of the result.
Congruence == {"+", "-", "*"} \cup BitOps

\* So the bits of a result are those of any number congruent to it.
LEMMA WopCongruent ==
  ASSUME NEW o \in Congruence, NEW a \in Int, NEW b \in Int, NEW x \in Int, NEW y \in Int,
         Congruent(x, a), Congruent(y, b)
  PROVE  \E z \in Int : Wop(o, x, y) = Wrap(z) /\ Congruent(z, Exact(o, a, b))
<1>1. CASE o = "+"
  <2>1. Wop(o, x, y) = Wrap(x + y) /\ Exact(o, a, b) = a + b
    BY <1>1 DEF Wop, Exact, BitOps
  <2>2. Congruent(x + y, a + b)
    BY CongruentSum
  <2>3. x + y \in Int
    OBVIOUS
  <2> QED
    BY <2>1, <2>2, <2>3
<1>2. CASE o = "-"
  <2>1. Wop(o, x, y) = Wrap(x - y) /\ Exact(o, a, b) = a - b
    BY <1>2 DEF Wop, Exact, BitOps
  <2>2. Congruent(x - y, a - b)
    BY CongruentDifference
  <2>3. x - y \in Int
    OBVIOUS
  <2> QED
    BY <2>1, <2>2, <2>3
<1>3. CASE o = "*"
  <2>1. Wop(o, x, y) = Wrap(x * y) /\ Exact(o, a, b) = a * b
    BY <1>3 DEF Wop, Exact, BitOps
  <2>2. Congruent(x * y, a * b)
    BY CongruentProduct
  <2>3. x * y \in Int
    OBVIOUS
  <2> QED
    BY <2>1, <2>2, <2>3
<1>4. CASE o \in BitOps
  <2> DEFINE i == Unsigned(x)
             j == Unsigned(y)
  <2>1. i \in Int /\ j \in Int /\ Congruent(i, x) /\ Congruent(j, y)
    BY UnsignedCongruent
  <2>2. Wop(o, x, y) = Wrap(Bitwise(o, i, j)) /\ Exact(o, a, b) = Bitwise(o, a, b)
    BY <1>4 DEF Wop, Exact, BitOps
  <2> HIDE DEF i, j
  <2>3. Congruent(i, a) /\ Congruent(j, b)
    BY <2>1, CongruentTrans
  <2>4. Congruent(Bitwise(o, i, j), Bitwise(o, a, b)) /\ Bitwise(o, i, j) \in Int
    BY <1>4, <2>1, <2>3, CongruentBitwise, BitwiseInt
  <2> QED
    BY <2>2, <2>4
<1> QED
  BY <1>1, <1>2, <1>3, <1>4 DEF Congruence, BitOps

-----------------------------------------------------------------------------
(* Each operation of the lattice is sound.                                 *)

\* A number below its divisor is its own remainder.
LEMMA SmallModulo == ASSUME NEW n \in Nat, NEW d \in Nat, n < d PROVE n % d = n
<1> DEFINE q == n \div d
           t == d * q
           m == n % d
<1>1. d \in Nat \ {0}
  OBVIOUS
<1>2. q \in Nat /\ m \in Nat /\ n = t + m /\ t \in Nat
  BY <1>1, Division
<1> HIDE DEF q, m
<1>3. (q >= 1 => t >= d) /\ (q = 0 => t = 0)
  BY <1>2
<1> HIDE DEF t
<1>4. m = n
  BY <1>2, <1>3
<1> QED
  BY <1>4 DEF m

\* Dividing keeps the order of natural numbers and makes none larger.
LEMMA DividingMonotone ==
  ASSUME NEW n \in Nat, NEW m \in Nat, n <= m, NEW d \in Nat, d >= 1
  PROVE  /\ n \div d \in Nat /\ m \div d \in Nat
         /\ n \div d <= m \div d /\ m \div d <= m
         /\ d >= 2 => 2 * (m \div d) <= m
<1> DEFINE p == n \div d
           q == m \div d
           dp == d * p
           dq == d * q
<1>1. /\ p \in Nat /\ dp \in Nat /\ n % d \in Nat /\ n = dp + (n % d)
      /\ q \in Nat /\ dq \in Nat /\ m % d \in Nat /\ m % d < d /\ m = dq + (m % d)
  BY Division
<1> HIDE DEF p, q
<1>2. p >= q + 1 => dp >= dq + d
  <2> HAVE p >= q + 1
  <2> DEFINE r == p - q - 1
             dr == d * r
  <2>1. r \in Nat /\ p = q + 1 + r
    BY <1>1
  <2> HIDE DEF r
  <2>2. dr >= 0 /\ dr \in Int
    BY <2>1
  <2>3. dp = dq + d + dr
    BY <1>1, <2>1
  <2> HIDE DEF dr, dp, dq
  <2> QED
    BY <1>1, <2>2, <2>3
<1>3. q <= dq /\ (d >= 2 => 2 * q <= dq)
  BY <1>1
<1> HIDE DEF dp, dq
<1>4. p <= q
  <2> DEFINE i == n % d
             j == m % d
  <2>1. i \in Nat /\ j \in Nat /\ j < d /\ n = dp + i /\ m = dq + j
    BY <1>1
  <2> HIDE DEF i, j
  <2> QED
    BY <1>1, <1>2, <2>1
<1>5. dq <= m
  BY <1>1
<1> QED
  BY <1>1, <1>3, <1>4, <1>5 DEF p, q

\* rem of what the lattice knows to be no negative number.
LEMMA RemSound ==
  ASSUME NEW a, NEW b, NEW v, NEW w, NodeOK(v, a), NodeOK(w, b), a.dom # No, b.dom # No,
         RemDomain(a.dom, b.dom) # No
  PROVE  NodeOK(Exact("rem", v, w), NodeOf(RemDomain(a.dom, b.dom), Wop("rem", a.bits, b.bits)))
<1>1. NonNeg(a.dom) /\ b.dom.dom = "s64" /\ b.dom.lo >= 1 /\ RemDomain(a.dom, b.dom) = S64(0, b.dom.hi - 1)
  BY DEF RemDomain
<1>2. v \in Int /\ v >= 0 /\ v < Pow64 /\ Unsigned(a.bits) = v
  BY <1>1, NodeBits
<1>3. w \in Int /\ AreBounds(b.dom) /\ FitsS64(b.dom) /\ Within(w, b.dom) /\ b.bits = w
  BY <1>1, NodeBits
<1> DEFINE h == b.dom.hi
<1>4. w >= 1 /\ w <= h /\ h < Half /\ h \in Int /\ Half \in Nat /\ Pow64 = Half + Half
  BY <1>1, <1>3, Pow64OK, TierAssumption DEF AreBounds, FitsS64, Within
<1>5. Unsigned(w) = w
  <2>1. FitsI64(w) /\ w < Pow64
    BY <1>3, <1>4 DEF FitsI64
  <2> QED
    BY <1>3, <1>4, <2>1, WrapFits, UnsignedWrap
<1> DEFINE r == v % w
           t == w * (v \div w)
<1>6. r \in Nat /\ r < w /\ t \in Nat /\ v = t + r
  BY <1>2, <1>3, <1>4, Division
<1>7. Wop("rem", a.bits, b.bits) = Wrap(r)
  BY <1>2, <1>3, <1>5 DEF Wop
<1>8. Exact("rem", v, w) = r
  <2>1. Exact("rem", v, w) = Remainder(v, w)
    BY DEF Exact, BitOps
  <2>2. Quotient(v, w) = v \div w
    <3>1. (v < 0) = (w < 0) /\ Abs(v) = v /\ Abs(w) = w
      BY <1>2, <1>3, <1>4 DEF Abs
    <3> QED
      BY <3>1 DEF Quotient
  <2>3. Remainder(v, w) = v - t
    BY <2>2 DEF Remainder
  <2> HIDE DEF r, t
  <2> QED
    BY <1>2, <1>6, <2>1, <2>3
<1> HIDE DEF r, h
<1>9. h - 1 \in Int /\ -Half <= 0 /\ 0 <= r /\ r <= h - 1 /\ h - 1 < Half /\ r \in Int
  BY <1>3, <1>4, <1>6
<1>10. NodeOK(r, NodeOf(S64(0, h - 1), Wrap(r)))
  BY <1>9, S64Node, CongruentSelf
<1> QED
  BY <1>1, <1>7, <1>8, <1>10 DEF h

\* bsr by a constant below the width.
LEMMA BsrSound ==
  ASSUME NEW a, NEW b, NEW v, NEW w, NodeOK(v, a), NodeOK(w, b), a.dom # No, b.dom # No,
         BsrDomain(a.dom, b.dom) # No, w < Bits
  PROVE  NodeOK(Exact("bsr", v, w), NodeOf(BsrDomain(a.dom, b.dom), Wop("bsr", a.bits, b.bits)))
<1> DEFINE D == BsrDomain(a.dom, b.dom)
           k == b.dom.lo
           d == Pow2[k]
           lo == a.dom.lo
           hi == a.dom.hi
<1>1. IsConst(b.dom) /\ k >= 0
  <2>1. ASSUME ~(IsConst(b.dom) /\ b.dom.lo >= 0) PROVE BsrDomain(a.dom, b.dom) = No
    BY <2>1 DEF BsrDomain
  <2> QED
    BY <2>1
<1>3. w \in Int /\ w = k /\ b.bits = k
  <2>1. b.dom.dom = "s64" /\ b.dom.lo = b.dom.hi
    BY <1>1 DEF IsConst
  <2>2. w \in Int /\ AreBounds(b.dom) /\ Within(w, b.dom) /\ b.bits = w
    BY <2>1, NodeBits
  <2> QED
    BY <2>1, <2>2 DEF AreBounds, Within
<1>2. \/ a.dom.dom = "s64" /\ lo >= 0 /\ D = S64(lo \div d, hi \div d)
      \/ k >= 1 /\ a.dom = U64 /\ D = S64(0, (Pow64 - 1) \div d)
      \/ k = 0 /\ a.dom = U64 /\ D = U64
  <2>1. D = IF a.dom.dom = "s64" /\ lo >= 0 THEN S64(lo \div d, hi \div d)
            ELSE IF a.dom = U64 THEN IF k = 0 THEN U64 ELSE S64(0, (Pow64 - 1) \div d)
            ELSE No
    BY <1>1 DEF BsrDomain
  <2>2. D # No /\ k \in Int /\ k >= 0
    BY <1>1, <1>3
  <2> HIDE DEF D, k, d, lo, hi
  <2> QED
    BY <2>1, <2>2
<1>4. v \in Int /\ v >= 0 /\ v < Pow64 /\ Unsigned(a.bits) = v
  <2>1. NonNeg(a.dom)
    BY <1>2 DEF NonNeg, U64
  <2> QED
    BY <2>1, NodeBits
<1> HIDE DEF D, k
<1>5. k \in Nat /\ k < Bits /\ Bits \in Nat
  BY <1>1, <1>3, FusionAssumption
<1>6. d \in Nat /\ d >= 1 /\ (k >= 1 => d >= 2) /\ (k = 0 => d = 1)
  <2>1. k >= 1 => Pow2[1] <= Pow2[k]
    BY <1>5, Pow2Monotone
  <2>2. Pow2[1] = 2
    BY Pow2Step
  <2> QED
    BY <1>5, <2>1, <2>2, Pow2Positive, Pow2Step
<1>7. b.bits % Bits = k
  BY <1>3, <1>5, SmallModulo
<1> DEFINE q == v \div d
<1>8. Wop("bsr", a.bits, b.bits) = Wrap(q)
  BY <1>4, <1>7 DEF Wop
<1>9. Exact("bsr", v, w) = q
  BY <1>3, <1>5 DEF Exact, BitOps, ShiftRight
<1> HIDE DEF d
<1>10. q \in Nat /\ q <= v /\ (d >= 2 => 2 * q <= v) /\ (d = 1 => q = v)
  BY <1>4, <1>6, DividingMonotone
<1>11. Half \in Nat /\ Pow64 = Half + Half
  BY Pow64OK, TierAssumption
<1>12. CASE a.dom.dom = "s64" /\ lo >= 0 /\ D = S64(lo \div d, hi \div d)
  <2>1. lo \in Int /\ hi \in Int /\ -Half <= lo /\ hi < Half /\ lo <= v /\ v <= hi
    BY <1>12, NodeBits DEF AreBounds, FitsS64, Within
  <2> DEFINE l == lo \div d
             h == hi \div d
  <2> HIDE DEF lo, hi
  <2>2. lo \in Nat /\ hi \in Nat /\ v \in Nat
    BY <1>4, <1>12, <2>1
  <2>3. l \in Nat /\ l <= q
    BY <1>6, <2>1, <2>2, DividingMonotone
  <2>4. h \in Nat /\ q <= h /\ h <= hi
    BY <1>6, <2>1, <2>2, DividingMonotone
  <2> HIDE DEF l, h, q
  <2>5. -Half <= l /\ h < Half /\ q \in Int /\ l \in Int /\ h \in Int
    BY <1>10, <1>11, <2>1, <2>2, <2>3, <2>4
  <2>6. NodeOK(q, NodeOf(S64(l, h), Wrap(q)))
    BY <2>3, <2>4, <2>5, S64Node, CongruentSelf
  <2> QED
    BY <1>8, <1>9, <1>12, <2>6 DEF D, l, h, lo, hi
<1>13. CASE k >= 1 /\ a.dom = U64 /\ D = S64(0, (Pow64 - 1) \div d)
  <2> DEFINE n == Pow64 - 1
             h == n \div d
  <2>1. n \in Nat /\ v \in Nat /\ v <= n
    BY <1>4, <1>11
  <2> HIDE DEF n
  <2>2. h \in Nat /\ q <= h /\ 2 * h <= n
    BY <1>6, <1>13, <2>1, DividingMonotone
  <2> HIDE DEF h, q
  <2>3. -Half <= 0 /\ h < Half /\ 0 <= q /\ q \in Int /\ h \in Int
    BY <1>10, <1>11, <2>2 DEF n
  <2>4. NodeOK(q, NodeOf(S64(0, h), Wrap(q)))
    BY <2>2, <2>3, S64Node, CongruentSelf
  <2> QED
    BY <1>8, <1>9, <1>13, <2>4 DEF D, h, n
<1>14. CASE k = 0 /\ a.dom = U64 /\ D = U64
  <2> HIDE DEF q
  <2>1. q \in Int /\ q >= 0 /\ q < Pow64
    BY <1>4, <1>6, <1>10, <1>14
  <2>2. NodeOK(q, NodeOf(U64, Wrap(q)))
    BY <2>1, U64Node, CongruentSelf
  <2> QED
    BY <1>8, <1>9, <1>14, <2>2 DEF D
<1> QED
  BY <1>2, <1>12, <1>13, <1>14

\* bsl by what is known to be below the width.
LEMMA BslSound ==
  ASSUME NEW a, NEW b, NEW v, NEW w, NodeOK(v, a), NodeOK(w, b), a.dom # No, b.dom # No,
         BslDomain(a.dom, b.dom) # No
  PROVE  NodeOK(Exact("bsl", v, w), NodeOf(BslDomain(a.dom, b.dom), Wop("bsl", a.bits, b.bits)))
<1> DEFINE D == BslDomain(a.dom, b.dom)
           range == [lo |-> Pow2[b.dom.lo], hi |-> Pow2[b.dom.hi]]
           exact == ProductBounds(a.dom, range)
           p == Pow2[w]
           r == v * p
           x == a.bits * p
<1>1. b.dom.dom = "s64" /\ b.dom.lo >= 0 /\ b.dom.hi < Bits
  <2>1. ASSUME ~(b.dom.dom = "s64" /\ b.dom.lo >= 0 /\ b.dom.hi < Bits) PROVE BslDomain(a.dom, b.dom) = No
    BY <2>1 DEF BslDomain
  <2> QED
    BY <2>1
<1>2. D = IF a.dom.dom # "s64" THEN U64raw
          ELSE IF FitsS64(exact) THEN S64(exact.lo, exact.hi)
          ELSE IF a.dom.lo >= 0 THEN U64raw ELSE No
  BY <1>1 DEF BslDomain
<1>3. v \in Int /\ a.bits \in Int /\ Congruent(a.bits, v) /\ (Raw(a.dom) \/ NonNeg(a.dom) => v >= 0)
  BY NodeBits
<1>4. w \in Int /\ b.bits = w /\ b.dom.lo \in Int /\ b.dom.hi \in Int /\ b.dom.lo <= w /\ w <= b.dom.hi
  BY <1>1, NodeBits DEF AreBounds, Within
<1>5. w \in Nat /\ Bits \in Nat /\ w < Bits /\ b.dom.lo \in Nat /\ b.dom.hi \in Nat
  BY <1>1, <1>4, FusionAssumption
<1>6. p \in Nat /\ p >= 1 /\ Within(p, range) /\ AreBounds(range)
  <2>1. Pow2[b.dom.lo] <= p /\ p <= Pow2[b.dom.hi]
    BY <1>4, <1>5, Pow2Monotone
  <2>2. p \in Nat /\ p >= 1 /\ Pow2[b.dom.lo] \in Int /\ Pow2[b.dom.hi] \in Int
    BY <1>5, Pow2Positive
  <2> HIDE DEF p
  <2> QED
    BY <2>1, <2>2 DEF Within, AreBounds
<1>7. w % Bits = w
  BY <1>5, SmallModulo
<1>8. Wop("bsl", a.bits, b.bits) = Wrap(x)
  BY <1>4, <1>7 DEF Wop
<1>9. Exact("bsl", v, w) = r
  <2>1. Exact("bsl", v, w) = ShiftRight(v, -w)
    BY DEF Exact, BitOps
  <2>2. CASE w = 0
    <3>0. -w = 0
      <4>1. -w = 0 - w
        BY <1>4
      <4>2. 0 - w = 0
        BY <2>2
      <4> QED
        BY <4>1, <4>2
    <3>1. -w = 0 /\ p = 1 /\ Pow2[0] = 1
      <4> HIDE DEF D, range, exact, r, x
      <4> QED
        BY <2>2, <3>0, Pow2Step
    <3>2. ShiftRight(v, -w) = v \div 1
      BY <3>1 DEF ShiftRight
    <3>3. v \div 1 = v /\ v * 1 = v
      BY <1>3
    <3> QED
      BY <2>1, <3>1, <3>2, <3>3
  <2>3. CASE w # 0
    <3>1. ~(-w >= 0) /\ -(-w) = w
      BY <1>5, <2>3
    <3> QED
      BY <2>1, <3>1 DEF ShiftRight
  <2> QED
    BY <2>2, <2>3
<1> HIDE DEF p, range, D
<1>10. x \in Int /\ r \in Int /\ (v >= 0 => r >= 0) /\ Congruent(x, r)
  <2>1. x \in Int /\ r \in Int /\ (v >= 0 => r >= 0)
    BY <1>3, <1>6
  <2>2. Congruent(p, p) /\ p \in Int
    BY <1>6, CongruentSelf
  <2>3. Congruent(a.bits * p, v * p)
    BY <1>3, <2>2, CongruentProduct
  <2> QED
    BY <2>1, <2>3
<1>11. CASE D = U64raw /\ (a.dom.dom # "s64" \/ a.dom.lo >= 0)
  <2>1. v >= 0
    BY <1>3, <1>11, NodeBits DEF Raw, NonNeg, U64raw, U64
  <2>2. NodeOK(r, NodeOf(U64raw, Wrap(x)))
    BY <1>10, <2>1, RawNode
  <2> QED
    BY <1>8, <1>9, <1>11, <2>2 DEF D
<1>12. CASE a.dom.dom = "s64" /\ FitsS64(exact) /\ D = S64(exact.lo, exact.hi)
  <2>1. AreBounds(a.dom) /\ Within(v, a.dom)
    BY <1>12, NodeBits
  <2>2. AreBounds(exact) /\ Within(r, exact)
    BY <1>3, <1>6, <2>1, ProductWithin
  <2> DEFINE l == exact.lo
             h == exact.hi
  <2>3. l \in Int /\ h \in Int /\ -Half <= l /\ l <= r /\ r <= h /\ h < Half
    BY <1>12, <2>2 DEF AreBounds, Within, FitsS64
  <2> HIDE DEF l, h, exact
  <2>4. NodeOK(r, NodeOf(S64(l, h), Wrap(x)))
    BY <1>10, <2>3, S64Node
  <2> QED
    BY <1>8, <1>9, <1>12, <2>4 DEF D, l, h
<1> QED
  BY <1>2, <1>11, <1>12 DEF D

\* band with a constant mask.
LEMMA BandSound ==
  ASSUME NEW a, NEW b, NEW v, NEW w, NodeOK(v, a), NodeOK(w, b), a.dom # No, b.dom # No,
         IsConst(b.dom), b.dom.lo >= 0, BandDomain(a.dom, b.dom.lo) # No
  PROVE  NodeOK(Exact("band", v, w), NodeOf(BandDomain(a.dom, b.dom.lo), Wop("band", a.bits, b.bits)))
<1> DEFINE D == BandDomain(a.dom, b.dom.lo)
           m == b.dom.lo
           r == Exact("band", v, w)
<1>1. /\ v \in Int /\ a.bits \in Int /\ Congruent(a.bits, v)
      /\ Raw(a.dom) \/ NonNeg(a.dom) => v >= 0
  BY NodeBits
<1>2. w \in Int /\ w = m /\ b.bits \in Int /\ Congruent(b.bits, w) /\ m < Half /\ m \in Int
  <2>1. b.dom.dom = "s64" /\ b.dom.lo = b.dom.hi
    BY DEF IsConst
  <2>2. w \in Int /\ AreBounds(b.dom) /\ FitsS64(b.dom) /\ Within(w, b.dom) /\ b.bits = w
    BY <2>1, NodeBits
  <2> QED
    BY <2>1, <2>2, CongruentSelf DEF AreBounds, Within, FitsS64
<1>3. \/ (NonNeg(a.dom) \/ Raw(a.dom)) /\ D = S64(0, m)
      \/ a.dom.dom = "s64" /\ a.dom.lo >= 0 /\ D = S64(0, Min({a.dom.hi, m}))
  BY DEF BandDomain
<1>4. v >= 0
  BY <1>1, <1>3 DEF NonNeg
<1>5. PICK z \in Int : Wop("band", a.bits, b.bits) = Wrap(z) /\ Congruent(z, r)
  BY <1>1, <1>2, WopCongruent DEF Congruence, BitOps
<1>6. r \in Nat /\ r <= v /\ r <= m
  <2>1. "band" \in BitOps /\ r = Bitwise("band", v, w)
    BY DEF BitOps, Exact
  <2> HIDE DEF r, m
  <2>2. w >= 0
    BY <1>2 DEF m
  <2>3. Bitwise("band", v, w) \in Nat /\ Bitwise("band", v, w) <= v /\ Bitwise("band", v, w) <= w
    BY <1>1, <1>2, <1>4, <2>1, <2>2, BitwiseNatural
  <2> QED
    BY <1>2, <2>1, <2>3
<1> HIDE DEF r, D, m
<1>7. Half \in Nat
  BY TierAssumption
<1>8. CASE D = S64(0, m)
  <2>1. NodeOK(r, NodeOf(S64(0, m), Wrap(z)))
    BY <1>2, <1>5, <1>6, <1>7, S64Node
  <2> QED
    BY <1>5, <1>8, <2>1 DEF D, r, m
<1>9. CASE a.dom.dom = "s64" /\ a.dom.lo >= 0 /\ D = S64(0, Min({a.dom.hi, m}))
  <2> DEFINE h == a.dom.hi
             n == Min({h, m})
  <2>1. h \in Int /\ h < Half /\ v <= h
    BY <1>9, NodeBits DEF AreBounds, FitsS64, Within
  <2> HIDE DEF h
  <2>2. n \in {h, m}
    BY <1>2, <2>1, Least
  <2> HIDE DEF n
  <2>3. n \in Int /\ n < Half /\ r <= n /\ 0 <= r /\ -Half <= 0 /\ r \in Int
    BY <1>1, <1>2, <1>6, <1>7, <2>1, <2>2
  <2>4. NodeOK(r, NodeOf(S64(0, n), Wrap(z)))
    BY <1>5, <2>3, S64Node
  <2> QED
    BY <1>5, <1>9, <2>4 DEF D, n, h, r, m
<1> QED
  BY <1>3, <1>8, <1>9

\* The bounds of the lattice hold the result.
LEMMA BoundsHold ==
  ASSUME NEW o \in Congruence, NEW a, NEW b, AreBounds(a), AreBounds(b),
         NEW v \in Int, NEW w \in Int, Within(v, a), Within(w, b), FitsS64(S64Bounds(o, a, b))
  PROVE  AreBounds(S64Bounds(o, a, b)) /\ Within(Exact(o, v, w), S64Bounds(o, a, b))
<1>1. CASE o = "+"
  <2>1. S64Bounds(o, a, b) = [lo |-> a.lo + b.lo, hi |-> a.hi + b.hi] /\ Exact(o, v, w) = v + w
    BY <1>1 DEF S64Bounds, ArithBounds, Exact, BitOps
  <2> QED
    BY <2>1 DEF AreBounds, Within
<1>2. CASE o = "-"
  <2>1. S64Bounds(o, a, b) = [lo |-> a.lo - b.hi, hi |-> a.hi - b.lo] /\ Exact(o, v, w) = v - w
    BY <1>2 DEF S64Bounds, ArithBounds, Exact, BitOps
  <2> QED
    BY <2>1 DEF AreBounds, Within
<1>3. CASE o = "*"
  <2>1. S64Bounds(o, a, b) = ProductBounds(a, b) /\ Exact(o, v, w) = v * w
    BY <1>3 DEF S64Bounds, ArithBounds, Exact, BitOps
  <2> QED
    BY <2>1, ProductWithin
<1>4. CASE o \in BitOps
  <2> DEFINE r == Bitwise(o, v, w)
  <2>1. Exact(o, v, w) = r
    BY <1>4 DEF Exact, BitOps
  <2>2. a.lo >= 0 /\ b.lo >= 0
    <3>1. ASSUME ~(a.lo >= 0 /\ b.lo >= 0) PROVE S64Bounds(o, a, b) = [lo |-> -Half - 1, hi |-> Half]
      BY <1>4, <3>1 DEF S64Bounds, BitOps
    <3>2. ~FitsS64([lo |-> -Half - 1, hi |-> Half])
      BY TierAssumption DEF FitsS64
    <3> QED
      BY <3>1, <3>2
  <2>3. v >= 0 /\ w >= 0 /\ v <= a.hi /\ w <= b.hi /\ a.hi \in Int /\ b.hi \in Int
    BY <2>2 DEF AreBounds, Within
  <2>4. r \in Nat /\ r <= v + w /\ (o = "band" => r <= v /\ r <= w)
    BY <1>4, <2>3, BitwiseNatural
  <2> DEFINE p == a.hi
             q == b.hi
  <2>5. CASE o = "band"
    <3>1. S64Bounds(o, a, b) = [lo |-> 0, hi |-> Min({p, q})]
      BY <2>2, <2>5 DEF S64Bounds
    <3> HIDE DEF r, p, q
    <3>2. Min({p, q}) \in {p, q} /\ p \in Int /\ q \in Int
      BY <2>3, Least DEF p, q
    <3>3. r <= Min({p, q}) /\ Min({p, q}) \in Int
      BY <2>3, <2>4, <2>5, <3>2 DEF p, q
    <3> QED
      BY <2>1, <2>4, <3>1, <3>3 DEF AreBounds, Within
  <2>6. CASE o \in {"bor", "bxor"}
    <3> DEFINE n == Max({p, q})
    <3>1. S64Bounds(o, a, b) = [lo |-> 0, hi |-> 2 * n + 1]
      BY <2>2, <2>6 DEF S64Bounds
    <3> HIDE DEF r
    <3>2. n \in Int /\ n >= p /\ n >= q
      BY <2>3, Least
    <3> HIDE DEF n
    <3>3. r <= 2 * n + 1 /\ 2 * n + 1 \in Int
      BY <2>3, <2>4, <3>2
    <3> QED
      BY <2>1, <2>4, <3>1, <3>3 DEF AreBounds, Within
  <2> QED
    BY <1>4, <2>5, <2>6 DEF BitOps
<1> QED
  BY <1>1, <1>2, <1>3, <1>4 DEF Congruence

\* What the operators but - give on natural numbers is none below 0.
LEMMA ExactNatural ==
  ASSUME NEW o \in Congruence, o # "-", NEW v \in Int, NEW w \in Int, v >= 0, w >= 0
  PROVE  Exact(o, v, w) \in Int /\ Exact(o, v, w) >= 0
<1>1. CASE o = "+"
  BY <1>1 DEF Exact, BitOps
<1>2. CASE o = "*"
  <2>1. Exact(o, v, w) = v * w
    BY <1>2 DEF Exact, BitOps
  <2>2. v * w \in Int /\ v * w >= 0
    OBVIOUS
  <2> QED
    BY <2>1, <2>2
<1>3. CASE o \in BitOps
  <2>1. Exact(o, v, w) = Bitwise(o, v, w)
    BY <1>3 DEF Exact, BitOps
  <2>2. Bitwise(o, v, w) \in Nat
    BY <1>3, BitwiseNatural
  <2> QED
    BY <2>1, <2>2
<1> QED
  BY <1>1, <1>2, <1>3 DEF Congruence

\* The operators that a congruence class keeps, and those on bounds.
LEMMA ArithSound ==
  ASSUME NEW o \in Congruence, NEW a, NEW b, NEW v, NEW w, NodeOK(v, a), NodeOK(w, b),
         a.dom # No, b.dom # No, ArithDomain(o, a.dom, b.dom) # No
  PROVE  NodeOK(Exact(o, v, w), NodeOf(ArithDomain(o, a.dom, b.dom), Wop(o, a.bits, b.bits)))
<1> DEFINE D == ArithDomain(o, a.dom, b.dom)
           bounds == S64Bounds(o, a.dom, b.dom)
           r == Exact(o, v, w)
<1>1. /\ v \in Int /\ a.bits \in Int /\ Congruent(a.bits, v)
      /\ w \in Int /\ b.bits \in Int /\ Congruent(b.bits, w)
      /\ Raw(a.dom) \/ NonNeg(a.dom) => v >= 0
      /\ Raw(b.dom) \/ NonNeg(b.dom) => w >= 0
      /\ NonNeg(a.dom) => v < Pow64
      /\ NonNeg(b.dom) => w < Pow64
  BY NodeBits
<1>2. PICK z \in Int : Wop(o, a.bits, b.bits) = Wrap(z) /\ Congruent(z, r)
  BY <1>1, WopCongruent
<1>3. \/ a.dom.dom = "s64" /\ b.dom.dom = "s64" /\ FitsS64(bounds) /\ D = S64(bounds.lo, bounds.hi)
      \/ /\ D \in {U64raw, U64} /\ o # "-" /\ (Raw(a.dom) \/ NonNeg(a.dom)) /\ (Raw(b.dom) \/ NonNeg(b.dom))
         /\ D = U64 => o = "bxor" /\ NonNeg(a.dom) /\ NonNeg(b.dom)
  <2>1. CASE a.dom.dom = "s64" /\ b.dom.dom = "s64"
    <3>1. D = IF FitsS64(bounds) THEN S64(bounds.lo, bounds.hi)
              ELSE IF o # "-" /\ a.dom.lo >= 0 /\ b.dom.lo >= 0 THEN U64raw ELSE No
      BY <2>1 DEF ArithDomain
    <3>2. a.dom.lo >= 0 => NonNeg(a.dom)
      BY <2>1 DEF NonNeg
    <3>3. b.dom.lo >= 0 => NonNeg(b.dom)
      BY <2>1 DEF NonNeg
    <3>4. U64raw # U64
      BY DEF U64raw, U64
    <3> HIDE DEF D, bounds
    <3> QED
      BY <2>1, <3>1, <3>2, <3>3, <3>4 DEF D
  <2>2. CASE ~(a.dom.dom = "s64" /\ b.dom.dom = "s64")
    <3>1. D = IF o # "-" /\ (Raw(a.dom) \/ NonNeg(a.dom)) /\ (Raw(b.dom) \/ NonNeg(b.dom))
              THEN IF o = "bxor" /\ NonNeg(a.dom) /\ NonNeg(b.dom) THEN U64 ELSE U64raw
              ELSE No
      BY <2>2 DEF ArithDomain, Canonical
    <3>2. U64raw # U64
      BY DEF U64raw, U64
    <3> HIDE DEF D, bounds
    <3> QED
      BY <3>1, <3>2 DEF D
  <2> QED
    BY <2>1, <2>2
<1> HIDE DEF D
<1>4. CASE a.dom.dom = "s64" /\ b.dom.dom = "s64" /\ FitsS64(bounds) /\ D = S64(bounds.lo, bounds.hi)
  <2>1. AreBounds(a.dom) /\ Within(v, a.dom) /\ AreBounds(b.dom) /\ Within(w, b.dom)
    BY <1>4, NodeBits
  <2>2. AreBounds(bounds) /\ Within(r, bounds)
    BY <1>1, <1>4, <2>1, BoundsHold
  <2>3. r \in Int
    BY <1>1, ExactInt DEF Congruence, Operators, BitOps
  <2> DEFINE l == bounds.lo
             h == bounds.hi
  <2> HIDE DEF r
  <2>4. l \in Int /\ h \in Int /\ -Half <= l /\ l <= r /\ r <= h /\ h < Half
    BY <1>4, <2>2 DEF AreBounds, Within, FitsS64
  <2> HIDE DEF l, h, bounds
  <2>5. NodeOK(r, NodeOf(S64(l, h), Wrap(z)))
    BY <1>2, <2>3, <2>4, S64Node
  <2> QED
    BY <1>2, <1>4, <2>5 DEF D, l, h, r
<1>5. CASE D \in {U64raw, U64} /\ o # "-" /\ (Raw(a.dom) \/ NonNeg(a.dom)) /\ (Raw(b.dom) \/ NonNeg(b.dom))
           /\ (D = U64 => o = "bxor" /\ NonNeg(a.dom) /\ NonNeg(b.dom))
  <2>1. v >= 0 /\ w >= 0
    BY <1>1, <1>5
  <2>2. r \in Int /\ r >= 0
    BY <1>1, <1>5, <2>1, ExactNatural
  <2>3. CASE D = U64raw
    <3>1. NodeOK(r, NodeOf(U64raw, Wrap(z)))
      BY <1>2, <2>2, RawNode
    <3> QED
      BY <1>2, <2>3, <3>1 DEF D
  <2>4. CASE D = U64
    <3>1. o = "bxor" /\ v < Pow64 /\ w < Pow64
      BY <1>1, <1>5, <2>4
    <3>2. o \in BitOps /\ r = Bitwise(o, v, w)
      BY <3>1 DEF Exact, BitOps
    <3>3. r < Pow64
      BY <1>1, <2>1, <3>1, <3>2, BitwiseBelowPow64
    <3>4. NodeOK(r, NodeOf(U64, Wrap(z)))
      BY <1>2, <2>2, <3>3, U64Node
    <3> QED
      BY <1>2, <2>4, <3>4 DEF D
  <2> QED
    BY <1>5, <2>3, <2>4
<1> QED
  BY <1>3, <1>4, <1>5

\* What the lattice claims of a result holds of it, whatever the operands that
\* it was told the truth about, if no shift to the right is by the width or more
\* (emit.ex 2010-2147).
THEOREM LatticeSound ==
  ASSUME NEW o \in Operators, NEW a, NEW b, NEW v, NEW w, NodeOK(v, a), NodeOK(w, b),
         a.dom # No, b.dom # No, o = "bsr" => w < Bits, Transition(o, a.dom, b.dom) # No
  PROVE  NodeOK(Exact(o, v, w), NodeOf(Transition(o, a.dom, b.dom), Wop(o, a.bits, b.bits)))
<1> DEFINE T == Transition(o, a.dom, b.dom)
<1>1. o # "div"
  BY DEF Transition
<1>2. CASE o = "rem"
  <2>1. T = RemDomain(a.dom, b.dom)
    BY <1>2 DEF Transition
  <2> QED
    BY <1>2, <2>1, RemSound
<1>3. CASE o = "bsr"
  <2>1. T = BsrDomain(a.dom, b.dom)
    BY <1>3 DEF Transition
  <2> QED
    BY <1>3, <2>1, BsrSound
<1>4. CASE o = "bsl"
  <2>1. T = BslDomain(a.dom, b.dom)
    BY <1>4 DEF Transition
  <2> QED
    BY <1>4, <2>1, BslSound
<1>5. CASE o = "band" /\ IsConst(b.dom) /\ b.dom.lo >= 0
  <2>1. T = BandDomain(a.dom, b.dom.lo)
    BY <1>5 DEF Transition
  <2> QED
    BY <1>5, <2>1, BandSound
<1>6. CASE o \notin {"div", "rem", "bsr", "bsl"} /\ ~(o = "band" /\ IsConst(b.dom) /\ b.dom.lo >= 0)
  <2>1. T = ArithDomain(o, a.dom, b.dom)
    BY <1>6 DEF Transition
  <2>2. o \in Congruence
    BY <1>6 DEF Operators, Congruence, BitOps
  <2> QED
    BY <2>1, <2>2, ArithSound
<1> QED
  BY <1>1, <1>2, <1>3, <1>4, <1>5, <1>6

-----------------------------------------------------------------------------
(* The chain.                                                              *)

\* A register's value is a bounded integer of its type, and its term stands
\* for the value.
RegisterOK(r) ==
  /\ value[r] \in -MaxValue .. MaxValue
  /\ type[r] = Unbounded \/ (type[r] \in Types /\ Within(value[r], type[r]))
  /\ term[r] = Term(value[r])

TermsInv ==
  /\ DOMAIN value = Regs /\ DOMAIN type = Regs /\ DOMAIN term = Regs /\ DOMAIN node = Regs
  /\ \A r \in Regs : RegisterOK(r)

NodesInv == \A r \in Regs : NodeOK(value[r], node[r])

\* An operand: a register or a literal.
OperandOK(x) ==
  x.value \in Int /\ x.term = Term(x.value) /\ (IsBounded(x.type) => Within(x.value, x.type))

\* A type has bounds that an i64 holds, ...
LEMMA TypesAre ==
  ASSUME NEW t \in Types
  PROVE  t.lo \in Int /\ t.hi \in Int /\ t.lo <= t.hi /\ -Half <= t.lo /\ t.hi < Half
<1>1. t \in [lo : -Half .. Half - 1, hi : -Half .. Half - 1] /\ t.lo <= t.hi
  BY FusionAssumption
<1>2. t.lo \in -Half .. Half - 1 /\ t.hi \in -Half .. Half - 1
  BY <1>1
<1> QED
  BY <1>1, <1>2, TierAssumption

\* ... and Unbounded is none.
LEMMA UnboundedIs == ~IsBounded(Unbounded)
  BY DEF IsBounded, Unbounded

\* A register is an operand, inline if its value is an i31.
LEMMA RegisterOperand ==
  ASSUME TermsInv, NEW r \in Regs
  PROVE  /\ OperandOK(Register(r)) /\ Register(r).value = value[r] /\ Register(r).node = node[r]
         /\ Register(r).type = type[r]
         /\ IsBounded(type[r]) => type[r] \in Types
         /\ Register(r).i32 <=> FitsI31(value[r])
<1>1. RegisterOK(r)
  BY DEF TermsInv
<1>2. value[r] \in Int
  BY <1>1, FusionAssumption DEF RegisterOK
<1>3. Register(r).i32 <=> FitsI31(value[r])
  <2>1. Register(r).i32 = IsI31(Term(value[r]))
    BY <1>1 DEF RegisterOK, Register
  <2> QED
    BY <1>2, <2>1, TermOK
<1>4. IsBounded(type[r]) => type[r] \in Types /\ Within(value[r], type[r])
  BY <1>1, UnboundedIs DEF RegisterOK
<1> QED
  BY <1>1, <1>2, <1>3, <1>4 DEF RegisterOK, Register, OperandOK

\* So is a literal, inline if it is an i32.
LEMMA LiteralOperand ==
  ASSUME NEW v \in Int, -Half <= v, v < Half
  PROVE  /\ OperandOK(Literal(v)) /\ Literal(v).value = v
         /\ NodeOK(v, Literal(v).node)
         /\ Literal(v).type = [lo |-> v, hi |-> v]
         /\ Literal(v).i32 <=> -2 * Small <= v /\ v < 2 * Small
<1>1. OperandOK(Literal(v))
  BY DEF Literal, OperandOK, Within
<1>2. NodeOK(v, Literal(v).node)
  BY DEF Literal, NodeOK, NodeOf, S64, AreBounds, FitsS64, Within
<1> QED
  BY <1>1, <1>2 DEF Literal

\* The unfused code of an operation, inline or not, computes the term of the
\* result.
LEMMA UnfusedExact ==
  ASSUME NEW o \in Operators, NEW x, NEW y, OperandOK(x), OperandOK(y),
         o \in {"rem", "div"} => y.value # 0,
         Inlined(o, x.type, y.type) => /\ x.i32 /\ y.i32
                                       /\ AreBounds(x.type) /\ AreBounds(y.type)
  PROVE  Unfused(o, x, y) = Term(Exact(o, x.value, y.value))
<1>1. CASE ~Inlined(o, x.type, y.type)
  <2>1. Unfused(o, x, y) = IntOp(o, Term(x.value), Term(y.value))
    BY <1>1 DEF Unfused, OperandOK
  <2> QED
    BY <2>1, OperationsExact DEF OperandOK
<1>2. CASE Inlined(o, x.type, y.type)
  <2> DEFINE v == x.value
             w == y.value
             a == x.type
             b == y.type
             e == Exact(o, v, w)
             p == ArithBounds(o, a, b)
  <2>1. Unfused(o, x, y) = I31(e)
    BY <1>2 DEF Unfused
  <2>2. v \in Int /\ w \in Int /\ AreBounds(a) /\ AreBounds(b) /\ Within(v, a) /\ Within(w, b)
    BY <1>2 DEF OperandOK, Inlined
  <2>3. o \in {"+", "-", "*"} /\ FitsI31(p.lo) /\ FitsI31(p.hi)
    BY <1>2 DEF Inlined
  <2>4. S64Bounds(o, a, b) = p
    BY <2>3 DEF S64Bounds
  <2>5. AreBounds(p) /\ Within(e, p)
    <3>1. CASE o = "*"
      <4>1. p = ProductBounds(a, b) /\ e = v * w
        BY <3>1 DEF ArithBounds, Exact, BitOps
      <4> QED
        BY <2>2, <4>1, ProductWithin
    <3>2. CASE o = "+"
      <4>1. p = [lo |-> a.lo + b.lo, hi |-> a.hi + b.hi] /\ e = v + w
        BY <3>2 DEF ArithBounds, Exact, BitOps
      <4> QED
        BY <2>2, <4>1 DEF AreBounds, Within
    <3>3. CASE o = "-"
      <4>1. p = [lo |-> a.lo - b.hi, hi |-> a.hi - b.lo] /\ e = v - w
        BY <3>3 DEF ArithBounds, Exact, BitOps
      <4> QED
        BY <2>2, <4>1 DEF AreBounds, Within
    <3> QED
      BY <2>3, <3>1, <3>2, <3>3
  <2>6. e \in Int
    BY <2>2, ExactInt
  <2> HIDE DEF e, p
  <2>7. FitsI31(e)
    BY <2>3, <2>5, <2>6, TierAssumption DEF AreBounds, Within, FitsI31
  <2>8. Term(e) = I31(e)
    BY <2>7 DEF Term
  <2> QED
    BY <2>1, <2>8 DEF e
<1> QED
  BY <1>1, <1>2

\* Inline instructions get operands that they take.
LEMMA InlineRegisters ==
  ASSUME OperandsFit, TermsInv, NEW o \in Operators, NEW a \in Regs, NEW b \in Regs,
         Inlined(o, type[a], type[b])
  PROVE  /\ Register(a).i32 /\ Register(b).i32
         /\ AreBounds(type[a]) /\ AreBounds(type[b])
<1>1. o \in {"+", "-", "*"} /\ IsBounded(type[a]) /\ IsBounded(type[b])
  BY DEF Inlined
<1> DEFINE t == type[a]
           u == type[b]
<1>2. t \in Types /\ u \in Types
  BY <1>1, RegisterOperand
<1>3. Within(value[a], t) /\ Within(value[b], u) /\ value[a] \in Int /\ value[b] \in Int
  BY <1>1, RegisterOperand DEF OperandOK
<1>4. t.lo \in Int /\ t.hi \in Int /\ u.lo \in Int /\ u.hi \in Int
  BY <1>2, TypesAre
<1>5. Inlined(o, t, u)
  OBVIOUS
<1> HIDE DEF t, u
<1>6. FitsI31(t.lo) /\ FitsI31(t.hi) /\ FitsI31(u.lo) /\ FitsI31(u.hi)
  BY <1>1, <1>2, <1>5 DEF OperandsFit
<1>7. FitsI31(value[a]) /\ FitsI31(value[b])
  BY <1>3, <1>4, <1>6, TierAssumption DEF FitsI31, Within
<1> QED
  BY <1>4, <1>7, RegisterOperand DEF AreBounds, t, u

\* The same with a literal.
LEMMA InlineLiteral ==
  ASSUME OperandsFit, TermsInv, NEW o \in Operators, NEW a \in Regs, NEW l \in Literals,
         Inlined(o, type[a], [lo |-> l, hi |-> l])
  PROVE  /\ Register(a).i32 /\ Literal(l).i32
         /\ AreBounds(type[a]) /\ AreBounds([lo |-> l, hi |-> l])
<1>1. o \in {"+", "-", "*"} /\ IsBounded(type[a])
  BY DEF Inlined
<1> DEFINE t == type[a]
<1>2. t \in Types /\ l \in Int /\ -Half <= l /\ l < Half
  BY <1>1, RegisterOperand, FusionAssumption, TierAssumption
<1>3. Within(value[a], t) /\ value[a] \in Int
  BY <1>1, RegisterOperand DEF OperandOK
<1>4. t.lo \in Int /\ t.hi \in Int
  BY <1>2, TypesAre
<1>5. Inlined(o, t, [lo |-> l, hi |-> l])
  OBVIOUS
<1> HIDE DEF t
<1>6. FitsI31(t.lo) /\ FitsI31(t.hi) /\ -2 * Small <= l /\ l < 2 * Small
  BY <1>1, <1>2, <1>5 DEF OperandsFit
<1>7. FitsI31(value[a])
  BY <1>3, <1>4, <1>6, TierAssumption DEF FitsI31, Within
<1> QED
  BY <1>2, <1>4, <1>6, <1>7, RegisterOperand, LiteralOperand DEF AreBounds, t

\* An operation of the chain, and its operands.
LEMMA SetTerms ==
  ASSUME TermsInv, NEW r \in Regs, NEW v \in Int, NEW n, Set(r, v, Term(v), n)
  PROVE  TermsInv'
<1>1. /\ -MaxValue <= v /\ v <= MaxValue
      /\ value' = [value EXCEPT ![r] = v] /\ term' = [term EXCEPT ![r] = Term(v)]
      /\ node' = [node EXCEPT ![r] = n] /\ type' = [type EXCEPT ![r] = Unbounded]
  BY DEF Set
<1>2. DOMAIN value' = Regs /\ DOMAIN type' = Regs /\ DOMAIN term' = Regs /\ DOMAIN node' = Regs
  BY <1>1 DEF TermsInv
<1>3. ASSUME NEW s \in Regs PROVE RegisterOK(s)'
  <2>1. CASE s = r
    <3>1. value'[s] = v /\ type'[s] = Unbounded /\ term'[s] = Term(v)
      BY <1>1, <2>1 DEF TermsInv
    <3>2. v \in -MaxValue .. MaxValue
      BY <1>1, FusionAssumption
    <3> QED
      BY <3>1, <3>2 DEF RegisterOK
  <2>2. CASE s # r
    <3>1. value'[s] = value[s] /\ type'[s] = type[s] /\ term'[s] = term[s]
      BY <1>1, <2>2 DEF TermsInv
    <3> QED
      BY <3>1 DEF RegisterOK, TermsInv
  <2> QED
    BY <2>1, <2>2
<1> QED
  BY <1>2, <1>3 DEF TermsInv

\* ... and the nodes if its own is.
LEMMA SetNodes ==
  ASSUME TermsInv, NodesInv, NEW r \in Regs, NEW v, NEW t, NEW n, NodeOK(v, n), Set(r, v, t, n)
  PROVE  NodesInv'
<1>1. value' = [value EXCEPT ![r] = v] /\ node' = [node EXCEPT ![r] = n]
  BY DEF Set
<1>2. ASSUME NEW s \in Regs PROVE NodeOK(value'[s], node'[s])
  <2>1. CASE s = r
    <3>1. value'[s] = v /\ node'[s] = n
      BY <1>1, <2>1 DEF TermsInv
    <3> QED
      BY <3>1
  <2>2. CASE s # r
    <3>1. value'[s] = value[s] /\ node'[s] = node[s]
      BY <1>1, <2>2 DEF TermsInv
    <3> QED
      BY <3>1 DEF NodesInv
  <2> QED
    BY <2>1, <2>2
<1> QED
  BY <1>2 DEF NodesInv

\* So an operation of the chain keeps the terms right ...
LEMMA ApplyTerms ==
  ASSUME TermsInv, NEW o \in Operators, NEW x, NEW y, NEW r \in Regs, OperandOK(x), OperandOK(y),
         Inlined(o, x.type, y.type) => x.i32 /\ y.i32 /\ AreBounds(x.type) /\ AreBounds(y.type),
         Apply(o, x, y, r)
  PROVE  TermsInv'
<1>1. o \in {"rem", "div"} => y.value # 0
  BY DEF Apply
<1> DEFINE v == Exact(o, x.value, y.value)
<1>2. v \in Int
  BY <1>1, ExactInt DEF OperandOK
<1>3. Unfused(o, x, y) = Term(v)
  BY <1>1, UnfusedExact
<1>4. PICK n : Set(r, v, Unfused(o, x, y), n)
  BY DEF Apply
<1> HIDE DEF v
<1> QED
  BY <1>2, <1>3, <1>4, SetTerms

\* ... and the nodes.
LEMMA ApplyNodes ==
  ASSUME MaxFusedBsr < Bits,
         TermsInv, NodesInv, NEW o \in Operators, NEW x, NEW y, NEW r \in Regs,
         OperandOK(x), OperandOK(y), NodeOK(x.value, x.node), NodeOK(y.value, y.node),
         Apply(o, x, y, r)
  PROVE  NodesInv'
<1> DEFINE v == Exact(o, x.value, y.value)
           d == Fuse(o, x, y)
           n == IF d = No THEN NodeOf(No, 0) ELSE NodeOf(d, Wop(o, x.node.bits, y.node.bits))
<1>1. o \in {"rem", "div"} => y.value # 0
  BY DEF Apply
<1>2. o = "bsr" /\ d # No => y.value <= MaxFusedBsr
  BY DEF Apply
<1>3. Set(r, v, Unfused(o, x, y), n)
  BY DEF Apply
<1>4. v \in Int /\ y.value \in Int
  BY <1>1, ExactInt DEF OperandOK
<1>5. NodeOK(v, n)
  <2>1. CASE d = No
    <3>1. n.dom = No
      BY <2>1 DEF NodeOf
    <3> HIDE DEF n, v
    <3> QED
      BY <1>4, <3>1 DEF NodeOK
  <2>2. CASE d # No
    <3>1. x.node.dom # No /\ y.node.dom # No /\ d = Transition(o, x.node.dom, y.node.dom)
      BY <2>2 DEF Fuse
    <3>2. o = "bsr" => y.value < Bits
      BY <1>2, <1>4, <2>2, FusionAssumption
    <3>3. NodeOK(v, NodeOf(Transition(o, x.node.dom, y.node.dom), Wop(o, x.node.bits, y.node.bits)))
      BY <2>2, <3>1, <3>2, LatticeSound
    <3> QED
      BY <2>2, <3>1, <3>3
  <2> QED
    BY <2>1, <2>2
<1> HIDE DEF v, n
<1> QED
  BY <1>3, <1>5, SetNodes

\* The canonicalizer keeps the bits of a node, which are its result's.
LEMMA CanonicalNode ==
  ASSUME NEW v, NEW n, NodeOK(v, n), n.dom # No, RemPow64(n.dom) # No
  PROVE  /\ v \in Int /\ Exact("rem", v, Pow64) \in Int
         /\ NodeOK(Exact("rem", v, Pow64), NodeOf(U64, n.bits))
<1> DEFINE w == Pow64
           m == v % w
           q == v \div w
<1>1. /\ v \in Int /\ n.bits \in Int /\ Congruent(n.bits, v) /\ v >= 0
  BY NodeBits DEF RemPow64
<1>2. w \in Nat /\ w > 2
  BY Pow64OK
<1>3. v \in Nat /\ m \in Nat /\ m < w /\ w * q \in Nat /\ v = w * q + m /\ q \in Nat
  BY <1>1, <1>2, Division
<1>4. Exact("rem", v, w) = Remainder(v, w)
  BY DEF Exact, BitOps
<1>5. Quotient(v, w) = q
  BY <1>1, <1>2 DEF Quotient, Abs
<1>6. Exact("rem", v, w) = m
  <2> HIDE DEF m, q, w
  <2>1. Remainder(v, w) = v - w * q
    BY <1>5 DEF Remainder
  <2> DEFINE p == w * q
  <2>2. p \in Nat /\ v = p + m /\ Remainder(v, w) = v - p
    BY <1>3, <2>1
  <2> HIDE DEF p
  <2> QED
    BY <1>3, <1>4, <2>2
<1>7. Congruent(v, m)
  <2> HIDE DEF m, q
  <2>1. w * q = q * w
    BY <1>2, <1>3
  <2>2. v = m + q * Pow64
    BY <1>2, <1>3, <2>1
  <2> QED
    BY <1>3, <2>2 DEF Congruent
<1>8. Congruent(n.bits, m)
  BY <1>1, <1>3, <1>7, CongruentTrans
<1>9. n.bits = Wrap(n.bits)
  <2>1. CASE n.dom.dom = "s64"
    <3>1. AreBounds(n.dom) /\ FitsS64(n.dom) /\ Within(v, n.dom) /\ n.bits = v
      BY <2>1, NodeBits
    <3>2. FitsI64(n.bits)
      BY <1>1, <3>1, TierAssumption DEF AreBounds, FitsS64, Within, FitsI64
    <3> QED
      BY <1>1, <3>2, WrapFits
  <2>2. CASE n.dom.dom # "s64"
    <3>1. n.bits = Wrap(v)
      BY <2>2 DEF NodeOK
    <3>2. FitsI64(n.bits)
      BY <1>1, <3>1, WrapCongruent
    <3> QED
      BY <1>1, <3>2, WrapFits
  <2> QED
    BY <2>1, <2>2
<1>10. NodeOK(m, NodeOf(U64, Wrap(n.bits)))
  BY <1>1, <1>3, <1>8, U64Node
<1> QED
  BY <1>1, <1>3, <1>6, <1>9, <1>10

\* The canonicalizer divides by no zero.
LEMMA Pow64Term == Pow64 \in Int /\ Pow64 # 0
  BY Pow64OK

\* No step makes a term wrong, ...
LEMMA TermsStep ==
  ASSUME OperandsFit, TermsInv, [FusionNext]_fusionVars PROVE TermsInv'
<1>1. CASE OnRegisters
  <2>1. PICK o \in Operators, a \in Regs, b \in Regs, r \in Regs : Apply(o, Register(a), Register(b), r)
    BY <1>1 DEF OnRegisters
  <2>2. OperandOK(Register(a)) /\ OperandOK(Register(b))
        /\ Register(a).type = type[a] /\ Register(b).type = type[b]
    BY RegisterOperand
  <2> DEFINE x == Register(a)
             y == Register(b)
  <2>3. Inlined(o, x.type, y.type) => x.i32 /\ y.i32 /\ AreBounds(x.type) /\ AreBounds(y.type)
    BY <2>2, InlineRegisters
  <2>4. OperandOK(x) /\ OperandOK(y) /\ Apply(o, x, y, r)
    BY <2>1, <2>2
  <2> HIDE DEF x, y
  <2> QED
    BY <2>3, <2>4, ApplyTerms
<1>2. CASE OnLiteral
  <2>1. PICK o \in Operators, a \in Regs, r \in Regs, l \in Shifts \cup Literals :
          (o \notin {"bsl", "bsr"} => l \in Literals) /\ Apply(o, Register(a), Literal(l), r)
    BY <1>2 DEF OnLiteral
  <2>2. l \in Int /\ -Half <= l /\ l < Half
    BY FusionAssumption, TierAssumption
  <2>3. /\ OperandOK(Register(a)) /\ OperandOK(Literal(l))
        /\ Register(a).type = type[a] /\ Literal(l).type = [lo |-> l, hi |-> l]
    BY <2>2, RegisterOperand, LiteralOperand
  <2> DEFINE x == Register(a)
             y == Literal(l)
  <2>4. ASSUME Inlined(o, x.type, y.type)
        PROVE  x.i32 /\ y.i32 /\ AreBounds(x.type) /\ AreBounds(y.type)
    <3>1. o \in {"+", "-", "*"}
      BY <2>4 DEF Inlined
    <3>2. l \in Literals
      BY <2>1, <3>1
    <3> QED
      BY <2>3, <2>4, <3>2, InlineLiteral
  <2>5. OperandOK(x) /\ OperandOK(y) /\ Apply(o, x, y, r)
    BY <2>1, <2>3
  <2> HIDE DEF x, y
  <2> QED
    BY <2>4, <2>5, ApplyTerms
<1>3. CASE OnPow64
  <2>1. PICK a \in Regs, r \in Regs :
          Set(r, Exact("rem", value[a], Pow64), IntRem(term[a], Term(Pow64)), NodeOf(U64, node[a].bits))
    BY <1>3 DEF OnPow64
  <2>2. value[a] \in Int /\ term[a] = Term(value[a])
    BY RegisterOperand DEF OperandOK, Register
  <2> DEFINE v == Exact("rem", value[a], Pow64)
             n == NodeOf(U64, node[a].bits)
  <2>3. v = Remainder(value[a], Pow64)
    BY DEF Exact, BitOps
  <2>4. IntRem(term[a], Term(Pow64)) = Term(v)
    BY <2>2, <2>3, Pow64Term, DivisionExact
  <2>5. v \in Int
    BY <2>2, Pow64Term, ExactInt DEF Operators
  <2>6. Set(r, v, Term(v), n)
    BY <2>1, <2>4
  <2> HIDE DEF v, n
  <2> QED
    BY <2>5, <2>6, SetTerms
<1>4. CASE UNCHANGED fusionVars
  BY <1>4 DEF fusionVars, TermsInv, RegisterOK
<1> QED
  BY <1>1, <1>2, <1>3, <1>4 DEF FusionNext

\* ... nor a node.
LEMMA NodesStep ==
  ASSUME MaxFusedBsr < Bits, TermsInv, NodesInv, [FusionNext]_fusionVars PROVE NodesInv'
<1>1. CASE OnRegisters
  <2>1. PICK o \in Operators, a \in Regs, b \in Regs, r \in Regs : Apply(o, Register(a), Register(b), r)
    BY <1>1 DEF OnRegisters
  <2> DEFINE x == Register(a)
             y == Register(b)
  <2>2. /\ OperandOK(x) /\ x.value = value[a] /\ x.node = node[a]
        /\ OperandOK(y) /\ y.value = value[b] /\ y.node = node[b]
    BY RegisterOperand
  <2>3. NodeOK(x.value, x.node) /\ NodeOK(y.value, y.node)
    BY <2>2 DEF NodesInv
  <2>4. Apply(o, x, y, r)
    BY <2>1
  <2> HIDE DEF x, y
  <2> QED
    BY <2>2, <2>3, <2>4, ApplyNodes
<1>2. CASE OnLiteral
  <2>1. PICK o \in Operators, a \in Regs, r \in Regs, l \in Shifts \cup Literals :
          (o \notin {"bsl", "bsr"} => l \in Literals) /\ Apply(o, Register(a), Literal(l), r)
    BY <1>2 DEF OnLiteral
  <2>2. l \in Int /\ -Half <= l /\ l < Half
    BY FusionAssumption, TierAssumption
  <2> DEFINE x == Register(a)
             y == Literal(l)
  <2>3. /\ OperandOK(x) /\ x.value = value[a] /\ x.node = node[a]
        /\ OperandOK(y) /\ y.value = l /\ NodeOK(l, y.node)
    BY <2>2, RegisterOperand, LiteralOperand
  <2>4. NodeOK(x.value, x.node) /\ NodeOK(y.value, y.node)
    BY <2>3 DEF NodesInv
  <2>5. Apply(o, x, y, r)
    BY <2>1
  <2> HIDE DEF x, y
  <2> QED
    BY <2>3, <2>4, <2>5, ApplyNodes
<1>3. CASE OnPow64
  <2>1. PICK a \in Regs, r \in Regs :
          /\ node[a].dom # No /\ RemPow64(node[a].dom) # No
          /\ Set(r, Exact("rem", value[a], Pow64), IntRem(term[a], Term(Pow64)), NodeOf(U64, node[a].bits))
    BY <1>3 DEF OnPow64
  <2> DEFINE v == Exact("rem", value[a], Pow64)
             t == IntRem(term[a], Term(Pow64))
             n == NodeOf(U64, node[a].bits)
  <2>2. NodeOK(value[a], node[a])
    BY DEF NodesInv
  <2>3. NodeOK(v, n)
    BY <2>1, <2>2, CanonicalNode
  <2>4. Set(r, v, t, n)
    BY <2>1
  <2> HIDE DEF v, t, n
  <2> QED
    BY <2>3, <2>4, SetNodes
<1>4. CASE UNCHANGED fusionVars
  BY <1>4 DEF fusionVars, NodesInv
<1> QED
  BY <1>1, <1>2, <1>3, <1>4 DEF FusionNext

\* The inputs of a chain have their terms and nodes.
LEMMA InitHolds == FusionInit => TermsInv /\ NodesInv
<1> SUFFICES ASSUME FusionInit PROVE TermsInv /\ NodesInv
  OBVIOUS
<1>1. /\ type \in [Regs -> Types \cup {Unbounded}] /\ value \in [Regs -> -MaxValue .. MaxValue]
      /\ \A r \in Regs : IF IsBounded(type[r]) THEN type[r].lo <= value[r] /\ value[r] <= type[r].hi
                         ELSE value[r] >= 0
      /\ term = [r \in Regs |-> Term(value[r])]
      /\ node = [r \in Regs |-> InputNode(value[r], type[r])]
  BY DEF FusionInit
<1>2. ASSUME NEW r \in Regs PROVE RegisterOK(r) /\ NodeOK(value[r], node[r])
  <2>1. value[r] \in -MaxValue .. MaxValue /\ value[r] \in Int
    BY <1>1, FusionAssumption
  <2>2. type[r] \in Types \cup {Unbounded} /\ term[r] = Term(value[r])
        /\ node[r] = InputNode(value[r], type[r])
    BY <1>1
  <2>3. type[r] \in Types => IsBounded(type[r])
    BY TypesAre DEF IsBounded
  <2>4. type[r] \in Types => Within(value[r], type[r])
    BY <1>1, <2>3 DEF Within
  <2>5. RegisterOK(r)
    BY <2>1, <2>2, <2>4 DEF RegisterOK
  <2> DEFINE v == value[r]
             t == type[r]
  <2>6. CASE t \in Types
    <3>1. node[r] = NodeOf(S64(t.lo, t.hi), v)
      BY <2>1, <2>2, <2>3, <2>6, TermOK DEF InputNode
    <3>2. t.lo \in Int /\ t.hi \in Int /\ -Half <= t.lo /\ t.hi < Half
      BY <2>6, TypesAre
    <3>3. v \in Int /\ t.lo <= v /\ v <= t.hi
      BY <2>1, <2>4, <2>6 DEF Within
    <3> HIDE DEF v, t
    <3>4. NodeOK(v, NodeOf(S64(t.lo, t.hi), v))
      BY <3>2, <3>3 DEF NodeOK, NodeOf, S64, AreBounds, FitsS64, Within
    <3> QED
      BY <2>5, <3>1, <3>4 DEF v
  <2>7. CASE t = Unbounded
    <3>1. ~IsBounded(t)
      BY <2>7, UnboundedIs
    <3>2. v >= 0 /\ node[r] = NodeOf(U64raw, TermU64Bits(Term(v)))
      BY <1>1, <2>2, <3>1 DEF InputNode
    <3>3. TermU64Bits(Term(v)) = Wrap(v)
      <4>1. Term(v).v = v /\ (IsI64rep(Term(v)) <=> FitsI64(v))
        BY <2>1, TermOK
      <4> QED
        BY <2>1, <4>1, WrapFits DEF TermU64Bits
    <3> HIDE DEF t
    <3>4. NodeOK(v, NodeOf(U64raw, Wrap(v)))
      BY <2>1, <3>2 DEF NodeOK, NodeOf
    <3> QED
      BY <2>5, <3>2, <3>3, <3>4
  <2> QED
    BY <2>2, <2>6, <2>7
<1> QED
  BY <1>1, <1>2 DEF TermsInv, NodesInv

\* What a chain boxes is the term of the value that the node stands for.
LEMMA BoxOfU64 ==
  ASSUME NEW v, NEW n, NodeOK(v, n), n.dom.dom = "u64" PROVE Box(n) = Term(v)
<1>1. n.dom = U64 /\ v \in Int /\ v >= 0 /\ v < Pow64 /\ n.bits = Wrap(v)
  BY DEF NodeOK, U64raw, U64, No
<1>2. Box(n) = NarrowU64(Wrap(v))
  BY <1>1 DEF Box, U64
<1>3. TermU64Bits(Term(v)) = Wrap(v)
  <2>1. Term(v).v = v /\ (IsI64rep(Term(v)) <=> FitsI64(v))
    BY <1>1, TermOK
  <2> QED
    BY <1>1, <2>1, WrapFits DEF TermU64Bits
<1> QED
  BY <1>1, <1>2, <1>3, BitsKeepU64 DEF Pow64

\* The same where the chain knows bounds.
LEMMA BoxOfS64 ==
  ASSUME NEW v, NEW n, NodeOK(v, n), n.dom.dom = "s64" PROVE Box(n) = Term(v)
<1>1. v \in Int /\ AreBounds(n.dom) /\ FitsS64(n.dom) /\ Within(v, n.dom) /\ n.bits = v
  BY DEF NodeOK, U64raw, U64, No
<1>2. CASE FitsI31(n.dom.lo) /\ FitsI31(n.dom.hi)
  <2>1. FitsI31(v)
    BY <1>1, <1>2, TierAssumption DEF FitsI31, Within, AreBounds
  <2> DEFINE m == v + Small
             d == 2 * Small
  <2>2. m \in Nat /\ d \in Nat /\ m < d /\ m - Small = v
    BY <1>1, <2>1, TierAssumption DEF FitsI31
  <2>3. I31Bits(v) = (m % d) - Small
    BY DEF I31Bits
  <2> HIDE DEF m, d
  <2>4. I31Bits(v) = v
    BY <2>2, <2>3, SmallModulo
  <2>5. Box(n) = I31(v)
    BY <1>1, <1>2, <2>4 DEF Box
  <2> QED
    BY <2>1, <2>5 DEF Term
<1>3. CASE ~(FitsI31(n.dom.lo) /\ FitsI31(n.dom.hi))
  <2>1. Box(n) = Narrow(v)
    BY <1>1, <1>3 DEF Box
  <2>2. FitsI64(v)
    BY <1>1, TierAssumption DEF FitsI64, FitsS64, Within, AreBounds
  <2> QED
    BY <1>1, <2>1, <2>2, NarrowTerm
<1> QED
  BY <1>2, <1>3

\* What the invariant says of nodes is what the property does.
LEMMA NodesAgree == TermsInv /\ NodesInv => FusedAgrees
<1> SUFFICES ASSUME TermsInv, NodesInv PROVE FusedAgrees
  OBVIOUS
<1>1. ASSUME NEW r \in Regs
      PROVE  CASE node[r].dom.dom = "u64raw" -> value[r] >= 0 /\ node[r].bits = Wrap(value[r])
               [] node[r].dom.dom = "u64" -> Box(node[r]) = term[r]
               [] node[r].dom.dom = "s64" ->
                      Box(node[r]) = term[r] /\ node[r].dom.lo <= value[r] /\ value[r] <= node[r].dom.hi
               [] OTHER -> TRUE
  <2> DEFINE v == value[r]
             n == node[r]
  <2>1. NodeOK(v, n) /\ term[r] = Term(v)
    BY DEF TermsInv, NodesInv, RegisterOK
  <2>2. n.dom.dom = "u64raw" => v >= 0 /\ n.bits = Wrap(v)
    BY <2>1 DEF NodeOK, U64raw, U64, No
  <2>3. n.dom.dom = "u64" => Box(n) = term[r]
    BY <2>1, BoxOfU64
  <2>4. n.dom.dom = "s64" => Box(n) = term[r] /\ n.dom.lo <= v /\ v <= n.dom.hi
    BY <2>1, BoxOfS64 DEF NodeOK, U64raw, U64, No, Within
  <2> QED
    BY <2>2, <2>3, <2>4
<1> QED
  BY <1>1 DEF FusedAgrees

\* For any tiers, registers, types and operands of the chain every register
\* holds the one term of what Erlang says it holds, provided that no operand of
\* an operation whose result is known to fit an i31 is known to lie beyond it
\* (runtime.ex:280-401, emit.ex:117-145).
THEOREM TermsExact ==
  ASSUME OperandsFit PROVE FusionSpec => []IntegersExact
<1>1. FusionInit => TermsInv
  BY InitHolds
<1>2. TermsInv /\ [FusionNext]_fusionVars => TermsInv'
  BY TermsStep
<1>3. TermsInv => IntegersExact
  BY DEF TermsInv, RegisterOK, IntegersExact
<1> QED
  BY <1>1, <1>2, <1>3, PTL DEF FusionSpec

\* Wherever a chain is cut, its boxed registers are those of the unfused code and
\* the others hold their values modulo 2^64, provided that, besides, it shifts
\* nothing right by the width or more (emit.ex:1866-1872, 2010-2158).
THEOREM ChainSound ==
  ASSUME OperandsFit, MaxFusedBsr < Bits PROVE FusionSpec => []FusedAgrees
<1>1. FusionInit => TermsInv /\ NodesInv
  BY InitHolds
<1>2. TermsInv /\ NodesInv /\ [FusionNext]_fusionVars => (TermsInv /\ NodesInv)'
  BY TermsStep, NodesStep
<1>3. TermsInv /\ NodesInv => FusedAgrees
  BY NodesAgree
<1> QED
  BY <1>1, <1>2, <1>3, PTL DEF FusionSpec
=============================================================================
