--------------------------- MODULE TieredIntegers ---------------------------
(***************************************************************************)
(* Integers of compiled modules: an i31, a boxed i64 or a BigInt of the    *)
(* host, whichever is the first that holds the value (bignum_helpers of    *)
(* codegen/runtime.ex, makeBig of runtime/imports.mjs).                    *)
(***************************************************************************)
EXTENDS Integers

CONSTANTS Small,   \* 2^30: an i31 is in -Small .. Small - 1
          Half     \* 2^63: an i64 is in -Half .. Half - 1

ASSUME TierAssumption == Small \in Nat \ {0} /\ Half \in Nat /\ Small * Small < Half

I31(v) == [tier |-> "i31", v |-> v]
I64(v) == [tier |-> "i64", v |-> v]
Big(v) == [tier |-> "big", v |-> v]
Badarith == [tier |-> "badarith", v |-> 0]   \* an exception

FitsI31(v) == -Small <= v /\ v < Small
FitsI64(v) == -Half <= v /\ v < Half

\* BigInt.asIntN(64), and what an i64 instruction leaves of its result
Wrap(v) == ((v + Half) % (2 * Half)) - Half
\* BigInt.asUintN(64)
Unsigned(v) == v % (2 * Half)

IsI31(x) == x.tier = "i31"
IsI64rep(x) == x.tier \in {"i31", "i64"}

Narrow(v) == IF FitsI31(v) THEN I31(v) ELSE I64(v)
FromBig(v) ==
    CASE FitsI31(v) -> I31(v)
      [] ~FitsI31(v) /\ FitsI64(v) -> I64(Wrap(v))
      [] OTHER -> Big(v)

TermU64Bits(x) == IF IsI64rep(x) THEN x.v ELSE Wrap(x.v)
\* mutant: the pattern taken for a signed number
NarrowU64Signed(v) == Narrow(v)
NarrowU64(v) == IF v >= 0 THEN Narrow(v) ELSE FromBig(Unsigned(v))

Abs(v) == IF v < 0 THEN -v ELSE v
Quotient(a, b) ==
    IF (a < 0) = (b < 0) THEN Abs(a) \div Abs(b) ELSE -(Abs(a) \div Abs(b))
Remainder(a, b) == a - b * Quotient(a, b)

(* Tier 1 is two i31, tier 2 two numbers that an i64 holds, tier 3 the     *)
(* host's.                                                                 *)
Tier1(a, b) == IsI31(a) /\ IsI31(b)
Tier2(a, b) == ~Tier1(a, b) /\ IsI64rep(a) /\ IsI64rep(b)

IntAdd(a, b) ==
    LET r == Wrap(a.v + b.v) IN
    CASE Tier1(a, b) -> Narrow(r)
      [] Tier2(a, b) -> IF (a.v < 0) # (r < 0) /\ (b.v < 0) # (r < 0)
                        THEN FromBig(a.v + b.v) ELSE Narrow(r)
      [] OTHER -> FromBig(a.v + b.v)

IntSub(a, b) ==
    LET r == Wrap(a.v - b.v) IN
    CASE Tier1(a, b) -> Narrow(r)
      [] Tier2(a, b) -> IF (a.v < 0) # (b.v < 0) /\ (a.v < 0) # (r < 0)
                        THEN FromBig(a.v - b.v) ELSE Narrow(r)
      [] OTHER -> FromBig(a.v - b.v)

\* mutant: without the case of -1 times the least i64
MulOverflowsNever1(ia, ib, r) == ia \notin {0, -1} /\ Quotient(r, ia) # ib
MulOverflows(ia, ib, r) ==
    \/ ia = -1 /\ ib = -Half
    \/ ia \notin {0, -1} /\ Quotient(r, ia) # ib

IntMul(a, b) ==
    LET r == Wrap(a.v * b.v) IN
    CASE Tier1(a, b) -> Narrow(r)
      [] Tier2(a, b) -> IF MulOverflows(a.v, b.v, r) THEN FromBig(a.v * b.v) ELSE Narrow(r)
      [] OTHER -> FromBig(a.v * b.v)

IntDiv(a, b) ==
    CASE b = I31(0) -> Badarith
      [] b # I31(0) /\ Tier1(a, b) -> Narrow(Quotient(a.v, b.v))
      [] b # I31(0) /\ Tier2(a, b) ->
            IF b.v = -1 /\ a.v = -Half THEN FromBig(Quotient(a.v, b.v))
            ELSE Narrow(Wrap(Quotient(a.v, b.v)))
      [] OTHER -> FromBig(Quotient(a.v, b.v))

IntRem(a, b) ==
    CASE b = I31(0) -> Badarith
      [] b # I31(0) /\ IsI64rep(a) /\ IsI64rep(b) -> Narrow(Remainder(a.v, b.v))
      [] OTHER -> FromBig(Remainder(a.v, b.v))

(* The one term that stands for an integer.                                *)
Term(v) == CASE FitsI31(v) -> I31(v)
             [] ~FitsI31(v) /\ FitsI64(v) -> I64(v)
             [] OTHER -> Big(v)
=============================================================================
