----------------------------- MODULE ChainFusion -----------------------------
(***************************************************************************)
(* Integer arithmetic of compiled modules, three ways at once: as Erlang   *)
(* means it, as the runtime's $int_ functions or inline i32 instructions   *)
(* compute it (codegen/runtime.ex, codegen/emit.ex), and as a fused chain  *)
(* of raw i64 instructions computes it, which boxes its results only at    *)
(* the end of the chain (codegen/emit.ex, "i64 chain fusion").  A lattice  *)
(* of domains tells what the bits of a node say about its value.           *)
(***************************************************************************)
EXTENDS TieredIntegers, FiniteSets, FiniteSetsExt

CONSTANTS Bits,        \* 64
          Regs,        \* registers
          Types,       \* bounds [lo, hi] a register may carry
          Literals,    \* integer operands of the code
          Shifts,      \* literal shift counts
          MaxOps,      \* bound on the operations of a chain
          MaxValue,    \* bound on the values
          Width,       \* bits that every value can be written in
          MaxShift,    \* bound on the shift counts
          MaxFusedBsr  \* bound on the places that a chain shifts right

Pow2[n \in Nat] == IF n = 0 THEN 1 ELSE 2 * Pow2[n - 1]

ASSUME FusionAssumption ==
    /\ Bits \in Nat /\ Pow2[Bits] = 2 * Half
    /\ Literals \subseteq -Half .. Half - 1
    /\ Types \subseteq [lo : -Half .. Half - 1, hi : -Half .. Half - 1]
    /\ \A t \in Types : t.lo <= t.hi
    /\ Shifts \subseteq -Half .. Half - 1
    /\ MaxOps \in Nat /\ MaxShift \in Nat /\ MaxFusedBsr \in Nat
    /\ MaxValue \in Nat /\ Width \in Nat /\ MaxValue < Pow2[Width] /\ Bits <= Width

VARIABLES value,    \* what Erlang says the register holds
          type,     \* the bounds the compiler knows of it, or Unbounded
          term,     \* the term the unfused code computes
          node,     \* its node in the chain: [dom, lo, hi, bits]
          ops

fusionVars == <<value, type, term, node, ops>>

Pow64 == 2 * Half
Unbounded == [lo |-> 0, hi |-> -1]
Trap == [tier |-> "trap", v |-> 0]

S64(lo, hi) == [dom |-> "s64", lo |-> lo, hi |-> hi]
U64raw == [dom |-> "u64raw", lo |-> 0, hi |-> 0]
U64 == [dom |-> "u64", lo |-> 0, hi |-> 0]
No == [dom |-> "no", lo |-> 0, hi |-> 0]
NodeOf(d, bits) == [dom |-> d, bits |-> bits]

(* Erlang's operators.  Bitwise ones go digit by digit, from the lowest; a *)
(* negative number has ones for ever above its digits.                     *)
BitOps == {"band", "bor", "bxor"}
BitOp(o, i, j) ==
    CASE o = "band" -> IF i = 1 /\ j = 1 THEN 1 ELSE 0
      [] o = "bor" -> IF i = 1 \/ j = 1 THEN 1 ELSE 0
      [] o = "bxor" -> IF i = j THEN 0 ELSE 1
SignBit(a) == IF a < 0 THEN 1 ELSE 0
\* the operators on numbers of no digit but the sign, and, from those on
\* numbers of some digits, on numbers of one more
OnSigns == [o \in BitOps |-> [a \in Int |-> [b \in Int |-> -BitOp(o, SignBit(a), SignBit(b))]]]
OneDigitMore(h) ==
    [o \in BitOps |-> [a \in Int |-> [b \in Int |->
        BitOp(o, a % 2, b % 2) + 2 * h[o][a \div 2][b \div 2]]]]
Digitwise[n \in Nat] == IF n = 0 THEN OnSigns ELSE OneDigitMore(Digitwise[n - 1])
Bitwise(o, a, b) == Digitwise[Width][o][a][b]
ShiftRight(a, k) == IF k >= 0 THEN a \div Pow2[k] ELSE a * Pow2[-k]
Exact(o, a, b) ==
    CASE o = "+" -> a + b
      [] o = "-" -> a - b
      [] o = "*" -> a * b
      [] o = "div" -> Quotient(a, b)
      [] o = "rem" -> Remainder(a, b)
      [] o \in BitOps -> Bitwise(o, a, b)
      [] o = "bsl" -> ShiftRight(a, -b)
      [] o = "bsr" -> ShiftRight(a, b)
-----------------------------------------------------------------------------
(* The unfused code of one operation.                                      *)
IntBits(o, a, b) ==
    IF IsI64rep(a) /\ IsI64rep(b) THEN Narrow(Exact(o, a.v, b.v)) ELSE FromBig(Exact(o, a.v, b.v))

IntOp(o, a, b) ==
    CASE o = "+" -> IntAdd(a, b)
      [] o = "-" -> IntSub(a, b)
      [] o = "*" -> IntMul(a, b)
      [] o = "div" -> IntDiv(a, b)
      [] o = "rem" -> IntRem(a, b)
      [] o \in BitOps -> IntBits(o, a, b)
      [] o \in {"bsl", "bsr"} -> FromBig(Exact(o, a.v, b.v))

IsBounded(t) == t.lo <= t.hi
ProductBounds(ta, tb) ==
    LET corners == {x * y : x \in {ta.lo, ta.hi}, y \in {tb.lo, tb.hi}} IN
    [lo |-> Min(corners), hi |-> Max(corners)]

ArithBounds(o, ta, tb) ==
    CASE o = "+" -> [lo |-> ta.lo + tb.lo, hi |-> ta.hi + tb.hi]
      [] o = "-" -> [lo |-> ta.lo - tb.hi, hi |-> ta.hi - tb.lo]
      [] o = "*" -> ProductBounds(ta, tb)

\* The result is known to fit an i31: an i32 instruction, which takes i31
\* registers and literals of 32 bits.
Inlined(o, ta, tb) ==
    /\ o \in {"+", "-", "*"} /\ IsBounded(ta) /\ IsBounded(tb)
    /\ FitsI31(ArithBounds(o, ta, tb).lo) /\ FitsI31(ArithBounds(o, ta, tb).hi)

\* No operand of such an instruction is known to lie beyond what it takes.
OperandsFit ==
    \A o \in {"+", "-", "*"}, t \in Types :
        /\ \A u \in Types : Inlined(o, t, u) =>
               FitsI31(t.lo) /\ FitsI31(t.hi) /\ FitsI31(u.lo) /\ FitsI31(u.hi)
        /\ \A l \in Literals : Inlined(o, t, [lo |-> l, hi |-> l]) =>
               FitsI31(t.lo) /\ FitsI31(t.hi) /\ -2 * Small <= l /\ l < 2 * Small

Unfused(o, x, y) ==
    IF ~Inlined(o, x.type, y.type) THEN IntOp(o, x.term, y.term)
    ELSE IF x.i32 /\ y.i32 THEN I31(Exact(o, x.value, y.value)) ELSE Trap
-----------------------------------------------------------------------------
(* The lattice: the domain of a result from those of the operands.         *)
NonNeg(d) == (d.dom = "s64" /\ d.lo >= 0) \/ d.dom = "u64"
Canonical(d) == NonNeg(d)
Raw(d) == d.dom \in {"u64raw", "u64"}
FitsS64(b) == -Half <= b.lo /\ b.hi < Half
LowMask(m) == m > 0 /\ Bitwise("band", m, m + 1) = 0
IsConst(d) == d.dom = "s64" /\ d.lo = d.hi

S64Bounds(o, a, b) ==
    CASE o \in {"+", "-", "*"} -> ArithBounds(o, a, b)
      [] o = "band" /\ a.lo >= 0 /\ b.lo >= 0 -> [lo |-> 0, hi |-> Min({a.hi, b.hi})]
      [] o \in {"bor", "bxor"} /\ a.lo >= 0 /\ b.lo >= 0 -> [lo |-> 0, hi |-> 2 * Max({a.hi, b.hi}) + 1]
      [] OTHER -> [lo |-> -Half - 1, hi |-> Half]

RemPow64(a) == IF NonNeg(a) \/ Raw(a) THEN U64 ELSE No

RemDomain(a, b) ==
    IF NonNeg(a) /\ b.dom = "s64" /\ b.lo >= 1 THEN S64(0, b.hi - 1) ELSE No

\* mutant: a congruence class is shifted like a value
BsrDomainRaw(a, b) ==
    IF ~(IsConst(b) /\ b.lo >= 0) THEN No
    ELSE IF a.dom = "s64" /\ a.lo >= 0 THEN S64(a.lo \div Pow2[b.lo], a.hi \div Pow2[b.lo])
    ELSE IF Raw(a) THEN IF b.lo = 0 THEN a ELSE S64(0, (Pow64 - 1) \div Pow2[b.lo])
    ELSE No
BsrDomain(a, b) ==
    IF ~(IsConst(b) /\ b.lo >= 0) THEN No
    ELSE IF a.dom = "s64" /\ a.lo >= 0 THEN S64(a.lo \div Pow2[b.lo], a.hi \div Pow2[b.lo])
    ELSE IF a = U64 THEN IF b.lo = 0 THEN U64 ELSE S64(0, (Pow64 - 1) \div Pow2[b.lo])
    ELSE No

BslDomain(a, b) ==
    LET exact == ProductBounds(a, [lo |-> Pow2[b.lo], hi |-> Pow2[b.hi]]) IN
    CASE ~(b.dom = "s64" /\ b.lo >= 0 /\ b.hi < Bits) -> No
      [] b.dom = "s64" /\ b.lo >= 0 /\ b.hi < Bits /\ a.dom = "s64" ->
            IF FitsS64(exact) THEN S64(exact.lo, exact.hi) ELSE IF a.lo >= 0 THEN U64raw ELSE No
      [] OTHER -> U64raw

BandDomain(a, m) ==
    IF LowMask(m) /\ (NonNeg(a) \/ Raw(a)) THEN S64(0, m)
    ELSE IF a.dom = "s64" /\ a.lo >= 0 THEN S64(0, Min({a.hi, m})) ELSE No

ArithDomain(o, a, b) ==
    LET bounds == S64Bounds(o, a, b) IN
    CASE a.dom = "s64" /\ b.dom = "s64" ->
            IF FitsS64(bounds) THEN S64(bounds.lo, bounds.hi)
            ELSE IF o # "-" /\ a.lo >= 0 /\ b.lo >= 0 THEN U64raw ELSE No
      [] ~(a.dom = "s64" /\ b.dom = "s64") ->
            IF o # "-" /\ (Raw(a) \/ NonNeg(a)) /\ (Raw(b) \/ NonNeg(b))
            THEN IF o = "bxor" /\ Canonical(a) /\ Canonical(b) THEN U64 ELSE U64raw
            ELSE No

Transition(o, a, b) ==
    CASE o = "div" -> No
      [] o = "rem" -> RemDomain(a, b)
      [] o = "bsr" -> BsrDomain(a, b)
      [] o = "bsl" -> BslDomain(a, b)
      [] o = "band" /\ IsConst(b) /\ b.lo >= 0 -> BandDomain(a, b.lo)
      [] OTHER -> ArithDomain(o, a, b)

(* The i64 instruction of an operation, on bits held as a signed number.   *)
Wop(o, x, y) ==
    CASE o \in {"+", "-", "*"} -> Wrap(Exact(o, x, y))
      [] o = "rem" -> Wrap(Unsigned(x) % Unsigned(y))
      [] o = "bsr" -> Wrap(Unsigned(x) \div Pow2[y % Bits])
      [] o = "bsl" -> Wrap(x * Pow2[y % Bits])
      [] OTHER -> Wrap(Exact(o, Unsigned(x), Unsigned(y)))

\* emit_i64fused: how a live register leaves the chain
I31Bits(v) == ((v + Small) % (2 * Small)) - Small
Box(n) ==
    CASE n.dom.dom = "u64" -> NarrowU64(n.bits)
      [] n.dom.dom = "s64" /\ FitsI31(n.dom.lo) /\ FitsI31(n.dom.hi) -> I31(I31Bits(n.bits))
      [] OTHER -> Narrow(n.bits)
-----------------------------------------------------------------------------
InputNode(v, t) ==
    IF IsBounded(t) THEN NodeOf(S64(t.lo, t.hi), Term(v).v) ELSE NodeOf(U64raw, TermU64Bits(Term(v)))

Register(r) ==
    [value |-> value[r], type |-> type[r], term |-> term[r], node |-> node[r],
     i32 |-> IsI31(term[r])]
Literal(v) ==
    [value |-> v, type |-> [lo |-> v, hi |-> v], term |-> Term(v), node |-> NodeOf(S64(v, v), v),
     i32 |-> -2 * Small <= v /\ v < 2 * Small]

FusionInit ==
    /\ type \in [Regs -> Types \cup {Unbounded}]
    /\ value \in {v \in [Regs -> -MaxValue .. MaxValue] : \A r \in Regs :
                      IF IsBounded(type[r]) THEN type[r].lo <= v[r] /\ v[r] <= type[r].hi
                      ELSE v[r] >= 0}
    /\ term = [r \in Regs |-> Term(value[r])]
    /\ node = [r \in Regs |-> InputNode(value[r], type[r])]
    /\ ops = 0

Set(r, v, t, n) ==
    /\ -MaxValue <= v /\ v <= MaxValue
    /\ value' = [value EXCEPT ![r] = v]
    /\ term' = [term EXCEPT ![r] = t]
    /\ node' = [node EXCEPT ![r] = n]
    /\ type' = [type EXCEPT ![r] = Unbounded]
    /\ ops' = ops + 1

\* What the lattice refuses is left to the unfused code, and its result is no
\* node of the chain.
Fuse(o, x, y) ==
    IF No \in {x.node.dom, y.node.dom} THEN No ELSE Transition(o, x.node.dom, y.node.dom)
Apply(o, x, y, dst) ==
    LET d == Fuse(o, x, y) IN
    /\ o \in {"rem", "div"} => y.value # 0
    /\ o \in {"bsl", "bsr"} => Abs(y.value) <= MaxShift
    /\ o = "bsr" /\ d # No => y.value <= MaxFusedBsr
    /\ Set(dst, Exact(o, x.value, y.value), Unfused(o, x, y),
           IF d = No THEN NodeOf(No, 0) ELSE NodeOf(d, Wop(o, x.node.bits, y.node.bits)))

Operators == {"+", "-", "*", "div", "rem", "band", "bor", "bxor", "bsl", "bsr"}
OnRegisters ==
    \E o \in Operators, a, b, dst \in Regs : Apply(o, Register(a), Register(b), dst)
OnLiteral ==
    \E o \in Operators, a, dst \in Regs :
        \E v \in IF o \in {"bsl", "bsr"} THEN Shifts ELSE Literals :
            Apply(o, Register(a), Literal(v), dst)
\* the canonicalizer of a congruence class
OnPow64 ==
    \E a, dst \in Regs :
        /\ node[a].dom # No /\ RemPow64(node[a].dom) # No
        /\ Set(dst, Exact("rem", value[a], Pow64), IntRem(term[a], Term(Pow64)),
               NodeOf(U64, node[a].bits))

FusionNext == ops < MaxOps /\ (OnRegisters \/ OnLiteral \/ OnPow64)
FusionSpec == FusionInit /\ [][FusionNext]_fusionVars
-----------------------------------------------------------------------------
\* The runtime computes what Erlang says, in the one tier that stands for it,
\* at and beyond every boundary of a tier and of a specialization: equal
\* integers are one reference (runtime.ex:280-378, emit.ex:120).
IntegersExact == \A r \in Regs : term[r] = Term(value[r])

\* A chain may be cut where every live register has a boxable domain, and
\* then it has computed what the unfused code would have; the others hold
\* their value modulo 2^64 (emit.ex:1866-1872).
FusedAgrees ==
    \A r \in Regs :
        CASE node[r].dom.dom = "u64raw" -> value[r] >= 0 /\ node[r].bits = Wrap(value[r])
          [] node[r].dom.dom = "u64" -> Box(node[r]) = term[r]
          [] node[r].dom.dom = "s64" ->
                 Box(node[r]) = term[r] /\ node[r].dom.lo <= value[r] /\ value[r] <= node[r].dom.hi
          [] OTHER -> TRUE
=============================================================================
