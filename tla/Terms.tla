------------------------------- MODULE Terms -------------------------------
(***************************************************************************)
(* Erlang terms as WasmGC structures, and $term_compare of runtime.ex, the  *)
(* order that sorting, guards and the keys of maps rest on.  Also Erlang's  *)
(* own order, by which the compiler sorts the maps it builds itself.        *)
(*                                                                         *)
(* A scalar has a number: an integer's or float's value, an atom's rank     *)
(* among the names, the id of a reference or pid.  A compound term has      *)
(* parts: the elements of a tuple or proper list, the bytes of a binary (as *)
(* integers), the keys and values of a map, interleaved in key order.       *)
(***************************************************************************)
EXTENDS Integers, Sequences, FiniteSets

CONSTANT Mantissa   \* an f64 holds integers below 2^Mantissa exactly (53; scaled)

ASSUME TermsAssumption == Mantissa \in Nat \ {0}

Scalar(kind, n) == [kind |-> kind, num |-> n]
Compound(kind, parts) == [kind |-> kind, parts |-> parts]

Integer(n) == Scalar("int", n)
Float(n) == Scalar("float", n)
Atom(n) == Scalar("atom", n)
Tuple(parts) == Compound("tuple", parts)
List(parts) == Compound("list", parts)
Binary(parts) == Compound("binary", parts)
MapTerm(parts) == Compound("map", parts)

IsScalar(t) == t.kind \in {"int", "float", "atom", "ref", "pid"}

\* $term_rank; every kind it does not test for, a fun's included, is the last
Rank(t) ==
  CASE t.kind \in {"int", "float"} -> 0
    [] t.kind = "atom"   -> 1
    [] t.kind = "ref"    -> 2
    [] t.kind = "pid"    -> 3
    [] t.kind = "tuple"  -> 4
    [] t.kind = "map"    -> 5
    [] t.kind = "list"   -> 6
    [] t.kind = "binary" -> 7
    [] OTHER             -> 8

Sign(m, n) == IF m < n THEN -1 ELSE IF m > n THEN 1 ELSE 0

\* $to_f64: rounds an integer to the nearest double, ties to even; the integers of a
\* program are non-negative and below 2^(Mantissa + 1) here
ToF64(n) ==
  IF n < 2^Mantissa THEN n
  ELSE 2 * (IF n % 2 = 0 \/ (n \div 2) % 2 = 0 THEN n \div 2 ELSE n \div 2 + 1)

\* $int_cmp: as doubles as soon as one is a float, else exactly, whatever the tiers
IntCmp(a, b) ==
  IF "float" \in {a.kind, b.kind} THEN Sign(ToF64(a.num), ToF64(b.num))
                                  ELSE Sign(a.num, b.num)

\* the sign of the first element whose comparison is not equal, else of the lengths
FirstDifference(signs, m, n) ==
  LET D == {i \in DOMAIN signs : signs[i] # 0}
  IN IF D = {} THEN Sign(m, n) ELSE signs[CHOOSE i \in D : \A j \in D : i <= j]

Shorter(s, t) == IF Len(s) < Len(t) THEN Len(s) ELSE Len(t)

\* $term_compare: -1, 0 or 1
RECURSIVE Compare(_, _)
Compare(a, b) ==
  IF Rank(a) # Rank(b) THEN Sign(Rank(a), Rank(b))
  ELSE IF Rank(a) = 0 THEN IntCmp(a, b)
  ELSE IF IsScalar(a) THEN Sign(a.num, b.num)
  ELSE IF Rank(a) = 8 THEN 0
  ELSE LET signs == [i \in 1 .. Shorter(a.parts, b.parts) |->
                       Compare(a.parts[i], b.parts[i])]
       IN IF Rank(a) \in {4, 5} /\ Len(a.parts) # Len(b.parts)
          THEN Sign(Len(a.parts), Len(b.parts))
          ELSE FirstDifference(signs, Len(a.parts), Len(b.parts))

-----------------------------------------------------------------------------
(* The BEAM's term order, which Enum.sort uses at compile time: it differs   *)
(* in comparing numbers exactly, and all the keys of a map before its values. *)

KeysFirst(t) ==
  IF t.kind # "map" THEN t.parts
  ELSE LET n == Len(t.parts) \div 2
       IN [i \in 1 .. 2 * n |-> t.parts[IF i <= n THEN 2 * i - 1 ELSE 2 * (i - n)]]

RECURSIVE ErlangCompare(_, _)
ErlangCompare(a, b) ==
  IF Rank(a) # Rank(b) THEN Sign(Rank(a), Rank(b))
  ELSE IF IsScalar(a) THEN Sign(a.num, b.num)
  ELSE LET s == KeysFirst(a)
           t == KeysFirst(b)
           signs == [i \in 1 .. Shorter(s, t) |-> ErlangCompare(s[i], t[i])]
       IN IF Rank(a) \in {4, 5} /\ Len(s) # Len(t) THEN Sign(Len(s), Len(t))
          ELSE FirstDifference(signs, Len(s), Len(t))
=============================================================================
