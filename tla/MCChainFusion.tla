---------------------------- MODULE MCChainFusion ----------------------------
(* Integers of four bits: an i31 is in -2 .. 1, an i64 in -8 .. 7.  Wide    *)
(* types have both bounds beyond an i31, as a guard may give them.          *)
EXTENDS ChainFusion

Within(lo, hi) == [lo |-> lo, hi |-> hi]
MCLiterals == {-8, -1, 3, 7}
MCTypes == {Within(-2, 1), Within(-8, 7), Within(0, 7)}
MCWideTypes == {Within(-2, 1), Within(2, 3)}

\* what the proofs ask of types
ASSUME TypesFit == Types = MCWideTypes \/ OperandsFit
=============================================================================
