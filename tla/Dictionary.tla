----------------------------- MODULE Dictionary -----------------------------
(* What an Elixir map promises: a finite function from keys to values.     *)
EXTENDS Sequences

VARIABLE dict

Empty == [k \in {} |-> k]

New(d) == dict' = d

Bind(k, v) == dict' = [x \in DOMAIN dict \cup {k} |-> IF x = k THEN v ELSE dict[x]]

Drop(k) == dict' = [x \in DOMAIN dict \ {k} |-> dict[x]]

\* the entries of the second map win
MergeIn(d) ==
  dict' = [x \in DOMAIN dict \cup DOMAIN d |-> IF x \in DOMAIN d THEN d[x] ELSE dict[x]]

SameFor(ks, v) == dict' = [k \in {ks[i] : i \in DOMAIN ks} |-> v]
=============================================================================
