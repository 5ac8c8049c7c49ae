--------------------------- MODULE MapDictionary ---------------------------
(***************************************************************************)
(* TermMap in step with the dictionary that it should be: every operation   *)
(* on the tree is made on `dict' too.                                       *)
(***************************************************************************)
EXTENDS TermMap

VARIABLE dict

D == INSTANCE Dictionary

DictInit == Init /\ dict = D!Empty

DictNext ==
  \/ \E d \in Literals : Literal(d) /\ D!New(d)
  \/ \E d \in Literals : MapMerge(d) /\ D!MergeIn(d)
  \/ \E k \in Keys, v \in Values : (MapPut(k, v) \/ MapUpdate(k, v)) /\ D!Bind(k, v)
  \/ \E k \in Keys : MapRemove(k) /\ D!Drop(k)
  \/ \E ks \in KeyLists, v \in Values : FromKeys(ks, v) /\ D!SameFor(ks, v)

DictSpec == DictInit /\ [][DictNext]_<<map, dict>>

\* A map behaves as a dictionary: after any operations, rotations and rebuilds it holds
\* the last value given to each key that was not removed since.
ActsAsDictionary ==
  LET pairs == Flat(map)
  IN /\ Len(pairs) = Cardinality(DOMAIN dict)
     /\ \A i \in DOMAIN pairs : pairs[i].key \in DOMAIN dict /\ dict[pairs[i].key] = pairs[i].val
=============================================================================
