----------------------------- MODULE MCTermMap -----------------------------
(* MapDictionary for TLC: terms as keys, in the two orders of Terms.       *)
EXTENDS MapDictionary, Terms

one == Atom(1)
two == Atom(2)

\* keys of every kind, many of them alike but for one part
MCKeys ==
  {Integer(1), Float(2), Integer(3), Tuple(<<one>>), Tuple(<<Integer(1), one>>), List(<<one>>),
   MapTerm(<<one, Integer(1)>>)}

MCLiterals ==
  {[k \in {Integer(3), Float(2), List(<<one>>), MapTerm(<<one, Integer(1)>>)} |-> one],
   [k \in MCKeys |-> two]}

MCKeyLists == {<<Integer(3), Tuple(<<one>>), Integer(3), Integer(1)>>}

MCValues == {one, two}

\* %{%{1 => 2, 2 => 1} => one, %{1 => 1, 3 => 1} => two}: maps of one size as keys
MCMapKeys ==
  {MapTerm(<<Integer(1), Integer(2), Integer(2), Integer(1)>>), MapTerm(<<Integer(1), Integer(1), Integer(3), Integer(1)>>)}

MCMapLiterals == {[k \in MCMapKeys |-> one]}
=============================================================================
