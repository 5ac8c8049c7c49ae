------------------------- MODULE HostRegexProofs -------------------------
(***************************************************************************)
(* The regular expressions of HostRegex.tla answer as fresh ones, for any  *)
(* subject and pattern, any size of the cache, any limits and any depth of *)
(* calls within the functions of replacements.  The invariant, RegexInv,   *)
(* says of each call under way how far it is: what it has found are the    *)
(* first matches of a search from the beginning.  That its object stands   *)
(* where the next search must begin is said of the running call only: the  *)
(* object of one that waits may have been reset by the calls within it,    *)
(* and such a call has found everything before it waits.                   *)
(***************************************************************************)
EXTENDS HostRegex, SequenceTheorems, NaturalsInduction, WellFoundedInduction, TLAPS


-----------------------------------------------------------------------------
(* The properties again, of a given pattern m: they say nothing of the     *)
(* state but through it.                                                   *)

Piece == Positions \X Positions

Least(S) == CHOOSE j \in S : \A k \in S : j <= k
FromIn(m, i) == {j \in Positions : i <= j /\ m[j] # NoMatch}
FirstIn(m, i) == Least(FromIn(m, i))
MatchIn(m, i) == <<FirstIn(m, i), FirstIn(m, i) + m[FirstIn(m, i)]>>

\* where the search after the ones found begins
NextFrom(found) == IF found = <<>> THEN 0 ELSE After(found[Len(found)])

SearchedIn(m, found) ==
  \A k \in DOMAIN found : LET i == IF k = 1 THEN 0 ELSE After(found[k - 1])
                          IN  FromIn(m, i) # {} /\ found[k] = MatchIn(m, i)
ExhaustedIn(m, found) == FromIn(m, NextFrom(found)) = {}
OnlyIn(m) == IF FromIn(m, 0) = {} THEN <<>> ELSE <<MatchIn(m, 0)>>

\* the separators in a list of pieces, with and without captures, and its tiling
SepsOf(q, incCaps) ==
  IF incCaps THEN [k \in 1 .. Len(q) \div 2 |-> q[2 * k]]
  ELSE [k \in 1 .. Len(q) - 1 |-> <<q[k][2], q[k + 1][1]>>]
TiledIn(m, q, incCaps) ==
  /\ \A k \in DOMAIN q : q[k][1] <= q[k][2]
  /\ incCaps => \A k \in 1 .. Len(q) - 1 : q[k][2] = q[k + 1][1]
  /\ ~incCaps => \A k \in 1 .. Len(q) - 1 : m[q[k][2]] = q[k + 1][1] - q[k][2]
  /\ q # <<>> => q[1][1] = 0

AnswerOK(m, c) ==
  /\ c.op = "split" =>
       /\ SearchedIn(m, SepsOf(c.pieces, c.incCaps))
       /\ \/ ExhaustedIn(m, SepsOf(c.pieces, c.incCaps))
          \/ c.limit > 0 /\ Len(SepsOf(c.pieces, c.incCaps)) = c.limit - 1
       /\ TiledIn(m, c.pieces, c.incCaps) /\ c.pieces[Len(c.pieces)][2] = Length
       /\ c.limit > 0 => Len(c.pieces) <= IF c.incCaps THEN 2 * c.limit - 1 ELSE c.limit
  /\ c.op \in {"scan", "replace"} /\ c.flags = "g" => SearchedIn(m, c.pieces) /\ ExhaustedIn(m, c.pieces)
  /\ c.op = "test" \/ (c.op = "replace" /\ c.flags = "") => c.pieces = OnlyIn(m)

LEMMA SameSearch ==
  /\ \A i : From(i) = FromIn(matcher, i)
  /\ \A i : First(i) = FirstIn(matcher, i)
<1>1. \A i : From(i) = FromIn(matcher, i)
  BY DEF From, FromIn
<1>2. \A i : First(i) = Least(From(i))
  BY DEF First, Least
<1> QED
  BY <1>1, <1>2 DEF FirstIn

LEMMA SameAnswer == AnswerOK(matcher, returned) => AsIfFresh /\ SplitTiles
<1> SUFFICES ASSUME AnswerOK(matcher, returned) PROVE AsIfFresh /\ SplitTiles
  OBVIOUS
<1> DEFINE c == returned  m == matcher
<1>1. Separators(c) = SepsOf(c.pieces, c.incCaps)
  BY DEF Separators, SepsOf
<1>2. \A s : (Searched(s) <=> SearchedIn(m, s)) /\ (Exhausted(s) <=> ExhaustedIn(m, s))
  <2>1. \A s : Exhausted(s) <=> ExhaustedIn(m, s)
    BY SameSearch DEF Exhausted, ExhaustedIn, NextFrom, Last
  <2>2. \A s : Searched(s) <=> SearchedIn(m, s)
    BY SameSearch DEF Searched, SearchedIn, MatchIn
  <2> QED
    BY <2>1, <2>2
<1>3. Tiled(c) <=> TiledIn(m, c.pieces, c.incCaps)
  BY DEF Tiled, TiledIn
<1>4. OnlyIn(m) = IF From(0) = {} THEN <<>> ELSE <<<<First(0), First(0) + matcher[First(0)]>>>>
  BY SameSearch DEF OnlyIn, MatchIn
<1>5. AsIfFresh
  <2>1. CASE c.op = "split"
    BY <1>1, <1>2, <2>1 DEF AsIfFresh, AnswerOK
  <2>2. CASE c.op # "split" /\ c.op \in {"scan", "replace"} /\ c.flags = "g"
    BY <1>2, <2>2 DEF AsIfFresh, AnswerOK
  <2>3. CASE c.op = "test" \/ (c.op = "replace" /\ c.flags = "")
    BY <1>4, <2>3 DEF AsIfFresh, AnswerOK
  <2>4. CASE /\ c.op # "split" /\ ~(c.op \in {"scan", "replace"} /\ c.flags = "g")
             /\ ~(c.op = "test" \/ (c.op = "replace" /\ c.flags = ""))
    BY <2>4 DEF AsIfFresh
  <2> QED
    BY <2>1, <2>2, <2>3, <2>4
<1>6. SplitTiles
  BY <1>3 DEF SplitTiles, AnswerOK, Last
<1> QED
  BY <1>5, <1>6

-----------------------------------------------------------------------------
(* Searching.                                                              *)

LEMMA LeastExists ==
  ASSUME NEW S, S \subseteq Nat, S # {}
  PROVE  Least(S) \in S /\ \A k \in S : Least(S) <= k
<1> DEFINE R == OpToRel(<, Nat)
<1>1. IsWellFoundedOn(R, Nat)
  BY NatLessThanWellFounded, Zenon
<1>2. \A i, j \in Nat : i < j => <<i, j>> \in R
  BY DEF OpToRel
<1> HIDE DEF R
<1>3. PICK x \in S : \A y \in S : ~(<<y, x>> \in R)
  BY <1>1, WFMin, Zenon
<1>4. ASSUME NEW k \in S PROVE x <= k
  <2>1. k \in Nat /\ x \in Nat /\ ~(<<k, x>> \in R)
    BY <1>3
  <2>2. ~(k < x)
    BY <1>2, <2>1
  <2> QED
    BY <2>1, <2>2
<1> QED
  BY <1>3, <1>4, Zenon DEF Least

\* a match lies in the subject, not before the place where its search began
LEMMA MatchIs ==
  ASSUME NEW m \in Matchers, NEW i, FromIn(m, i) # {}
  PROVE  LET x == MatchIn(m, i)
         IN x \in Piece /\ i <= x[1] /\ x[1] <= x[2] /\ m[x[1]] = x[2] - x[1]
<1> DEFINE j == FirstIn(m, i)
<1>1. FromIn(m, i) \subseteq Nat
  BY RegexAssumption DEF FromIn, Positions, RegexAssumption
<1>2. j \in Positions /\ i <= j /\ m[j] # NoMatch
  <2>1. j \in FromIn(m, i)
    BY <1>1, LeastExists DEF FirstIn
  <2> HIDE DEF j
  <2> QED
    BY <2>1 DEF FromIn
<1> HIDE DEF j
<1>3. m[j] \in Positions /\ j + m[j] <= Length
  BY <1>2 DEF Matchers
<1>4. j \in Nat /\ m[j] \in Nat /\ Length \in Nat
  BY <1>2, <1>3, RegexAssumption DEF Positions, RegexAssumption
<1>5. j + m[j] \in Positions /\ j <= j + m[j] /\ (j + m[j]) - j = m[j]
  BY <1>3, <1>4 DEF Positions
<1>6. MatchIn(m, i) = <<j, j + m[j]>>
  BY DEF MatchIn, j
<1> QED
  BY <1>2, <1>5, <1>6 DEF Piece

LEMMA AfterIs == \A x \in Piece : After(x) \in Nat /\ x[2] <= After(x)
BY RegexAssumption DEF Piece, After, Positions, RegexAssumption

LEMMA NextFromIs ==
  ASSUME NEW s \in Seq(Piece)
  PROVE  /\ NextFrom(s) \in Nat
         /\ \A x \in Piece : NextFrom(Append(s, x)) = After(x)
<1>1. s = <<>> \/ s[Len(s)] \in Piece
  OBVIOUS
<1>2. \A x \in Piece : NextFrom(Append(s, x)) = After(x)
  <2> TAKE x \in Piece
  <2>1. Append(s, x) # <<>> /\ Append(s, x)[Len(Append(s, x))] = x
    BY AppendProperties
  <2> QED
    BY <2>1 DEF NextFrom
<1> QED
  BY <1>1, <1>2, AfterIs DEF NextFrom

LEMMA SearchedEmpty == \A m : SearchedIn(m, <<>>) /\ NextFrom(<<>>) = 0
BY DEF SearchedIn, NextFrom

LEMMA SearchedAppend ==
  ASSUME NEW m \in Matchers, NEW s \in Seq(Piece), SearchedIn(m, s), FromIn(m, NextFrom(s)) # {}
  PROVE  SearchedIn(m, Append(s, MatchIn(m, NextFrom(s))))
<1> DEFINE x == MatchIn(m, NextFrom(s))  u == Append(s, x)  n == Len(s)
<1>1. x \in Piece
  BY MatchIs
<1>2. x = MatchIn(m, NextFrom(s))
  OBVIOUS
<1> HIDE DEF x
<1>3. n \in Nat /\ DOMAIN s = 1 .. n /\ (s = <<>> <=> n = 0)
  OBVIOUS
<1>4. DOMAIN u = 1 .. n + 1 /\ u[n + 1] = x /\ \A k \in 1 .. n : u[k] = s[k]
  BY <1>1, AppendProperties
<1>5. NextFrom(s) = IF n = 0 THEN 0 ELSE After(s[n])
  BY <1>3 DEF NextFrom
<1> HIDE DEF n, u
<1>6. \A k \in 1 .. n : LET i == IF k = 1 THEN 0 ELSE After(s[k - 1])
                        IN  FromIn(m, i) # {} /\ s[k] = MatchIn(m, i)
  BY <1>3 DEF SearchedIn
<1>7. ASSUME NEW k \in 1 .. n + 1
      PROVE  LET i == IF k = 1 THEN 0 ELSE After(u[k - 1])
             IN  FromIn(m, i) # {} /\ u[k] = MatchIn(m, i)
  <2>1. CASE k \in 1 .. n
    <3>1. k # 1 => k - 1 \in 1 .. n
      BY <1>3, <2>1
    <3> QED
      BY <1>4, <1>6, <2>1, <3>1
  <2>2. CASE k = n + 1
    <3>1. k = 1 <=> n = 0
      BY <1>3, <2>2
    <3>2. n # 0 => u[k - 1] = s[n]
      BY <1>3, <1>4, <2>2
    <3>3. NextFrom(s) = IF k = 1 THEN 0 ELSE After(u[k - 1])
      BY <1>5, <3>1, <3>2
    <3> QED
      BY <1>2, <1>4, <2>2, <3>3
  <2> QED
    BY <1>3, <2>1, <2>2
<1> QED
  BY <1>4, <1>7 DEF SearchedIn, u, x

-----------------------------------------------------------------------------
(* Splitting: p are the pieces so far, last is the end of the last match.   *)

Whole(p, last) == Append(p, <<last, Length>>)

\* the pieces after the next match x
Cut(p, last, x, incCaps) ==
  LET part == Append(p, <<last, x[1]>>) IN IF incCaps THEN Append(part, x) ELSE part

LEMMA PieceIs ==
  /\ \A i, j \in Positions : <<i, j>> \in Piece
  /\ \A x \in Piece : x[1] \in Positions /\ x[2] \in Positions /\ x[1] \in Nat /\ x[2] \in Nat /\ x[2] <= Length
  /\ Length \in Positions /\ 0 \in Positions /\ Length \in Nat
  /\ \A i \in Positions : i \in Nat /\ i <= Length
BY RegexAssumption DEF Piece, Positions, RegexAssumption

LEMMA Appended ==
  ASSUME NEW p \in Seq(Piece), NEW x \in Piece
  PROVE  /\ Append(p, x) \in Seq(Piece) /\ Append(p, x) # <<>>
         /\ Len(p) \in Nat /\ DOMAIN p = 1 .. Len(p)
         /\ Len(Append(p, x)) = Len(p) + 1 /\ DOMAIN Append(p, x) = 1 .. Len(p) + 1
         /\ \A k \in 1 .. Len(p) : Append(p, x)[k] = p[k]
         /\ Append(p, x)[Len(p) + 1] = x
BY AppendProperties

\* a tiling goes on with a match, and its separators with the match
LEMMA CutWithout ==
  ASSUME NEW m \in Matchers, NEW p \in Seq(Piece), NEW last \in Positions, NEW x \in Piece,
         TiledIn(m, Whole(p, last), FALSE),
         last <= x[1], x[1] <= x[2], m[x[1]] = x[2] - x[1]
  PROVE  /\ TiledIn(m, Whole(Cut(p, last, x, FALSE), x[2]), FALSE)
         /\ SepsOf(Whole(Cut(p, last, x, FALSE), x[2]), FALSE) = Append(SepsOf(Whole(p, last), FALSE), x)
         /\ Cut(p, last, x, FALSE) \in Seq(Piece) /\ Len(Cut(p, last, x, FALSE)) = Len(p) + 1
<1> DEFINE n == Len(p)  a == <<last, x[1]>>  b == <<last, Length>>  e == <<x[2], Length>>
           q == Append(p, b)  r == Append(p, a)  u == Append(r, e)
           s == SepsOf(q, FALSE)  t == SepsOf(u, FALSE)
<1>1. a \in Piece /\ b \in Piece /\ e \in Piece
  BY PieceIs
<1>2. a[1] = last /\ a[2] = x[1] /\ b[1] = last /\ b[2] = Length /\ e[1] = x[2] /\ e[2] = Length
  OBVIOUS
<1>3. x[1] \in Nat /\ x[2] \in Nat /\ last \in Nat /\ Length \in Nat /\ x[2] <= Length /\ last <= Length
  BY PieceIs
<1>4. x = <<x[1], x[2]>>
  BY DEF Piece
<1> HIDE DEF a, b, e
<1>5. /\ q # <<>> /\ n \in Nat /\ Len(q) = n + 1 /\ DOMAIN q = 1 .. n + 1
      /\ \A k \in 1 .. n : q[k] = p[k]
      /\ q[n + 1] = b
  BY <1>1, Appended
<1>6. /\ r \in Seq(Piece) /\ Len(r) = n + 1 /\ DOMAIN r = 1 .. n + 1
      /\ \A k \in 1 .. n : r[k] = p[k]
      /\ r[n + 1] = a
  BY <1>1, Appended
<1>7. /\ u # <<>> /\ Len(u) = n + 2 /\ DOMAIN u = 1 .. n + 2
      /\ \A k \in 1 .. n + 1 : u[k] = r[k]
      /\ u[n + 2] = e
  <2>1. /\ u # <<>> /\ Len(u) = Len(r) + 1 /\ DOMAIN u = 1 .. Len(r) + 1
        /\ \A k \in 1 .. Len(r) : u[k] = r[k]
        /\ u[Len(r) + 1] = e
    BY <1>1, <1>6, Appended
  <2> HIDE DEF u, r, n
  <2>2. Len(r) + 1 = n + 2
    BY <1>5, <1>6
  <2> QED
    BY <1>6, <2>1, <2>2
<1>8. Whole(p, last) = q /\ Cut(p, last, x, FALSE) = r /\ Whole(r, x[2]) = u
  BY DEF Whole, Cut, a, b, e
<1> HIDE DEF q, r, u, n
<1>9. \A k \in 1 .. n : u[k] = q[k]
  BY <1>5, <1>6, <1>7
<1>10. u[n + 1] = a /\ u[n + 2] = e /\ q[n + 1] = b
  BY <1>5, <1>6, <1>7
<1>11. /\ \A k \in 1 .. n + 1 : q[k][1] <= q[k][2]
       /\ \A k \in 1 .. n : m[q[k][2]] = q[k + 1][1] - q[k][2]
       /\ q[1][1] = 0
  <2>1. Len(q) - 1 = n
    BY <1>5
  <2> QED
    BY <1>5, <1>8, <2>1 DEF TiledIn
<1>12. \A k \in 1 .. n : u[k + 1][1] = q[k + 1][1]
  <2> TAKE k \in 1 .. n
  <2>1. k = n \/ k + 1 \in 1 .. n
    BY <1>5
  <2> QED
    BY <1>2, <1>9, <1>10, <2>1
<1>13. TiledIn(m, u, FALSE)
  <2>1. ASSUME NEW k \in 1 .. n + 2 PROVE u[k][1] <= u[k][2]
    <3>1. k \in 1 .. n \/ k = n + 1 \/ k = n + 2
      BY <1>5
    <3> QED
      BY <1>2, <1>3, <1>5, <1>9, <1>10, <1>11, <3>1
  <2>2. ASSUME NEW k \in 1 .. n + 1 PROVE m[u[k][2]] = u[k + 1][1] - u[k][2]
    <3>1. CASE k \in 1 .. n
      <4>1. u[k] = q[k] /\ u[k + 1][1] = q[k + 1][1]
        BY <1>9, <1>12, <3>1
      <4> QED
        BY <1>11, <3>1, <4>1
    <3>2. CASE k = n + 1
      <4>1. u[k][2] = x[1] /\ u[k + 1][1] = x[2]
        <5>1. k + 1 = n + 2
          BY <1>5, <3>2
        <5> QED
          BY <1>2, <1>10, <3>2, <5>1
      <4> QED
        BY <4>1
    <3> QED
      BY <1>5, <3>1, <3>2
  <2>3. u[1][1] = 0
    <3>1. n = 0 \/ 1 \in 1 .. n
      BY <1>5
    <3> QED
      BY <1>2, <1>9, <1>10, <1>11, <3>1
  <2>4. Len(u) - 1 = n + 1
    BY <1>5, <1>7
  <2> QED
    BY <1>7, <2>1, <2>2, <2>3, <2>4 DEF TiledIn
<1>14. t = Append(s, x)
  <2>1. s = [k \in 1 .. n |-> <<q[k][2], q[k + 1][1]>>]
    <3>1. Len(q) - 1 = n
      BY <1>5
    <3> QED
      BY <3>1 DEF SepsOf
  <2>2. t = [k \in 1 .. n + 1 |-> <<u[k][2], u[k + 1][1]>>]
    <3>1. Len(u) - 1 = n + 1
      BY <1>5, <1>7
    <3> QED
      BY <3>1 DEF SepsOf
  <2> DEFINE any == [k \in 1 .. n |-> <<q[k][2], q[k + 1][1]>>]
             S == {any[k] : k \in 1 .. n} \cup {x}
  <2>0. n \in Nat
    BY <1>5
  <2>3. s \in Seq(S) /\ Len(s) = n
    <3>1. any \in [1 .. n -> S]
      OBVIOUS
    <3>2. s = any
      BY <2>1
    <3> HIDE DEF S, s, any
    <3>3. s \in [1 .. n -> S]
      BY <3>1, <3>2
    <3> QED
      BY <2>0, <3>3
  <2>4. x \in S
    OBVIOUS
  <2> HIDE DEF S, s, any
  <2>5. /\ DOMAIN Append(s, x) = 1 .. n + 1
        /\ \A k \in 1 .. n : Append(s, x)[k] = s[k]
        /\ Append(s, x)[n + 1] = x
        /\ Append(s, x) \in Seq(S)
    BY <1>5, <2>3, <2>4, AppendProperties
  <2> HIDE DEF t
  <2>6. ASSUME NEW k \in 1 .. n + 1 PROVE t[k] = Append(s, x)[k]
    <3>1. CASE k \in 1 .. n
      <4>1. u[k] = q[k] /\ u[k + 1][1] = q[k + 1][1]
        BY <1>9, <1>12, <3>1
      <4>2. t[k] = <<u[k][2], u[k + 1][1]>> /\ s[k] = <<q[k][2], q[k + 1][1]>>
        BY <2>1, <2>2, <3>1
      <4> QED
        BY <2>5, <3>1, <4>1, <4>2
    <3>2. CASE k = n + 1
      <4>1. u[k][2] = x[1] /\ u[k + 1][1] = x[2]
        <5>1. k + 1 = n + 2
          BY <1>5, <3>2
        <5> QED
          BY <1>2, <1>10, <3>2, <5>1
      <4>2. t[k] = <<u[k][2], u[k + 1][1]>>
        BY <2>2
      <4> QED
        BY <1>4, <2>5, <3>2, <4>1, <4>2
    <3>3. k \in 1 .. n \/ k = n + 1
      BY <2>0
    <3> QED
      BY <3>1, <3>2, <3>3
  <2>7. DOMAIN t = 1 .. n + 1 /\ t = [k \in 1 .. n + 1 |-> t[k]]
    BY <2>2
  <2>8. Append(s, x) = [k \in 1 .. n + 1 |-> Append(s, x)[k]]
    <3>1. Append(s, x) \in [1 .. Len(Append(s, x)) -> S] /\ Len(Append(s, x)) = n + 1
      BY <2>0, <2>3, <2>4, AppendProperties, LenProperties
    <3> QED
      BY <3>1, Zenon
  <2> QED
    BY <2>6, <2>7, <2>8
<1> QED
  BY <1>6, <1>8, <1>13, <1>14 DEF s, t, n

\* the same when captures are included: parts and separators alternate
CutsTo(m, p, h, last, x) ==
  /\ TiledIn(m, Whole(Cut(p, last, x, TRUE), x[2]), TRUE)
  /\ SepsOf(Whole(Cut(p, last, x, TRUE), x[2]), TRUE) = Append(SepsOf(Whole(p, last), TRUE), x)
  /\ Cut(p, last, x, TRUE) \in Seq(Piece) /\ Len(Cut(p, last, x, TRUE)) = 2 * (h + 1)

LEMMA CutWith ==
  ASSUME NEW m \in Matchers, NEW p \in Seq(Piece), NEW h \in Nat, Len(p) = 2 * h,
         NEW last \in Positions, NEW x \in Piece,
         TiledIn(m, Whole(p, last), TRUE),
         last <= x[1], x[1] <= x[2]
  PROVE  CutsTo(m, p, h, last, x)
<1> DEFINE n == 2 * h  a == <<last, x[1]>>  b == <<last, Length>>  e == <<x[2], Length>>
           q == Append(p, b)  r0 == Append(p, a)  r == Append(r0, x)  u == Append(r, e)
           s == SepsOf(q, TRUE)  t == SepsOf(u, TRUE)
<1>1. a \in Piece /\ b \in Piece /\ e \in Piece
  BY PieceIs
<1>2. a[1] = last /\ a[2] = x[1] /\ b[1] = last /\ b[2] = Length /\ e[1] = x[2] /\ e[2] = Length
  OBVIOUS
<1>3. x[1] \in Nat /\ x[2] \in Nat /\ last \in Nat /\ Length \in Nat /\ x[2] <= Length /\ last <= Length
  BY PieceIs
<1>4. n \in Nat /\ Len(p) = n
  OBVIOUS
<1> HIDE DEF a, b, e
<1>5. /\ q # <<>> /\ Len(q) = n + 1 /\ DOMAIN q = 1 .. n + 1
      /\ \A k \in 1 .. n : q[k] = p[k]
      /\ q[n + 1] = b /\ q \in Seq(Piece)
  BY <1>1, <1>4, Appended
<1>6. /\ r0 \in Seq(Piece) /\ Len(r0) = n + 1
      /\ \A k \in 1 .. n : r0[k] = p[k]
      /\ r0[n + 1] = a
  BY <1>1, <1>4, Appended
<1>7. /\ r \in Seq(Piece) /\ Len(r) = n + 2
      /\ \A k \in 1 .. n + 1 : r[k] = r0[k]
      /\ r[n + 2] = x
  <2>1. /\ r \in Seq(Piece) /\ Len(r) = Len(r0) + 1
        /\ \A k \in 1 .. Len(r0) : r[k] = r0[k]
        /\ r[Len(r0) + 1] = x
    BY <1>6, Appended
  <2> HIDE DEF r, r0, n
  <2>2. Len(r0) + 1 = n + 2
    BY <1>4, <1>6
  <2> QED
    BY <1>6, <2>1, <2>2
<1>8. /\ u \in Seq(Piece) /\ u # <<>> /\ Len(u) = n + 3 /\ DOMAIN u = 1 .. n + 3
      /\ \A k \in 1 .. n + 2 : u[k] = r[k]
      /\ u[n + 3] = e
  <2>1. /\ u \in Seq(Piece) /\ u # <<>> /\ Len(u) = Len(r) + 1 /\ DOMAIN u = 1 .. Len(r) + 1
        /\ \A k \in 1 .. Len(r) : u[k] = r[k]
        /\ u[Len(r) + 1] = e
    BY <1>1, <1>7, Appended
  <2> HIDE DEF u, r, n
  <2>2. Len(r) + 1 = n + 3
    BY <1>4, <1>7
  <2> QED
    BY <1>7, <2>1, <2>2
<1>9. Whole(p, last) = q /\ Cut(p, last, x, TRUE) = r /\ Whole(r, x[2]) = u
  BY DEF Whole, Cut, a, b, e
<1>10. (n + 1) \div 2 = h /\ (n + 3) \div 2 = h + 1
  OBVIOUS
<1>11. n = 2 * h
  OBVIOUS
<1> HIDE DEF q, r, r0, u, n
<1>12. \A k \in 1 .. n : u[k] = q[k]
  BY <1>4, <1>5, <1>6, <1>7, <1>8
<1>13. u[n + 1] = a /\ u[n + 2] = x /\ u[n + 3] = e /\ q[n + 1] = b
  BY <1>4, <1>5, <1>6, <1>7, <1>8
<1>14. /\ \A k \in 1 .. n + 1 : q[k][1] <= q[k][2]
       /\ \A k \in 1 .. n : q[k][2] = q[k + 1][1]
       /\ q[1][1] = 0
  <2>1. Len(q) - 1 = n
    BY <1>4, <1>5
  <2> QED
    BY <1>4, <1>5, <1>9, <2>1 DEF TiledIn
<1>15. \A k \in 1 .. n : u[k + 1][1] = q[k + 1][1]
  <2> TAKE k \in 1 .. n
  <2>1. k = n \/ k + 1 \in 1 .. n
    BY <1>4
  <2> QED
    BY <1>2, <1>12, <1>13, <2>1
<1>16. TiledIn(m, u, TRUE)
  <2>1. ASSUME NEW k \in 1 .. n + 3 PROVE u[k][1] <= u[k][2]
    <3>1. k \in 1 .. n \/ k = n + 1 \/ k = n + 2 \/ k = n + 3
      BY <1>4
    <3>2. \A i \in 1 .. n : q[i][1] <= q[i][2]
      BY <1>4, <1>14
    <3> QED
      BY <1>2, <1>3, <1>12, <1>13, <3>1, <3>2
  <2>2. ASSUME NEW k \in 1 .. n + 2 PROVE u[k][2] = u[k + 1][1]
    <3>1. CASE k \in 1 .. n
      BY <1>12, <1>14, <1>15, <3>1
    <3>2. CASE k = n + 1
      <4>1. k + 1 = n + 2
        BY <1>4, <3>2
      <4> QED
        BY <1>2, <1>13, <3>2, <4>1
    <3>3. CASE k = n + 2
      <4>1. k + 1 = n + 3
        BY <1>4, <3>3
      <4> QED
        BY <1>2, <1>13, <3>3, <4>1
    <3>4. k \in 1 .. n \/ k = n + 1 \/ k = n + 2
      BY <1>4
    <3> QED
      BY <3>1, <3>2, <3>3, <3>4
  <2>3. u[1][1] = 0
    <3>1. n = 0 \/ 1 \in 1 .. n
      BY <1>4
    <3> QED
      BY <1>2, <1>12, <1>13, <1>14, <3>1
  <2>4. Len(u) - 1 = n + 2
    BY <1>4, <1>8
  <2> QED
    BY <1>8, <2>1, <2>2, <2>3, <2>4 DEF TiledIn
<1>17. t = Append(s, x)
  <2>1. s = [k \in 1 .. h |-> q[2 * k]]
    BY <1>5, <1>10 DEF SepsOf
  <2>2. t = [k \in 1 .. h + 1 |-> u[2 * k]]
    BY <1>8, <1>10 DEF SepsOf
  <2>3. s \in Seq(Piece) /\ Len(s) = h
    <3>1. \A k \in 1 .. h : 2 * k \in 1 .. n
      BY <1>11
    <3>2. \A k \in 1 .. h : q[2 * k] \in Piece
      BY <1>4, <1>5, <3>1
    <3>3. s \in [1 .. h -> Piece]
      BY <2>1, <3>2
    <3> HIDE DEF s
    <3> QED
      BY <3>3
  <2>4. t \in Seq(Piece) /\ Len(t) = h + 1
    <3>1. \A k \in 1 .. h + 1 : 2 * k \in 1 .. n + 3
      BY <1>11
    <3>2. \A k \in 1 .. h + 1 : u[2 * k] \in Piece
      BY <1>4, <1>8, <3>1
    <3>3. t \in [1 .. h + 1 -> Piece]
      BY <2>2, <3>2
    <3> HIDE DEF t
    <3> QED
      BY <3>3
  <2> HIDE DEF s, t
  <2>5. /\ Append(s, x) \in Seq(Piece) /\ Len(Append(s, x)) = h + 1
        /\ \A k \in 1 .. h : Append(s, x)[k] = s[k]
        /\ Append(s, x)[h + 1] = x
    BY <2>3, Appended
  <2>6. ASSUME NEW k \in 1 .. h + 1 PROVE t[k] = Append(s, x)[k]
    <3>1. CASE k \in 1 .. h
      <4>1. 2 * k \in 1 .. n
        BY <1>11, <3>1
      <4>2. u[2 * k] = q[2 * k]
        BY <1>12, <4>1
      <4>3. t[k] = u[2 * k] /\ s[k] = q[2 * k]
        BY <2>1, <2>2, <3>1
      <4> QED
        BY <2>5, <3>1, <4>2, <4>3
    <3>2. CASE k = h + 1
      <4>1. 2 * k = n + 2 /\ t[k] = u[2 * k]
        BY <1>11, <2>2, <3>2
      <4> QED
        BY <1>13, <2>5, <3>2, <4>1
    <3>3. k \in 1 .. h \/ k = h + 1
      OBVIOUS
    <3> QED
      BY <3>1, <3>2, <3>3
  <2> QED
    BY <2>4, <2>5, <2>6, SeqEqual
<1>18. Len(r) = 2 * (h + 1)
  BY <1>7, <1>11
<1> QED
  BY <1>7, <1>9, <1>16, <1>17, <1>18 DEF s, t, CutsTo

LEMMA SepsIs ==
  ASSUME NEW p \in Seq(Piece), NEW last \in Positions
  PROVE  /\ Whole(p, last) \in Seq(Piece) /\ Len(Whole(p, last)) = Len(p) + 1
         /\ Whole(p, last)[Len(p) + 1] = <<last, Length>>
         /\ SepsOf(Whole(p, last), FALSE) \in Seq(Piece)
         /\ Len(SepsOf(Whole(p, last), FALSE)) = Len(p)
         /\ \A h \in Nat : Len(p) = 2 * h => /\ SepsOf(Whole(p, last), TRUE) \in Seq(Piece)
                                             /\ Len(SepsOf(Whole(p, last), TRUE)) = h
<1> DEFINE n == Len(p)  q == Whole(p, last)
<1>1. /\ q \in Seq(Piece) /\ n \in Nat /\ Len(q) = n + 1 /\ q[n + 1] = <<last, Length>>
  BY PieceIs, Appended DEF Whole
<1>2. \A k \in 1 .. n + 1 : q[k] \in Piece
  BY <1>1
<1> HIDE DEF q, n
<1>3. SepsOf(q, FALSE) \in Seq(Piece) /\ Len(SepsOf(q, FALSE)) = n
  <2> DEFINE s == SepsOf(q, FALSE)
  <2>1. s = [k \in 1 .. n |-> <<q[k][2], q[k + 1][1]>>]
    <3>1. Len(q) - 1 = n
      BY <1>1
    <3> QED
      BY <3>1 DEF SepsOf
  <2>2. \A k \in 1 .. n : <<q[k][2], q[k + 1][1]>> \in Piece
    <3> TAKE k \in 1 .. n
    <3>1. k \in 1 .. n + 1 /\ k + 1 \in 1 .. n + 1
      BY <1>1
    <3>2. q[k][2] \in Positions /\ q[k + 1][1] \in Positions
      BY <1>2, <3>1, PieceIs
    <3> QED
      BY <3>2, PieceIs
  <2>3. s \in [1 .. n -> Piece]
    BY <2>1, <2>2
  <2> HIDE DEF s
  <2>4. s \in Seq(Piece) /\ Len(s) = n
    BY <1>1, <2>3
  <2> QED
    BY <2>4 DEF s
<1>4. ASSUME NEW h \in Nat, n = 2 * h
      PROVE  SepsOf(q, TRUE) \in Seq(Piece) /\ Len(SepsOf(q, TRUE)) = h
  <2> DEFINE s == SepsOf(q, TRUE)
  <2>1. s = [k \in 1 .. h |-> q[2 * k]]
    <3>1. Len(q) \div 2 = h
      BY <1>1, <1>4
    <3> QED
      BY <3>1 DEF SepsOf
  <2>2. \A k \in 1 .. h : q[2 * k] \in Piece
    <3>1. \A k \in 1 .. h : 2 * k \in 1 .. n + 1
      BY <1>4
    <3> QED
      BY <1>2, <3>1
  <2>3. s \in [1 .. h -> Piece]
    BY <2>1, <2>2
  <2> HIDE DEF s
  <2>4. s \in Seq(Piece) /\ Len(s) = h
    BY <2>3
  <2> QED
    BY <2>4 DEF s
<1> QED
  BY <1>1, <1>3, <1>4 DEF q, n

\* before the first match the whole subject is one piece
LEMMA NothingCut ==
  ASSUME NEW m, NEW incCaps \in BOOLEAN
  PROVE  SepsOf(Whole(<<>>, 0), incCaps) = <<>> /\ TiledIn(m, Whole(<<>>, 0), incCaps)
<1> DEFINE q == Whole(<<>>, 0)  s == SepsOf(q, incCaps)
<1>1. <<>> \in Seq(Piece) /\ Len(<<>>) = 0 /\ 0 \in Nat /\ 0 = 2 * 0 /\ 0 \in Positions
  BY PieceIs
<1>2. q \in Seq(Piece) /\ Len(q) = 1 /\ q[1] = <<0, Length>> /\ DOMAIN q = 1 .. 1
  <2>1. q \in Seq(Piece) /\ Len(q) = 0 + 1 /\ q[0 + 1] = <<0, Length>>
    <3> HIDE DEF q
    <3> QED
      BY <1>1, SepsIs DEF q
  <2> HIDE DEF q
  <2> QED
    BY <2>1
<1>3. s = <<>>
  <2>1. s \in Seq(Piece) /\ Len(s) = 0
    <3> DEFINE none == <<>>
    <3>1. none \in Seq(Piece) /\ Len(none) = 0 /\ 0 \in Nat /\ 0 = 2 * 0 /\ 0 \in Positions
      BY <1>1
    <3> HIDE DEF none
    <3>2. SepsOf(Whole(none, 0), FALSE) \in Seq(Piece) /\ Len(SepsOf(Whole(none, 0), FALSE)) = 0
      BY <3>1, SepsIs
    <3>3. SepsOf(Whole(none, 0), TRUE) \in Seq(Piece) /\ Len(SepsOf(Whole(none, 0), TRUE)) = 0
      BY <3>1, SepsIs
    <3> QED
      BY <3>2, <3>3 DEF none
  <2> HIDE DEF s
  <2> QED
    BY <2>1
<1> HIDE DEF q
<1>4. TiledIn(m, q, incCaps)
  <2>1. \A k \in DOMAIN q : k = 1
    BY <1>2
  <2>2. Len(q) - 1 = 0 /\ Length \in Nat
    BY <1>2, PieceIs
  <2> QED
    BY <1>2, <2>1, <2>2 DEF TiledIn
<1> QED
  BY <1>3, <1>4 DEF q

-----------------------------------------------------------------------------
(* The calls under way.                                                    *)

Frame ==
  [op : {"split", "scan", "replace", "test"}, flags : {"", "g"}, limit : Nat,
   incCaps : BOOLEAN, cached : BOOLEAN, own : Nat, last : Positions,
   pieces : Seq(Piece), callbacks : Nat, pc : {"exec", "callback"}]

\* what a call has found
FoundBy(c) == IF c.op = "split" THEN SepsOf(Whole(c.pieces, c.last), c.incCaps) ELSE c.pieces

\* a split has cut as many pieces as its limit allows, at most
WithinLimit(c) ==
  IF c.incCaps THEN \E h \in Nat : Len(c.pieces) = 2 * h /\ (c.limit > 0 => h <= c.limit - 1)
  ELSE c.limit > 0 => Len(c.pieces) <= c.limit - 1

\* What a call has found are the first matches of a search from the beginning; a split
\* could end here with the rest as its last piece; a replacement that calls its function
\* has found all there is.
FrameOK(m, c) ==
  /\ c.op = "split" => /\ c.flags = "g" /\ c.pc = "exec" /\ WithinLimit(c)
                       /\ TiledIn(m, Whole(c.pieces, c.last), c.incCaps)
  /\ c.op = "scan" => c.flags = "g" /\ c.pc = "exec"
  /\ c.op = "test" => c.flags = "" /\ c.pc = "exec"
  /\ c.flags = "g" => SearchedIn(m, FoundBy(c))
  /\ c.flags = "" /\ c.pc = "exec" => c.pieces = <<>>
  /\ c.pc = "callback" => IF c.flags = "g" THEN ExhaustedIn(m, c.pieces) ELSE c.pieces = OnlyIn(m)

\* the lastIndex of a call's object, which it finds as it left it
IndexOf(cache, c) == IF c.cached THEN cache[c.flags] ELSE c.own
HeldBy(cache, c) ==
  c.pc = "exec" =>
    /\ c.cached => c.flags \in DOMAIN cache
    /\ c.flags = "g" => IndexOf(cache, c) = NextFrom(FoundBy(c)) /\ c.last <= IndexOf(cache, c)

\* Only the last of the nested calls runs; the others wait for a function, and do not
\* look at their object again.
Nested(m, s) ==
  /\ s \in Seq(Frame)
  /\ \A k \in 1 .. Len(s) : FrameOK(m, s[k])
  /\ \A k \in 1 .. Len(s) - 1 : s[k].pc = "callback"

RegexInv ==
  /\ matcher \in Matchers
  /\ Nested(matcher, stack)
  /\ stack # <<>> => HeldBy(reCache, Top)
  /\ AnswerOK(matcher, returned)

LEMMA TopIs ==
  ASSUME NEW m, NEW s, Nested(m, s), s # <<>>
  PROVE  Last(s) \in Frame /\ FrameOK(m, Last(s))
<1>1. s \in Seq(Frame) /\ Len(s) \in 1 .. Len(s)
  BY EmptySeq DEF Nested
<1> QED
  BY <1>1 DEF Nested, Last

LEMMA FrontIs ==
  ASSUME NEW s \in Seq(Frame), s # <<>>
  PROVE  /\ Len(s) \in Nat /\ Len(s) > 0
         /\ Front(s) \in Seq(Frame) /\ Len(Front(s)) = Len(s) - 1
         /\ \A k \in 1 .. Len(s) - 1 : Front(s)[k] = s[k]
<1> DEFINE n == Len(s)
<1>1. n \in Nat /\ n > 0 /\ \A k \in 1 .. n : s[k] \in Frame
  BY EmptySeq
<1>2. 1 \in Int /\ n - 1 \in Int /\ \A k \in 1 .. n - 1 : s[k] \in Frame
  BY <1>1
<1> DEFINE f == SubSeq(s, 1, n - 1)
<1>3. /\ f \in Seq(Frame)
      /\ Len(f) = IF 1 <= n - 1 THEN n - 1 - 1 + 1 ELSE 0
      /\ \A k \in 1 .. n - 1 - 1 + 1 : f[k] = s[1 + k - 1]
  <2> HIDE DEF n
  <2> QED
    BY <1>2, SubSeqProperties
<1> HIDE DEF f, n
<1>4. n - 1 - 1 + 1 = n - 1 /\ \A k \in 1 .. n - 1 : 1 + k - 1 = k
  BY <1>1
<1>5. f \in Seq(Frame) /\ Len(f) = n - 1 /\ \A k \in 1 .. n - 1 : f[k] = s[k]
  BY <1>1, <1>3, <1>4
<1>6. Front(s) = f
  BY DEF Front, f, n
<1> QED
  BY <1>1, <1>5, <1>6 DEF n

\* a call returns, and the one under it waits for a function
LEMMA Popped ==
  ASSUME NEW m, NEW s, Nested(m, s), s # <<>>
  PROVE  Nested(m, Front(s)) /\ (Front(s) # <<>> => Last(Front(s)).pc = "callback")
<1> DEFINE n == Len(s)  f == Front(s)
<1>1. /\ n \in Nat /\ n > 0
      /\ f \in Seq(Frame) /\ Len(f) = n - 1
      /\ \A k \in 1 .. n - 1 : f[k] = s[k]
  BY FrontIs DEF Nested
<1>2. \A k \in 1 .. n : FrameOK(m, s[k])
  BY DEF Nested
<1>3. \A k \in 1 .. n - 1 : s[k].pc = "callback"
  BY DEF Nested
<1> HIDE DEF n, f
<1>4. Nested(m, f)
  BY <1>1, <1>2, <1>3 DEF Nested
<1>5. f # <<>> => Last(f).pc = "callback"
  <2>1. f # <<>> => n - 1 \in 1 .. n - 1
    BY <1>1
  <2>2. Last(f) = f[n - 1]
    BY <1>1 DEF Last
  <2> QED
    BY <1>1, <1>3, <2>1, <2>2
<1> QED
  BY <1>4, <1>5 DEF f

LEMMA Pushed ==
  ASSUME NEW m, NEW s, Nested(m, s), s # <<>> => Last(s).pc = "callback",
         NEW c \in Frame, FrameOK(m, c)
  PROVE  Nested(m, Append(s, c)) /\ Last(Append(s, c)) = c /\ Append(s, c) # <<>>
<1> DEFINE n == Len(s)  t == Append(s, c)
<1>1. s \in Seq(Frame) /\ n \in Nat /\ (s = <<>> <=> n = 0)
  BY DEF Nested
<1>2. /\ t \in Seq(Frame) /\ t # <<>> /\ Len(t) = n + 1
      /\ \A k \in 1 .. n : t[k] = s[k]
      /\ t[n + 1] = c
  BY <1>1, AppendProperties
<1>3. \A k \in 1 .. n : FrameOK(m, s[k])
  BY DEF Nested
<1>4. \A k \in 1 .. n : s[k].pc = "callback"
  <2>1. \A k \in 1 .. n - 1 : s[k].pc = "callback"
    BY DEF Nested
  <2>2. n # 0 => s[n].pc = "callback"
    BY <1>1 DEF Last
  <2> HIDE DEF n
  <2>3. \A k \in 1 .. n : k \in 1 .. n - 1 \/ (k = n /\ n # 0)
    BY <1>1
  <2> QED
    BY <2>1, <2>2, <2>3
<1> HIDE DEF n, t
<1>5. \A k \in 1 .. n + 1 : k \in 1 .. n \/ k = n + 1
  BY <1>1
<1>6. n + 1 - 1 = n
  BY <1>1
<1>7. Nested(m, t) /\ Last(t) = c
  BY <1>1, <1>2, <1>3, <1>4, <1>5, <1>6 DEF Nested, Last
<1> QED
  BY <1>2, <1>7 DEF t

\* the call that runs has moved
LEMMA Retopped ==
  ASSUME NEW m, NEW s, Nested(m, s), s # <<>>, NEW c \in Frame, FrameOK(m, c)
  PROVE  LET t == Append(Front(s), c) IN Nested(m, t) /\ Last(t) = c /\ t # <<>>
BY Popped, Pushed

-----------------------------------------------------------------------------
(* Steps.  What the invariant says of the next state, matcher aside.        *)

Goal ==
  /\ Nested(matcher, stack')
  /\ stack' # <<>> => HeldBy(reCache', Last(stack'))
  /\ AnswerOK(matcher, returned')

LEMMA RegexStart == RegexInit => RegexInv
<1> SUFFICES ASSUME RegexInit PROVE RegexInv
  OBVIOUS
<1>1. stack = <<>> /\ returned = Nothing /\ matcher \in Matchers
  BY DEF RegexInit
<1>2. Nested(matcher, <<>>)
  BY DEF Nested
<1>3. AnswerOK(matcher, Nothing)
  BY DEF AnswerOK, Nothing, CallOf
<1> QED
  BY <1>1, <1>2, <1>3 DEF RegexInv

\* the running call
LEMMA TopOK ==
  ASSUME RegexInv, stack # <<>>
  PROVE  /\ Top \in Frame /\ FrameOK(matcher, Top) /\ HeldBy(reCache, Top)
         /\ matcher \in Matchers /\ Nested(matcher, stack) /\ AnswerOK(matcher, returned)
BY TopIs DEF RegexInv, Top

\* a call that returns leaves one that waits
LEMMA Returns ==
  ASSUME RegexInv, stack # <<>>, NEW c, AnswerOK(matcher, c), Return(c)
  PROVE  Goal
<1>1. stack' = Front(stack) /\ returned' = c
  BY DEF Return
<1>2. Nested(matcher, Front(stack)) /\ (Front(stack) # <<>> => Last(Front(stack)).pc = "callback")
  BY Popped DEF RegexInv
<1>3. Front(stack) # <<>> => HeldBy(reCache', Last(Front(stack)))
  BY <1>2 DEF HeldBy
<1> QED
  BY <1>1, <1>2, <1>3 DEF Goal

LEMMA Continues ==
  ASSUME RegexInv, stack # <<>>, NEW c \in Frame, FrameOK(matcher, c), Continue(c),
         HeldBy(reCache', c)
  PROVE  Goal
<1>1. stack' = Append(Front(stack), c) /\ returned' = returned
  BY DEF Continue, SetTop
<1>2. Nested(matcher, stack') /\ Last(stack') = c /\ stack' # <<>>
  BY <1>1, Retopped DEF RegexInv
<1> QED
  BY <1>1, <1>2 DEF Goal, RegexInv

\* The next match of a call that searches globally is the first after those found.
LEMMA NextMatch ==
  ASSUME RegexInv, stack # <<>>, Top.pc = "exec", Top.flags = "g"
  PROVE  LET f == FoundBy(Top)
             x == MatchIn(matcher, NextFrom(f))
         IN /\ f \in Seq(Piece) /\ SearchedIn(matcher, f)
            /\ Top.cached => "g" \in DOMAIN reCache
            /\ Matches <=> FromIn(matcher, NextFrom(f)) # {}
            /\ Matches => /\ x \in Piece /\ x = <<Index, End>> /\ x[1] = Index /\ x[2] = End
                          /\ Top.last <= Index /\ Index <= End /\ matcher[Index] = End - Index
                          /\ PastMatch = After(x)
<1> DEFINE c == Top  m == matcher  f == FoundBy(c)  i == NextFrom(f)  x == MatchIn(m, i)
<1>1. c \in Frame /\ FrameOK(m, c) /\ HeldBy(reCache, c) /\ m \in Matchers
  BY TopOK
<1>2. SearchedIn(m, f)
  BY <1>1 DEF FrameOK
<1>3. f \in Seq(Piece)
  <2>1. c.pieces \in Seq(Piece) /\ c.last \in Positions /\ c.incCaps \in BOOLEAN
    BY <1>1 DEF Frame
  <2>2. CASE c.op = "split"
    <3>1. c.incCaps => \E h \in Nat : Len(c.pieces) = 2 * h
      BY <1>1, <2>2 DEF FrameOK, WithinLimit
    <3>2. SepsOf(Whole(c.pieces, c.last), c.incCaps) \in Seq(Piece)
      <4>1. CASE c.incCaps = TRUE
        BY <2>1, <3>1, <4>1, SepsIs
      <4>2. CASE c.incCaps = FALSE
        BY <2>1, <4>2, SepsIs
      <4> QED
        BY <2>1, <4>1, <4>2
    <3> QED
      BY <2>2, <3>2 DEF FoundBy
  <2>3. CASE c.op # "split"
    BY <2>1, <2>3 DEF FoundBy
  <2> QED
    BY <2>2, <2>3
<1>4. (c.cached => "g" \in DOMAIN reCache) /\ IndexOf(reCache, c) = i /\ c.last <= i
  BY <1>1 DEF HeldBy
<1>5. Start = i
  BY <1>4 DEF Start, LastIndex, IndexOf
<1>6. Matches <=> FromIn(m, i) # {}
  BY <1>5, SameSearch DEF Matches
<1>7. Index = FirstIn(m, i) /\ End = Index + m[Index]
  BY <1>5, SameSearch DEF Index, End
<1>8. x = <<Index, End>> /\ x[1] = Index /\ x[2] = End
  BY <1>7 DEF MatchIn
<1>9. ASSUME Matches
      PROVE  /\ x \in Piece /\ c.last <= Index /\ Index <= End /\ m[Index] = End - Index
             /\ PastMatch = After(x)
  <2> HIDE DEF i, x, m, c
  <2>1. x \in Piece /\ i <= x[1] /\ x[1] <= x[2] /\ m[x[1]] = x[2] - x[1]
    BY <1>1, <1>6, <1>9, MatchIs DEF x
  <2>2. c.last \in Nat /\ i \in Nat /\ x[1] \in Nat
    BY <1>1, <1>3, <2>1, NextFromIs, PieceIs DEF Frame, i
  <2>3. c.last <= Index
    BY <1>4, <1>8, <2>1, <2>2
  <2>4. PastMatch = After(x)
    BY <1>8 DEF PastMatch, After
  <2> QED
    BY <1>8, <2>1, <2>3, <2>4
<1> QED
  BY <1>2, <1>3, <1>4, <1>6, <1>8, <1>9

\* after SetLastIndex the object is where the call wants it
LEMMA IndexIsSet ==
  ASSUME NEW i, SetLastIndex(i), Top.cached => "g" \in DOMAIN reCache,
         NEW c, c.cached = Top.cached, c.flags = "g", Top.flags = "g", c.own = i
  PROVE  IndexOf(reCache', c) = i /\ (c.cached => c.flags \in DOMAIN reCache')
BY DEF SetLastIndex, IndexOf

-----------------------------------------------------------------------------
(* One lemma per action.                                                   *)

LEMMA Beginning ==
  /\ <<>> \in Seq(Piece) /\ Len(<<>>) = 2 * 0
  /\ 0 \in Positions /\ 0 \in Nat
  /\ \A limit \in Nat : limit > 0 => 0 <= limit - 1
BY PieceIs

KindOf(op, flags) ==
  /\ op \in {"split", "scan", "replace", "test"} /\ flags \in {"", "g"}
  /\ op \in {"split", "scan"} => flags = "g"
  /\ op = "test" => flags = ""

\* a call that begins has found nothing, at the beginning
LEMMA NewCall ==
  ASSUME NEW m, NEW op, NEW flags, NEW limit \in Nat, NEW incCaps \in BOOLEAN,
         NEW cached \in BOOLEAN, KindOf(op, flags)
  PROVE  LET c == CallOf(op, flags, limit, incCaps, cached)
         IN c \in Frame /\ FrameOK(m, c) /\ FoundBy(c) = <<>> /\ c.last = 0 /\ c.own = 0
            /\ c.cached = cached /\ c.flags = flags
<1> DEFINE c == CallOf(op, flags, limit, incCaps, cached)
<1>1. /\ c.op = op /\ c.flags = flags /\ c.limit = limit /\ c.incCaps = incCaps /\ c.cached = cached
      /\ c.own = 0 /\ c.last = 0 /\ c.pieces = <<>> /\ c.callbacks = 0 /\ c.pc = "exec"
  BY DEF CallOf
<1>2. c \in Frame
  BY Beginning DEF CallOf, Frame, KindOf
<1> HIDE DEF c
<1>3. FoundBy(c) = <<>>
  BY <1>1, NothingCut DEF FoundBy
<1>4. op = "split" => WithinLimit(c) /\ TiledIn(m, Whole(c.pieces, c.last), c.incCaps)
  <2>1. Len(c.pieces) = 2 * 0 /\ 0 \in Nat
    BY <1>1, Beginning
  <2>2. c.limit > 0 => 0 <= c.limit - 1
    BY <1>1, Beginning
  <2>3. WithinLimit(c)
    <3>1. CASE incCaps = TRUE
      <4>1. \E h \in Nat : Len(c.pieces) = 2 * h /\ (c.limit > 0 => h <= c.limit - 1)
        BY <2>1, <2>2, Zenon
      <4> QED
        BY <1>1, <3>1, <4>1 DEF WithinLimit
    <3>2. CASE incCaps = FALSE
      <4>1. Len(c.pieces) = 0
        BY <2>1
      <4> QED
        BY <1>1, <2>2, <3>2, <4>1, Zenon DEF WithinLimit
    <3> QED
      BY <3>1, <3>2
  <2> QED
    BY <1>1, <2>3, NothingCut
<1>5. FrameOK(m, c)
  <2>1. SearchedIn(m, FoundBy(c))
    BY <1>3, SearchedEmpty
  <2> QED
    BY <1>1, <1>4, <2>1 DEF FrameOK, KindOf
<1> QED
  BY <1>1, <1>2, <1>3, <1>5 DEF c

LEMMA Jsred ==
  ASSUME RegexInv, stack # <<>> => Top.pc = "callback", returned' = returned,
         NEW op, NEW flags, NEW limit \in Nat, NEW incCaps \in BOOLEAN,
         KindOf(op, flags), Jsre(flags, op, limit, incCaps)
  PROVE  Goal
<1> DEFINE cached == Holds(flags) \/ Fits
           c == CallOf(op, flags, limit, incCaps, cached)
<1>1. cached \in BOOLEAN
  BY DEF Holds
<1>2. /\ reCache' = IF cached THEN WithObject(flags) ELSE reCache
      /\ stack' = Append(stack, c)
  BY DEF Jsre
<1> HIDE DEF cached
<1>3. /\ c \in Frame /\ FrameOK(matcher, c) /\ FoundBy(c) = <<>> /\ c.last = 0 /\ c.own = 0
      /\ c.cached = cached /\ c.flags = flags
  BY <1>1, NewCall
<1> HIDE DEF c
<1>4. Nested(matcher, stack) /\ AnswerOK(matcher, returned)
  BY DEF RegexInv
<1>5. stack # <<>> => Last(stack).pc = "callback"
  BY DEF Top
<1>6. Nested(matcher, stack') /\ Last(stack') = c /\ stack' # <<>>
  BY <1>2, <1>3, <1>4, <1>5, Pushed
<1>7. cached => flags \in DOMAIN reCache' /\ reCache'[flags] = 0
  BY <1>2 DEF WithObject
<1>8. HeldBy(reCache', c)
  <2>1. c.own = 0 /\ c.last = 0 /\ FoundBy(c) = <<>> /\ (c.cached => reCache'[c.flags] = 0)
    BY <1>3, <1>7
  <2>2. IndexOf(reCache', c) = 0
    BY <2>1 DEF IndexOf
  <2>3. NextFrom(FoundBy(c)) = 0
    BY <2>1, SearchedEmpty
  <2>4. 0 <= 0
    OBVIOUS
  <2> QED
    BY <1>3, <1>7, <2>1, <2>2, <2>3, <2>4 DEF HeldBy
<1> QED
  BY <1>4, <1>6, <1>8 DEF Goal

LEMMA CallKept == ASSUME RegexInv, Call PROVE Goal
<1>1. stack # <<>> => Top.pc = "callback"
  BY DEF Call, InCallback
<1>2. returned' = returned /\ Limits \subseteq Nat /\ 0 \in Nat
  BY RegexAssumption DEF Call, RegexAssumption
<1>b. /\ KindOf("split", "g") /\ KindOf("scan", "g") /\ KindOf("test", "")
      /\ \A flags \in {"", "g"} : KindOf("replace", flags)
  BY DEF KindOf
<1>3. CASE \E limit \in Limits, incCaps \in BOOLEAN : Jsre("g", "split", limit, incCaps)
  <2>1. PICK limit \in Limits, incCaps \in BOOLEAN : Jsre("g", "split", limit, incCaps)
    BY <1>3
  <2>2. limit \in Nat
    BY <1>2
  <2> QED
    BY <1>1, <1>2, <1>b, <2>1, <2>2, Jsred
<1>4. CASE Jsre("g", "scan", 0, FALSE)
  BY <1>1, <1>2, <1>b, <1>4, Jsred
<1>5. CASE Jsre("", "test", 0, FALSE)
  BY <1>1, <1>2, <1>b, <1>5, Jsred
<1>6. CASE \E flags \in {"", "g"} : Jsre(flags, "replace", 0, FALSE)
  BY <1>1, <1>2, <1>b, <1>6, Jsred
<1> QED
  BY <1>3, <1>4, <1>5, <1>6 DEF Call

LEMMA SplitEndsKept == ASSUME RegexInv, SplitEnds PROVE Goal
<1> DEFINE c == Top  f == FoundBy(c)  p == c.pieces  l == c.last  q == Whole(p, l)  r == Rest(c)
<1>1. stack # <<>> /\ c.op = "split" /\ c.pc = "exec" /\ Return(r)
  BY DEF SplitEnds, Executes
<1>2. c \in Frame /\ FrameOK(matcher, c)
  BY <1>1, TopOK
<1>3. /\ p \in Seq(Piece) /\ l \in Positions /\ c.incCaps \in BOOLEAN /\ c.limit \in Nat
      /\ c.flags = "g" /\ WithinLimit(c) /\ TiledIn(matcher, q, c.incCaps) /\ f = SepsOf(q, c.incCaps)
  BY <1>1, <1>2 DEF Frame, FrameOK, FoundBy
<1>4. /\ r.op = "split" /\ r.incCaps = c.incCaps /\ r.limit = c.limit /\ r.flags = "g" /\ r.pieces = q
  BY <1>1, <1>2, <1>3 DEF Rest, Whole, Frame
<1>5. SearchedIn(matcher, f) /\ (Matches <=> FromIn(matcher, NextFrom(f)) # {})
  BY <1>1, <1>3, NextMatch
<1>6. ~Matches \/ PartsFull(c)
  BY DEF SplitEnds
<1> DEFINE n == Len(p)
<1>0. p = c.pieces /\ f = SepsOf(q, c.incCaps)
  BY <1>3
<1> HIDE DEF p, l, c, r, f
<1>10. p \in Seq(Piece) /\ l \in Positions
  BY <1>3
<1>11. /\ q \in Seq(Piece) /\ Len(q) = Len(p) + 1 /\ q[Len(p) + 1] = <<l, Length>>
       /\ SepsOf(q, FALSE) \in Seq(Piece) /\ Len(SepsOf(q, FALSE)) = Len(p)
       /\ \A h \in Nat : Len(p) = 2 * h => SepsOf(q, TRUE) \in Seq(Piece) /\ Len(SepsOf(q, TRUE)) = h
  BY <1>10, SepsIs
<1> HIDE DEF q
<1>7. n \in Nat /\ Len(q) = n + 1 /\ q[n + 1] = <<l, Length>>
  BY <1>10, <1>11
<1>8. /\ Len(f) \in Nat
      /\ PartsFull(c) => c.limit > 0 /\ Len(f) = c.limit - 1
      /\ c.limit > 0 => Len(q) <= IF c.incCaps THEN 2 * c.limit - 1 ELSE c.limit
  <2>1. CASE c.incCaps = TRUE
    <3>1. PICK h \in Nat : n = 2 * h /\ (c.limit > 0 => h <= c.limit - 1)
      BY <1>0, <1>3, <2>1 DEF WithinLimit
    <3>2. Len(f) = h
      BY <1>0, <1>11, <2>1, <3>1
    <3>3. PartsFull(c) => c.limit > 0 /\ n >= 2 * (c.limit - 1)
      BY <1>0, <2>1 DEF PartsFull
    <3>4. c.limit \in Nat
      BY <1>3
    <3> HIDE DEF n, q, f, c
    <3> QED
      BY <1>7, <2>1, <3>1, <3>2, <3>3, <3>4
  <2>2. CASE c.incCaps = FALSE
    <3>1. c.limit > 0 => n <= c.limit - 1
      BY <1>0, <1>3, <2>2 DEF WithinLimit
    <3>2. Len(f) = n
      BY <1>0, <1>11, <2>2
    <3>3. PartsFull(c) => c.limit > 0 /\ n >= 1 * (c.limit - 1)
      BY <1>0, <2>2 DEF PartsFull
    <3>4. c.limit \in Nat
      BY <1>3
    <3> HIDE DEF n, q, f, c
    <3> QED
      BY <1>7, <2>2, <3>1, <3>2, <3>3, <3>4
  <2> QED
    BY <1>3, <2>1, <2>2
<1>9. AnswerOK(matcher, r)
  <2>1. ExhaustedIn(matcher, f) \/ (c.limit > 0 /\ Len(f) = c.limit - 1)
    BY <1>5, <1>6, <1>8 DEF ExhaustedIn
  <2>2. r.pieces[Len(r.pieces)][2] = Length
    BY <1>4, <1>7
  <2> HIDE DEF r, q, f, c
  <2> QED
    BY <1>3, <1>4, <1>5, <1>8, <2>1, <2>2 DEF AnswerOK
<1> QED
  BY <1>1, <1>9, Returns DEF c

LEMMA SplitAtKept == ASSUME RegexInv, SplitAt PROVE Goal
<1> DEFINE c == Top  f == FoundBy(c)  p == c.pieces  l == c.last  m == matcher  b == c.incCaps
           x == MatchIn(m, NextFrom(f))
           r == Cut(p, l, x, b)
           d0 == [c EXCEPT !.pieces = r, !.last = End]
           d == Owning(d0, PastMatch)
<1>1. stack # <<>> /\ c.op = "split" /\ c.pc = "exec" /\ Matches /\ ~PartsFull(c) /\ SetLastIndex(PastMatch)
  BY DEF SplitAt, Executes
<1>2. c \in Frame /\ FrameOK(m, c) /\ m \in Matchers
  BY <1>1, TopOK
<1>3. /\ p \in Seq(Piece) /\ l \in Positions /\ b \in BOOLEAN /\ c.limit \in Nat
      /\ c.flags = "g" /\ WithinLimit(c) /\ TiledIn(m, Whole(p, l), b) /\ f = SepsOf(Whole(p, l), b)
  BY <1>1, <1>2 DEF Frame, FrameOK, FoundBy
<1>4. /\ f \in Seq(Piece) /\ SearchedIn(m, f) /\ (c.cached => "g" \in DOMAIN reCache)
      /\ FromIn(m, NextFrom(f)) # {}
      /\ x \in Piece /\ x = <<Index, End>> /\ x[1] = Index /\ x[2] = End
      /\ l <= Index /\ Index <= End /\ m[Index] = End - Index
      /\ PastMatch = After(x)
  BY <1>1, <1>3, NextMatch
<1>5. Continue(d)
  <2>1. Continue(Owning([Top EXCEPT !.pieces = IF Top.incCaps
                                               THEN Append(Append(Top.pieces, <<Top.last, Index>>),
                                                           <<Index, End>>)
                                               ELSE Append(Top.pieces, <<Top.last, Index>>),
                                    !.last = End], PastMatch))
    BY DEF SplitAt
  <2>2. r = IF Top.incCaps THEN Append(Append(Top.pieces, <<Top.last, Index>>), <<Index, End>>)
            ELSE Append(Top.pieces, <<Top.last, Index>>)
    <3> HIDE DEF x
    <3> QED
      BY <1>4, Zenon DEF Cut
  <2> QED
    BY <2>1, <2>2, Zenon
<1>6. SearchedIn(m, Append(f, x)) /\ NextFrom(Append(f, x)) = After(x) /\ After(x) \in Nat /\ End <= After(x)
      /\ End \in Positions /\ Append(f, x) \in Seq(Piece)
  <2> HIDE DEF f, m
  <2>1. SearchedIn(m, Append(f, x))
    BY <1>2, <1>4, SearchedAppend
  <2> HIDE DEF x
  <2> QED
    BY <1>4, <2>1, NextFromIs, AfterIs, PieceIs
<1>p. p = c.pieces /\ b = c.incCaps /\ l = c.last
  OBVIOUS
<1>7. /\ r \in Seq(Piece) /\ TiledIn(m, Whole(r, End), b)
      /\ SepsOf(Whole(r, End), b) = Append(f, x)
      /\ IF b THEN \E h \in Nat : Len(r) = 2 * h /\ (c.limit > 0 => h <= c.limit - 1)
         ELSE c.limit > 0 => Len(r) <= c.limit - 1
  <2> HIDE DEF x, f, p, l, m, c, b
  <2>1. CASE b = TRUE
    <3>1. PICK h \in Nat : Len(p) = 2 * h /\ (c.limit > 0 => h <= c.limit - 1)
      BY <1>3, <1>p, <2>1 DEF WithinLimit
    <3>2. c.limit > 0 => ~(Len(p) >= 2 * (c.limit - 1))
      BY <1>1, <1>p, <2>1 DEF PartsFull
    <3>3. h + 1 \in Nat /\ (c.limit > 0 => h + 1 <= c.limit - 1)
      <4>1. c.limit \in Nat
        BY <1>3
      <4> QED
        BY <3>1, <3>2, <4>1
    <3>4. /\ TiledIn(m, Whole(Cut(p, l, x, TRUE), x[2]), TRUE)
          /\ SepsOf(Whole(Cut(p, l, x, TRUE), x[2]), TRUE) = Append(SepsOf(Whole(p, l), TRUE), x)
          /\ Cut(p, l, x, TRUE) \in Seq(Piece) /\ Len(Cut(p, l, x, TRUE)) = 2 * (h + 1)
      <4>1. /\ m \in Matchers /\ p \in Seq(Piece) /\ h \in Nat /\ Len(p) = 2 * h /\ l \in Positions /\ x \in Piece
            /\ TiledIn(m, Whole(p, l), TRUE) /\ l <= x[1] /\ x[1] <= x[2]
        BY <1>2, <1>3, <1>4, <2>1, <3>1
      <4>2. CutsTo(m, p, h, l, x)
        BY <4>1, CutWith, Zenon
      <4> QED
        BY <4>2 DEF CutsTo
    <3>5. /\ r \in Seq(Piece) /\ TiledIn(m, Whole(r, End), b)
          /\ SepsOf(Whole(r, End), b) = Append(f, x)
          /\ Len(r) = 2 * (h + 1)
      BY <1>3, <1>4, <2>1, <3>4
    <3> QED
      BY <2>1, <3>3, <3>5
  <2>2. CASE b = FALSE
    <3>1. c.limit > 0 => ~(Len(p) >= 1 * (c.limit - 1))
      BY <1>1, <1>p, <2>2 DEF PartsFull
    <3>2. Len(p) \in Nat /\ c.limit \in Nat
      BY <1>3
    <3>3. c.limit > 0 => Len(p) + 1 <= c.limit - 1
      BY <3>1, <3>2
    <3>4. /\ TiledIn(m, Whole(Cut(p, l, x, FALSE), x[2]), FALSE)
          /\ SepsOf(Whole(Cut(p, l, x, FALSE), x[2]), FALSE) = Append(SepsOf(Whole(p, l), FALSE), x)
          /\ Cut(p, l, x, FALSE) \in Seq(Piece) /\ Len(Cut(p, l, x, FALSE)) = Len(p) + 1
      <4>1. /\ m \in Matchers /\ p \in Seq(Piece) /\ l \in Positions /\ x \in Piece
            /\ TiledIn(m, Whole(p, l), FALSE) /\ l <= x[1] /\ x[1] <= x[2] /\ m[x[1]] = x[2] - x[1]
        BY <1>2, <1>3, <1>4, <2>2
      <4> QED
        BY <4>1, CutWithout
    <3>5. /\ r \in Seq(Piece) /\ TiledIn(m, Whole(r, End), b)
          /\ SepsOf(Whole(r, End), b) = Append(f, x)
          /\ Len(r) = Len(p) + 1
      BY <1>3, <1>4, <2>2, <3>4
    <3> QED
      BY <2>2, <3>3, <3>5
  <2> QED
    BY <1>3, <2>1, <2>2
<1> HIDE DEF r, x
<1>8. d \in Frame
  <2>1. End \in Positions /\ PastMatch \in Nat /\ r \in Seq(Piece)
    BY <1>4, <1>6, <1>7
  <2>2. d0 \in Frame
    BY <1>2, <2>1, Zenon DEF Frame
  <2> HIDE DEF d0
  <2> QED
    BY <2>1, <2>2, Zenon DEF Frame, Owning
<1>9. /\ d.op = "split" /\ d.flags = "g" /\ d.pc = "exec" /\ d.limit = c.limit /\ d.incCaps = b
      /\ d.cached = c.cached /\ d.own = PastMatch /\ d.last = End /\ d.pieces = r
  BY <1>1, <1>2, <1>3 DEF Frame, Owning
<1> HIDE DEF d, d0, b
<1>10. FoundBy(d) = Append(f, x)
  BY <1>7, <1>9 DEF FoundBy
<1>11. WithinLimit(d)
  BY <1>7, <1>9 DEF WithinLimit
<1> HIDE DEF f, c
<1>12. FrameOK(m, d)
  <2>1. TiledIn(m, Whole(d.pieces, d.last), d.incCaps) /\ SearchedIn(m, FoundBy(d))
    BY <1>6, <1>7, <1>9, <1>10
  <2> QED
    BY <1>9, <1>11, <2>1 DEF FrameOK
<1>13. HeldBy(reCache', d)
  <2>1. IndexOf(reCache', d) = PastMatch /\ (d.cached => d.flags \in DOMAIN reCache')
    BY <1>1, <1>3, <1>4, <1>9, IndexIsSet DEF c
  <2> QED
    BY <1>4, <1>6, <1>9, <1>10, <2>1 DEF HeldBy
<1> QED
  BY <1>1, <1>5, <1>8, <1>12, <1>13, Continues

\* a call without the flag g looks from the beginning
LEMMA OnlyMatch ==
  ASSUME RegexInv, stack # <<>>, Top.flags = ""
  PROVE  /\ Matches <=> FromIn(matcher, 0) # {}
         /\ <<Index, End>> = MatchIn(matcher, 0)
         /\ Matches => <<Index, End>> \in Piece
<1>1. Start = 0
  BY DEF Start
<1>2. Matches <=> FromIn(matcher, 0) # {}
  BY <1>1, SameSearch DEF Matches
<1>3. <<Index, End>> = MatchIn(matcher, 0)
  BY <1>1, SameSearch DEF Index, End, MatchIn
<1>4. matcher \in Matchers
  BY DEF RegexInv
<1>5. Matches => MatchIn(matcher, 0) \in Piece
  BY <1>2, <1>4, MatchIs
<1> QED
  BY <1>2, <1>3, <1>5

LEMMA CollectEndsKept == ASSUME RegexInv, CollectEnds PROVE Goal
<1> DEFINE c == Top  m == matcher
<1>1. /\ stack # <<>> /\ c.op \in {"scan", "replace"} /\ c.pc = "exec"
      /\ ~Matches /\ SetLastIndex(0) /\ Collected
  BY DEF CollectEnds, Executes
<1>2. c \in Frame /\ FrameOK(m, c)
  BY <1>1, TopOK
<1>3. c.flags \in {"", "g"} /\ (c.op = "scan" => c.flags = "g")
  BY <1>2 DEF Frame, FrameOK
<1>4. c.flags = "g" => SearchedIn(m, c.pieces) /\ ExhaustedIn(m, c.pieces)
  <2> SUFFICES ASSUME c.flags = "g" PROVE SearchedIn(m, c.pieces) /\ ExhaustedIn(m, c.pieces)
    OBVIOUS
  <2>1. FoundBy(c) = c.pieces
    BY <1>1 DEF FoundBy
  <2>2. SearchedIn(m, FoundBy(c)) /\ FromIn(m, NextFrom(FoundBy(c))) = {}
    BY <1>1, NextMatch
  <2> QED
    BY <2>1, <2>2 DEF ExhaustedIn
<1>5. c.flags = "" => c.pieces = OnlyIn(m)
  BY <1>1, <1>2, OnlyMatch DEF FrameOK, OnlyIn
<1>6. CASE c.op = "scan"
  <2>1. Return(c)
    BY <1>1, <1>6 DEF Collected
  <2>2. AnswerOK(m, c)
    BY <1>3, <1>4, <1>6 DEF AnswerOK
  <2> QED
    BY <1>1, <2>1, <2>2, Returns
<1>7. CASE c.op = "replace"
  <2> DEFINE d == [c EXCEPT !.pc = "callback"]
  <2>1. Continue(d)
    BY <1>1, <1>7 DEF Collected
  <2>2. d \in Frame
    BY <1>2, Zenon DEF Frame
  <2>3. d.op = "replace" /\ d.flags = c.flags /\ d.pc = "callback" /\ d.pieces = c.pieces
    BY <1>2, <1>7 DEF Frame
  <2> HIDE DEF d
  <2>4. FrameOK(m, d)
    <3>1. FoundBy(d) = d.pieces
      BY <2>3 DEF FoundBy
    <3> HIDE DEF c, m
    <3> QED
      BY <1>3, <1>4, <1>5, <2>3, <3>1 DEF FrameOK
  <2>5. HeldBy(reCache', d)
    BY <2>3 DEF HeldBy
  <2> QED
    BY <1>1, <2>1, <2>2, <2>4, <2>5, Continues
<1> QED
  BY <1>1, <1>6, <1>7

LEMMA CollectKept == ASSUME RegexInv, Collect PROVE Goal
<1> DEFINE c == Top  m == matcher  f == c.pieces
           e == [c EXCEPT !.pieces = Append(@, <<Index, End>>)]
<1>1. /\ stack # <<>> /\ c.op \in {"scan", "replace"} /\ c.pc = "exec"
      /\ Matches /\ SetLastIndex(PastMatch)
      /\ IF c.flags = "g" THEN Continue(Owning(e, PastMatch))
         ELSE Continue([e EXCEPT !.pc = "callback"])
  BY DEF Collect, Executes
<1>2. c \in Frame /\ FrameOK(m, c) /\ m \in Matchers
  BY <1>1, TopOK
<1>3. /\ c.flags \in {"", "g"} /\ (c.op = "scan" => c.flags = "g") /\ f \in Seq(Piece)
      /\ c.last \in Positions /\ FoundBy(c) = f
  BY <1>1, <1>2 DEF Frame, FrameOK, FoundBy
<1>4. CASE c.flags = "g"
  <2> DEFINE x == MatchIn(m, NextFrom(f))  d == Owning(e, PastMatch)
  <2>1. /\ SearchedIn(m, f) /\ (c.cached => "g" \in DOMAIN reCache)
        /\ FromIn(m, NextFrom(f)) # {}
        /\ x \in Piece /\ x = <<Index, End>> /\ x[1] = Index /\ x[2] = End
        /\ c.last <= Index /\ Index <= End
        /\ PastMatch = After(x)
    BY <1>1, <1>3, <1>4, NextMatch
  <2>2. SearchedIn(m, Append(f, x)) /\ NextFrom(Append(f, x)) = After(x)
        /\ After(x) \in Nat /\ c.last <= After(x) /\ Append(f, x) \in Seq(Piece)
    <3> HIDE DEF f, m
    <3>1. SearchedIn(m, Append(f, x))
      BY <1>2, <1>3, <2>1, SearchedAppend
    <3> HIDE DEF x, c
    <3>2. /\ NextFrom(Append(f, x)) = After(x) /\ After(x) \in Nat /\ x[2] <= After(x)
          /\ Append(f, x) \in Seq(Piece)
      <4>1. f \in Seq(Piece) /\ x \in Piece
        BY <1>3, <2>1
      <4> QED
        BY <4>1, NextFromIs, AfterIs, Appended
    <3>3. x[1] \in Nat /\ x[2] \in Nat /\ c.last \in Nat
      BY <1>3, <2>1, PieceIs
    <3>4. c.last <= x[1] /\ x[1] <= x[2]
      BY <2>1
    <3>5. c.last <= After(x)
      BY <3>2, <3>3, <3>4
    <3> QED
      BY <3>1, <3>2, <3>5
  <2>3. d \in Frame
    <3>1. Append(f, <<Index, End>>) \in Seq(Piece) /\ PastMatch \in Nat
      <4> HIDE DEF f, x
      <4> QED
        BY <2>1, <2>2
    <3>2. e \in Frame
      BY <1>2, <3>1, Zenon DEF Frame
    <3> HIDE DEF e
    <3> QED
      BY <3>1, <3>2, Zenon DEF Frame, Owning
  <2>4. /\ d.op = c.op /\ d.flags = "g" /\ d.pc = "exec" /\ d.cached = c.cached
        /\ d.own = PastMatch /\ d.last = c.last /\ d.pieces = Append(f, <<Index, End>>)
    BY <1>1, <1>2, <1>4 DEF Frame, Owning
  <2>5. Continue(d)
    BY <1>1, <1>4
  <2> HIDE DEF d, e, f, x
  <2>6. d.pieces = Append(f, x) /\ FoundBy(d) = Append(f, x)
    <3>1. d.pieces = Append(f, x)
      BY <2>1, <2>4
    <3> QED
      BY <1>1, <2>4, <3>1 DEF FoundBy
  <2>7. FrameOK(m, d)
    BY <1>1, <2>2, <2>4, <2>6 DEF FrameOK
  <2>8. HeldBy(reCache', d)
    <3>1. IndexOf(reCache', d) = PastMatch /\ (d.cached => d.flags \in DOMAIN reCache')
      BY <1>1, <1>4, <2>1, <2>4, IndexIsSet
    <3> QED
      BY <2>1, <2>2, <2>4, <2>6, <3>1 DEF HeldBy
  <2> QED
    BY <1>1, <2>3, <2>5, <2>7, <2>8, Continues
<1>5. CASE c.flags = ""
  <2> DEFINE d == [e EXCEPT !.pc = "callback"]
  <2>1. FromIn(m, 0) # {} /\ <<Index, End>> = MatchIn(m, 0) /\ <<Index, End>> \in Piece
    BY <1>1, <1>5, OnlyMatch
  <2>2. f = <<>>
    BY <1>1, <1>2, <1>5 DEF FrameOK
  <2>3. Append(f, <<Index, End>>) = OnlyIn(m)
    BY <2>1, <2>2 DEF OnlyIn
  <2>4. d \in Frame
    <3>1. Append(f, <<Index, End>>) \in Seq(Piece)
      <4>1. f \in Seq(Piece) /\ <<Index, End>> \in Piece
        BY <1>3, <2>1
      <4> HIDE DEF f
      <4> QED
        BY <4>1, Appended
    <3>2. e \in Frame
      BY <1>2, <3>1, Zenon DEF Frame
    <3> HIDE DEF e
    <3> QED
      BY <3>2, Zenon DEF Frame
  <2>5. d.op = "replace" /\ d.flags = "" /\ d.pc = "callback" /\ d.pieces = Append(f, <<Index, End>>)
    BY <1>1, <1>2, <1>3, <1>5 DEF Frame
  <2>6. Continue(d)
    BY <1>1, <1>5
  <2> HIDE DEF d, e, f
  <2>7. FrameOK(m, d)
    BY <2>3, <2>5 DEF FrameOK
  <2>8. HeldBy(reCache', d)
    BY <2>5 DEF HeldBy
  <2> QED
    BY <1>1, <2>4, <2>6, <2>7, <2>8, Continues
<1> QED
  BY <1>3, <1>4, <1>5

LEMMA CalledBackKept == ASSUME RegexInv, CalledBack PROVE Goal
<1> DEFINE c == Top  m == matcher  d == [c EXCEPT !.callbacks = @ + 1]
<1>1. stack # <<>> /\ c.pc = "callback" /\ Continue(d)
  BY DEF CalledBack, InCallback
<1>2. c \in Frame /\ FrameOK(m, c)
  BY <1>1, TopOK
<1>3. d \in Frame
  <2>1. c.callbacks + 1 \in Nat
    <3>1. c.callbacks \in Nat
      BY <1>2 DEF Frame
    <3> HIDE DEF c
    <3> QED
      BY <3>1
  <2> QED
    BY <1>2, <2>1, Zenon DEF Frame
<1>4. /\ d.op = c.op /\ d.flags = c.flags /\ d.limit = c.limit /\ d.incCaps = c.incCaps
      /\ d.last = c.last /\ d.pieces = c.pieces /\ d.pc = c.pc
  BY <1>2 DEF Frame
<1> HIDE DEF d, c
<1>5. FrameOK(m, d)
  BY <1>2, <1>4 DEF FrameOK, FoundBy, WithinLimit
<1>6. HeldBy(reCache', d)
  BY <1>1, <1>4 DEF HeldBy
<1> QED
  BY <1>1, <1>3, <1>5, <1>6, Continues

LEMMA ReplaceEndsKept == ASSUME RegexInv, ReplaceEnds PROVE Goal
<1>1. stack # <<>> /\ Top.pc = "callback" /\ Return(Top)
  BY DEF ReplaceEnds
<1>2. Top \in Frame /\ FrameOK(matcher, Top)
  BY <1>1, TopOK
<1>3. Top.op = "replace" /\ Top.flags \in {"", "g"} /\ FoundBy(Top) = Top.pieces
  BY <1>1, <1>2 DEF Frame, FrameOK, FoundBy
<1>4. AnswerOK(matcher, Top)
  BY <1>1, <1>2, <1>3 DEF FrameOK, AnswerOK
<1> QED
  BY <1>1, <1>4, Returns

LEMMA TestKept == ASSUME RegexInv, Test PROVE Goal
<1> DEFINE c == Top  m == matcher
           r == IF Matches THEN [c EXCEPT !.pieces = <<<<Index, End>>>>] ELSE c
<1>1. stack # <<>> /\ c.op = "test" /\ c.pc = "exec" /\ Return(r)
  BY DEF Test, Executes
<1>2. c \in Frame /\ FrameOK(m, c)
  BY <1>1, TopOK
<1>3. c.flags = "" /\ c.pieces = <<>>
  BY <1>1, <1>2 DEF FrameOK
<1>4. r.op = "test" /\ r.pieces = IF Matches THEN <<<<Index, End>>>> ELSE <<>>
  BY <1>1, <1>2, <1>3 DEF Frame
<1>5. r.pieces = OnlyIn(m)
  <2>1. (Matches <=> FromIn(m, 0) # {}) /\ <<Index, End>> = MatchIn(m, 0)
    BY <1>1, <1>3, OnlyMatch
  <2> QED
    BY <1>4, <2>1 DEF OnlyIn
<1> HIDE DEF r
<1>6. AnswerOK(m, r)
  BY <1>4, <1>5 DEF AnswerOK
<1> QED
  BY <1>1, <1>6, Returns

-----------------------------------------------------------------------------
(* The theorems.                                                           *)

LEMMA RegexStep == RegexInv /\ [RegexNext]_regexVars => RegexInv'
<1> SUFFICES ASSUME RegexInv, [RegexNext]_regexVars PROVE RegexInv'
  OBVIOUS
<1>1. CASE UNCHANGED regexVars
  BY <1>1 DEF RegexInv, regexVars, Nested, FrameOK, HeldBy, IndexOf, Top
<1>2. CASE RegexNext
  <2>1. Goal
    BY <1>2, CallKept, SplitEndsKept, SplitAtKept, CollectEndsKept, CollectKept, CalledBackKept,
       ReplaceEndsKept, TestKept DEF RegexNext, Loop
  <2>2. matcher' = matcher
    BY <1>2 DEF RegexNext, Loop, Call, SplitEnds, SplitAt, CollectEnds, Collected, Collect, CalledBack,
                ReplaceEnds, Test, Return, Continue
  <2> QED
    BY <2>1, <2>2 DEF RegexInv, Goal, Top
<1> QED
  BY <1>1, <1>2

\* Every call to a regular expression answers as it would on an object nobody has used
\* before, whatever the calls before it left in the cache and whatever the functions of
\* the replacements did with the same object (imports.mjs: jsre, re_scan, re_split,
\* re_replace, re_test).
THEOREM RegexAnswersAsFresh == RegexSpec => []AsIfFresh
<1>1. RegexInv => AsIfFresh
  BY SameAnswer DEF RegexInv
<1> QED
  BY <1>1, RegexStart, RegexStep, PTL DEF RegexSpec

\* A split loses and repeats nothing of its subject, and gives no more parts than its
\* limit (imports.mjs: re_split).
THEOREM RegexSplitTiles == RegexSpec => []SplitTiles
<1>1. RegexInv => SplitTiles
  BY SameAnswer DEF RegexInv
<1> QED
  BY <1>1, RegexStart, RegexStep, PTL DEF RegexSpec
=============================================================================
