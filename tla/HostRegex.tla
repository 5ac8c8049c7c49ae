------------------------------ MODULE HostRegex ------------------------------
(***************************************************************************)
(* The regular expressions of compiled modules, on the host's RegExp       *)
(* objects: makeStr of runtime/imports.mjs.  A subject is a row of         *)
(* positions 0 .. Length; a pattern is what it matches there: matcher[i]   *)
(* is the length of the match that starts at i, or NoMatch.  The objects   *)
(* are cached, so a call finds the lastIndex an earlier one left, and      *)
(* re_replace_fun calls back into the module, which may use the same       *)
(* object before the call that called it returns.                          *)
(***************************************************************************)
EXTENDS Integers, Sequences, SequencesExt, FiniteSets

CONSTANTS Length,      \* of the subject, in UTF-16 units
          Limits,      \* values of re_split's partsLimit; 0 is no limit
          CacheLimit,  \* 4096 in the code
          MaxCalls     \* bound on the calls of a behaviour

ASSUME RegexAssumption ==
    /\ Length \in Nat /\ Limits \subseteq Nat
    /\ CacheLimit \in Nat /\ MaxCalls \in Nat

VARIABLES matcher,   \* the pattern
          reCache,   \* flags -> lastIndex of the object cached under them
          stack,     \* the calls under way; the last one runs
          returned,  \* history: the call that returned last, with its result
          calls

regexVars == <<matcher, reCache, stack, returned, calls>>

NoMatch == -1
Positions == 0 .. Length
Matchers == {m \in [Positions -> {NoMatch} \cup Positions] : \A i \in Positions : i + m[i] <= Length}

\* A call: its arguments, the object it holds (own is the lastIndex of one that
\* the cache had no room for) and the variables of its loop.  A piece of the
\* subject is the pair of its bounds.
CallOf(op, flags, limit, incCaps, cached) ==
    [op |-> op, flags |-> flags, limit |-> limit, incCaps |-> incCaps,
     cached |-> cached, own |-> 0, last |-> 0, pieces |-> <<>>, callbacks |-> 0, pc |-> "exec"]
Nothing == CallOf("none", "", 0, FALSE, FALSE)

Top == Last(stack)
SetTop(call) == stack' = Append(Front(stack), call)

RegexInit ==
    /\ matcher \in Matchers
    /\ reCache = <<>> /\ stack = <<>> /\ returned = Nothing /\ calls = 0
-----------------------------------------------------------------------------
(* jsre(): the cached object or a new one, its lastIndex reset.            *)
Holds(flags) == flags \in DOMAIN reCache
Fits == Cardinality(DOMAIN reCache) < CacheLimit
WithObject(flags) == [f \in DOMAIN reCache \cup {flags} |-> IF f = flags THEN 0 ELSE reCache[f]]

\* mutant: the object as an earlier call left it
JsreUnreset(flags, op, limit, incCaps) ==
    LET cached == Holds(flags) \/ Fits IN
    /\ reCache' = IF cached /\ ~Holds(flags) THEN WithObject(flags) ELSE reCache
    /\ stack' = Append(stack, CallOf(op, flags, limit, incCaps, cached))

Jsre(flags, op, limit, incCaps) ==
    LET cached == Holds(flags) \/ Fits IN
    /\ reCache' = IF cached THEN WithObject(flags) ELSE reCache
    /\ stack' = Append(stack, CallOf(op, flags, limit, incCaps, cached))

(* A call comes from the module: the first one, or one that the function   *)
(* of a replacement makes.                                                 *)
InCallback == Top.pc = "callback" /\ Top.callbacks < Len(Top.pieces)
Call ==
    /\ stack # <<>> => InCallback
    /\ calls < MaxCalls /\ calls' = calls + 1
    /\ \/ \E limit \in Limits, incCaps \in BOOLEAN : Jsre("g", "split", limit, incCaps)
       \/ Jsre("g", "scan", 0, FALSE) \/ Jsre("", "test", 0, FALSE)
       \/ \E flags \in {"", "g"} : Jsre(flags, "replace", 0, FALSE)
    /\ UNCHANGED <<matcher, returned>>

Return(call) ==
    /\ stack' = Front(stack)
    /\ returned' = call
    /\ UNCHANGED <<matcher, calls>>
Continue(call) == SetTop(call) /\ UNCHANGED <<matcher, returned, calls>>
-----------------------------------------------------------------------------
(* RegExp.exec of the host.  Without the flag g it looks from 0 and leaves *)
(* lastIndex alone.                                                        *)
From(i) == {j \in Positions : i <= j /\ matcher[j] # NoMatch}
First(i) == CHOOSE j \in From(i) : \A k \in From(i) : j <= k

LastIndex == IF Top.cached THEN reCache[Top.flags] ELSE Top.own
Start == IF Top.flags = "g" THEN LastIndex ELSE 0
Index == First(Start)
End == Index + matcher[Index]
Matches == From(Start) # {}

SetLastIndex(i) ==
    reCache' = IF Top.cached /\ Top.flags = "g" THEN [reCache EXCEPT !["g"] = i] ELSE reCache
Owning(call, i) == [call EXCEPT !.own = i]
Executes(op) == stack # <<>> /\ Top.op = op /\ Top.pc = "exec"

PastMatch == IF End = Index THEN End + 1 ELSE End

(* re_split().                                                             *)
\* mutant: one part more than the limit allows
PartsFullLate(call) ==
    call.limit > 0 /\ Len(call.pieces) > (IF call.incCaps THEN 2 ELSE 1) * (call.limit - 1)
PartsFull(call) ==
    call.limit > 0 /\ Len(call.pieces) >= (IF call.incCaps THEN 2 ELSE 1) * (call.limit - 1)
Rest(call) == [call EXCEPT !.pieces = Append(@, <<call.last, Length>>)]

SplitEnds ==
    /\ Executes("split")
    /\ \/ ~Matches /\ SetLastIndex(0)
       \/ Matches /\ PartsFull(Top) /\ SetLastIndex(End)
    /\ Return(Rest(Top))

SplitAt ==
    /\ Executes("split") /\ Matches /\ ~PartsFull(Top)
    /\ SetLastIndex(PastMatch)
    /\ LET part == Append(Top.pieces, <<Top.last, Index>>)
           pieces == IF Top.incCaps THEN Append(part, <<Index, End>>) ELSE part
       IN  Continue(Owning([Top EXCEPT !.pieces = pieces, !.last = End], PastMatch))

(* re_scan(), and the first half of a replacement, which finds every match *)
(* before the function is called for any: String.replace.                  *)
Collected == IF Top.op = "scan" THEN Return(Top)
             ELSE Continue([Top EXCEPT !.pc = "callback"])

CollectEnds ==
    /\ Executes("scan") \/ Executes("replace")
    /\ ~Matches /\ SetLastIndex(0)
    /\ Collected

Collect ==
    /\ Executes("scan") \/ Executes("replace")
    /\ Matches /\ SetLastIndex(PastMatch)
    /\ LET found == [Top EXCEPT !.pieces = Append(@, <<Index, End>>)] IN
       IF Top.flags = "g" THEN Continue(Owning(found, PastMatch))
       ELSE Continue([found EXCEPT !.pc = "callback"])

\* re_fun_call came back.
\* mutant: the function is called for the same match again
CalledBackAgain ==
    /\ stack # <<>> /\ InCallback
    /\ Continue(Top)
    /\ UNCHANGED reCache

CalledBack ==
    /\ stack # <<>> /\ InCallback
    /\ Continue([Top EXCEPT !.callbacks = @ + 1])
    /\ UNCHANGED reCache

ReplaceEnds ==
    /\ stack # <<>> /\ Top.pc = "callback" /\ Top.callbacks = Len(Top.pieces)
    /\ Return(Top)
    /\ UNCHANGED reCache

(* re_test(), re_run() and re_run_index(): the first match.                *)
Test ==
    /\ Executes("test")
    /\ Return(IF Matches THEN [Top EXCEPT !.pieces = <<<<Index, End>>>>] ELSE Top)
    /\ UNCHANGED reCache

Loop == SplitEnds \/ SplitAt \/ CollectEnds \/ Collect \/ CalledBack \/ ReplaceEnds \/ Test
RegexNext == Call \/ Loop

\* The host's loops are single threaded: a call that runs goes on running.
RegexFairness == WF_regexVars(Loop)
RegexSpec == RegexInit /\ [][RegexNext]_regexVars /\ RegexFairness
-----------------------------------------------------------------------------
After(piece) == IF piece[2] = piece[1] THEN piece[2] + 1 ELSE piece[2]

\* The matches of a global search, each the first after the one before it.
Searched(found) ==
    \A k \in DOMAIN found :
        LET i == IF k = 1 THEN 0 ELSE After(found[k - 1])
        IN  From(i) # {} /\ found[k] = <<First(i), First(i) + matcher[First(i)]>>
Exhausted(found) == From(IF found = <<>> THEN 0 ELSE After(Last(found))) = {}

\* What was cut out between the parts of a split, and the parts.
Separators(call) ==
    IF call.incCaps THEN [k \in 1 .. Len(call.pieces) \div 2 |-> call.pieces[2 * k]]
    ELSE [k \in 1 .. Len(call.pieces) - 1 |-> <<call.pieces[k][2], call.pieces[k + 1][1]>>]

\* A call answers as it does on a regular expression nobody has used before,
\* whatever calls came before it or ran within it on the same cached object
\* (lastIndex is reset on every hit: imports.mjs:145-156).
AsIfFresh ==
    LET done == returned IN
    CASE done.op = "split" ->
            /\ Searched(Separators(done))
            /\ \/ Exhausted(Separators(done))
               \/ done.limit > 0 /\ Len(Separators(done)) = done.limit - 1
      [] done.op \in {"scan", "replace"} /\ done.flags = "g" ->
            Searched(done.pieces) /\ Exhausted(done.pieces)
      [] done.op = "test" \/ (done.op = "replace" /\ done.flags = "") ->
            IF From(0) = {} THEN done.pieces = <<>>
            ELSE done.pieces = <<<<First(0), First(0) + matcher[First(0)]>>>>
      [] OTHER -> TRUE

\* A split loses and repeats nothing of its subject: a part begins where the
\* match before it ended, and the last one ends with the subject; there are
\* no more parts than asked for.
Tiled(call) ==
    /\ \A k \in DOMAIN call.pieces : call.pieces[k][1] <= call.pieces[k][2]
    /\ call.incCaps => \A k \in 1 .. Len(call.pieces) - 1 : call.pieces[k][2] = call.pieces[k + 1][1]
    /\ ~call.incCaps => \A k \in 1 .. Len(call.pieces) - 1 :
                            matcher[call.pieces[k][2]] = call.pieces[k + 1][1] - call.pieces[k][2]
    /\ call.pieces # <<>> => call.pieces[1][1] = 0
SplitTiles ==
    returned.op = "split" =>
        /\ Tiled(returned) /\ Last(returned.pieces)[2] = Length
        /\ returned.limit > 0 =>
               Len(returned.pieces) <= IF returned.incCaps THEN 2 * returned.limit - 1 ELSE returned.limit

\* Every call returns: neither a match of length zero nor the function of a
\* replacement holds its loop (imports.mjs: lastIndex++ in each of them).
CallsReturn == [](stack # <<>> => <>(stack = <<>>))
=============================================================================
