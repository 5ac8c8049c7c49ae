------------------------------ MODULE Mailbox ------------------------------
(***************************************************************************)
(* What `receive' promises one process, whatever parks, wakes and rescans   *)
(* it takes: the first message of the mailbox that a clause accepts, in     *)
(* order of arrival; the `after' body only when the mailbox holds none.     *)
(* The runtime keeps no such state: Receive.tla is shown to implement it.   *)
(***************************************************************************)
EXTENDS Integers, Sequences

CONSTANTS
  Msg,          \* message contents, as far as the clauses tell them apart
  Receives,     \* the receive expressions of the program: [accepts, after]
  NoReceive,    \* none is being evaluated
  Expired       \* the result of a receive that ended in its `after' body

VARIABLES
  box,          \* the messages not yet received, oldest first
  want,         \* the receive being evaluated
  result        \* the result of the last one

vars == <<box, want, result>>

Init == box = <<>> /\ want = NoReceive /\ result = Expired

Without(s, i) == [k \in 1 .. Len(s) - 1 |-> s[IF k < i THEN k ELSE k + 1]]

Matches(i) == box[i] \in want.accepts

Ask(r) ==
  /\ want = NoReceive /\ want' = r
  /\ UNCHANGED <<box, result>>

Deliver(m) ==
  /\ box' = Append(box, m)
  /\ UNCHANGED <<want, result>>

Take ==
  /\ want # NoReceive
  /\ \E i \in 1 .. Len(box) :
       /\ Matches(i) /\ \A j \in 1 .. i - 1 : ~Matches(j)
       /\ box' = Without(box, i)
       /\ result' = box[i]
  /\ want' = NoReceive

Expire ==
  /\ want # NoReceive /\ want.after # "infinity"
  /\ \A i \in 1 .. Len(box) : ~Matches(i)
  /\ want' = NoReceive /\ result' = Expired
  /\ UNCHANGED box

Next ==
  \/ \E r \in Receives : Ask(r)
  \/ \E m \in Msg : Deliver(m)
  \/ Take
  \/ Expire

Safe == Init /\ [][Next]_vars

\* a receive that some message satisfies does not wait for another one
Spec == Safe /\ WF_vars(Take)
=============================================================================
