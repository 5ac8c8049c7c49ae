----------------------------- MODULE MCReceive -----------------------------
(* Receive for TLC: the receive expressions of a small program.            *)
EXTENDS Receive

CONSTANTS a, b

Clauses(accepts, after) == [accepts |-> accepts, after |-> after]

\* a selective receive of each kind of message, forever and with a timeout, and
\* `receive _ -> ... after 0', which flushes a mailbox
MCReceives ==
  {Clauses({a}, "infinity"), Clauses({a}, "finite"), Clauses({b}, "finite"),
   Clauses({a, b}, "infinity"), Clauses({a, b}, "zero")}

\* a poll for one kind of message only
MCPartialPoll == {Clauses({a}, "infinity"), Clauses({b}, "zero")}
=============================================================================
