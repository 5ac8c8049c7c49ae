------------------------------- MODULE Orders -------------------------------
(***************************************************************************)
(* The two order objects of attic/spikes/03-durable-statem-eval/worker.js: *)
(* NaiveOrder, and StatemOrder, the discipline of a state machine.  An     *)
(* entry of the ledger stands for a charge at a payment provider.          *)
(*                                                                         *)
(* A key is a string, written as the sequence of its parts between colons: *)
(* "k1" is <<"k1">>, "refund:k1" is <<"refund", "k1">>, and a string put   *)
(* after a prefix that ends in a colon is a concatenation.                 *)
(***************************************************************************)
EXTENDS ObjectStorage, Integers, FiniteSets, FiniteSetsExt

NoKey == <<>>   \* undefined; no string is without parts
NewOrder == [status |-> "new", amount |-> 0, captureKey |-> NoKey]

(* storage.put("ledger:" + id, {amount}): the id of a naive charge is a    *)
(* fresh UUID, so it never meets an entry that is there.                   *)
Charged(v, id, amount) ==
    [v EXCEPT !.ledger = [i \in {id} \cup DOMAIN @ |-> IF i = id THEN amount ELSE @[i]]]
Uuid == <<"uuid", Cardinality(DOMAIN Cached.ledger) + 1>>

(* "ledger:" + idem and "ledger:refund:" + idem are names of one space: a  *)
(* capture under "refund:k1" has the id of the refund under "k1".          *)
CaptureId(key) == <<"ledger">> \o key
RefundId(key) == <<"ledger", "refund">> \o key
WithStatus(v, s, status) == [v EXCEPT !.state = [s EXCEPT !.status = status]]

Sum(ledger) == MapThenSumSet(LAMBDA id : ledger[id], DOMAIN ledger)
Ok == [ok |-> TRUE]
Already == [ok |-> TRUE, idempotent |-> TRUE]
InvalidTransition == [ok |-> FALSE, error |-> "invalid_transition"]
AlreadyCaptured == [ok |-> FALSE, error |-> "already_captured"]

Call(r) == request[r].call
Op(r, op) == Call(r).op = op
LocalState(r) == request[r].local

(* Both classes.                                                           *)
ReadState(r, label) == NoWrite /\ Suspend(r, label, Cached.state)

ReadModel(r) ==
    \/ Delivered(r) /\ Op(r, "read") /\ ReadState(r, "list")
    \/ /\ At(r, "list") /\ NoWrite
       /\ Respond(r, [ok |-> TRUE, status |-> LocalState(r).status, charged |-> Sum(Cached.ledger)])

Authorize(r) ==
    /\ Delivered(r) /\ Op(r, "authorize")
    /\ WriteAndRespond(r, [Cached EXCEPT !.state = [NewOrder EXCEPT !.status = "authorized",
                                                        !.amount = Call(r).amount]], Ok)

(* NaiveOrder.                                                             *)
\* mutant: no guard against a capture that was made already
NaiveChargeAgain(r) ==
    /\ At(r, "capture")
    /\ LET s == LocalState(r) IN Write(Charged(Cached, Uuid, s.amount)) /\ Suspend(r, "commit", s)

NaiveCharge(r) ==
    /\ At(r, "capture")
    /\ LET s == LocalState(r) IN
       \/ s.status = "captured" /\ NoWrite /\ Respond(r, Already)
       \/ s.status \notin {"captured", "authorized"} /\ NoWrite /\ Respond(r, InvalidTransition)
       \/ s.status = "authorized" /\ Write(Charged(Cached, Uuid, s.amount)) /\ Suspend(r, "commit", s)

NaiveCommit(r) ==
    /\ At(r, "commit")
    /\ IF Call(r).crash THEN NoWrite /\ Throw(r)
       ELSE WriteAndRespond(r, WithStatus(Cached, LocalState(r), "captured"), Ok)

NaiveRefund(r) ==
    \/ /\ Delivered(r) /\ Op(r, "refund")
       /\ Write(Charged(Cached, Uuid, -Call(r).amount)) /\ Suspend(r, "refunded", <<>>)
    \/ /\ At(r, "refunded")
       /\ WriteAndRespond(r, WithStatus(Cached, NewOrder, "refunded"), Ok)

NaiveOrder(r) ==
    \/ ReadModel(r) \/ Authorize(r)
    \/ Delivered(r) /\ Op(r, "capture") /\ ReadState(r, "capture")
    \/ NaiveCharge(r) \/ NaiveCommit(r) \/ NaiveRefund(r)

(* StatemOrder.                                                            *)
\* mutants: a charge under a fresh id; a charge after the state that tells of
\* it; a commit that is left out; a commit that always fails
StatemChargeFresh(r) ==
    /\ At(r, "capture") /\ LocalState(r).status = "authorized"
    /\ Write(Charged(Cached, Uuid, LocalState(r).amount)) /\ Suspend(r, "commit", LocalState(r))
StatemChargeLate(r) ==
    /\ At(r, "capture") /\ LocalState(r).status = "authorized"
    /\ LET key == Call(r).key
           s == [LocalState(r) EXCEPT !.captureKey = key]
           captured == WithStatus(Cached, s, "captured")
       IN  /\ versions' = versions \o <<captured, Charged(captured, CaptureId(key), s.amount)>>
           /\ Suspend(r, "commit", s)
StatemCommitNot(r) == At(r, "commit") /\ NoWrite /\ Respond(r, Ok)
StatemCommitFails(r) == At(r, "commit") /\ NoWrite /\ Throw(r)

StatemCharge(r) ==
    /\ At(r, "capture")
    /\ LET s == LocalState(r)
           key == Call(r).key IN
       \/ s.captureKey = key /\ NoWrite /\ Respond(r, Already)
       \/ s.captureKey # key /\ s.status = "captured" /\ NoWrite /\ Respond(r, AlreadyCaptured)
       \/ /\ s.captureKey # key /\ s.status \notin {"captured", "authorized"}
          /\ NoWrite /\ Respond(r, InvalidTransition)
       \/ /\ s.captureKey # key /\ s.status = "authorized"
          /\ Write(Charged(Cached, CaptureId(key), s.amount)) /\ Suspend(r, "commit", s)

StatemCommit(r) ==
    /\ At(r, "commit")
    /\ IF Call(r).crash THEN NoWrite /\ Throw(r)
       ELSE WriteAndRespond(r, WithStatus(Cached, [LocalState(r) EXCEPT !.captureKey = Call(r).key],
                                          "captured"), Ok)

StatemRefund(r) ==
    /\ At(r, "refund")
    /\ LET s == LocalState(r) IN
       \/ s.status # "captured" /\ NoWrite /\ Respond(r, InvalidTransition)
       \/ /\ s.status = "captured"
          /\ Write(Charged(Cached, RefundId(Call(r).key), -s.amount)) /\ Suspend(r, "commit refund", s)

StatemRefundCommit(r) ==
    /\ At(r, "commit refund")
    /\ WriteAndRespond(r, WithStatus(Cached, LocalState(r), "refunded"), Ok)

StatemOrder(r) ==
    \/ ReadModel(r) \/ Authorize(r)
    \/ Delivered(r) /\ Op(r, "capture") /\ ReadState(r, "capture")
    \/ Delivered(r) /\ Op(r, "refund") /\ ReadState(r, "refund")
    \/ StatemCharge(r) \/ StatemCommit(r) \/ StatemRefund(r) \/ StatemRefundCommit(r)
=============================================================================
