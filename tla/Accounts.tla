------------------------------ MODULE Accounts ------------------------------
(***************************************************************************)
(* Two accounts in a Durable Object whose transitions are compiled Elixir: *)
(* BankDO of durable-genserver/worker.js, one GenServer step per request,  *)
(* which puts the balance and then the history, and Account of             *)
(* attic/durable-object/worker.js, which commits everything in one put.    *)
(***************************************************************************)
EXTENDS ObjectStorage, AccountMachine

InitialBalance == 100
AccountEvents == {"deposit", "withdraw", "freeze", "unfreeze"}   \* EV
UnknownEvent == [ok |-> FALSE, error |-> "unknown event"]

Asked(r) == request[r].call
Local(r) == request[r].local
Event(r) == [op |-> Asked(r).op, amount |-> Asked(r).amount]

(* BankDO.  A balance never put is the initial one.                        *)
\* mutant: an await on something else than storage, which opens the gate
BankFetchUngated(r) ==
    request[r].pc = "sent" /\ NoWrite /\ Suspend(r, "balance", [balance |-> Cached.balance])

BankFetch(r) ==
    /\ Delivered(r) /\ NoWrite /\ Suspend(r, "balance", [balance |-> Cached.balance])

BankStep(r) ==
    /\ At(r, "balance")
    /\ LET done == HandleCall(Local(r).balance, Asked(r).op, Asked(r).amount) IN
       /\ Write([Cached EXCEPT !.balance = done.balance])
       /\ Suspend(r, "stored", done)

BankReadHistory(r) ==
    /\ At(r, "stored") /\ NoWrite
    /\ Suspend(r, "history", [done |-> Local(r), history |-> Cached.history])

BankRecord(r) ==
    /\ At(r, "history")
    /\ LET done == Local(r).done
           entry == [op |-> Asked(r).op, amount |-> Asked(r).amount, reply |-> done.reply]
       IN  WriteAndRespond(r, [Cached EXCEPT !.history = Append(Local(r).history, entry)],
                           [ok |-> TRUE, balance |-> done.balance])

BankDO(r) == BankFetch(r) \/ BankStep(r) \/ BankReadHistory(r) \/ BankRecord(r)

(* Account.  The constructor only instantiates the module.                 *)
AccountFetch(r) ==
    /\ Delivered(r) /\ NoWrite /\ Suspend(r, "status", [balance |-> Cached.balance])

AccountReadStatus(r) ==
    /\ At(r, "status") /\ NoWrite
    /\ Suspend(r, "events", [balance |-> Local(r).balance, status |-> Cached.status])

AccountReadHistory(r) ==
    /\ At(r, "events") /\ NoWrite
    /\ Suspend(r, "transition", [old |-> Local(r), history |-> Cached.history])

AccountResult(s) == [ok |-> TRUE, balance |-> s.balance, status |-> s.status]
Transition(r) ==
    IF Asked(r).op = "new" THEN Opened(Asked(r).amount) ELSE Step(Local(r).old, Event(r))

\* mutant: two puts instead of one
AccountCommitTwice(r) ==
    LET new == Transition(r)
        first == [Cached EXCEPT !.balance = new.balance, !.status = new.status]
    IN  /\ versions' = versions \o <<first, [first EXCEPT !.history = Append(Local(r).history, Event(r))]>>
        /\ Leave(r, "responding", AccountResult(new), 2)

AccountCommit(r) ==
    LET new == Transition(r) IN
    WriteAndRespond(r, [Cached EXCEPT !.balance = new.balance, !.status = new.status,
                                      !.history = Append(Local(r).history, Event(r))],
                    AccountResult(new))

AccountTransition(r) ==
    /\ At(r, "transition")
    /\ \/ Asked(r).op \in AccountEvents \cup {"new"} /\ AccountCommit(r)
       \/ Asked(r).op = "read" /\ NoWrite /\ Respond(r, AccountResult(Local(r).old))
       \/ /\ Asked(r).op \notin AccountEvents \cup {"new", "read"}
          /\ NoWrite /\ Respond(r, UnknownEvent)

Account(r) ==
    AccountFetch(r) \/ AccountReadStatus(r) \/ AccountReadHistory(r) \/ AccountTransition(r)
=============================================================================
