---------------------------- MODULE SerialAccount ----------------------------
(***************************************************************************)
(* What attic/durable-object promises: an account that changes by one      *)
(* whole event at a time, its history telling every event it took.         *)
(***************************************************************************)
EXTENDS AccountMachine

CONSTANT Events    \* records [op, amount]
VARIABLE account   \* record [balance, status, history]

NoAccount == [balance |-> 0, status |-> Open, history |-> <<>>]

After(a, event) ==
    LET old == [balance |-> a.balance, status |-> a.status]
        new == IF event.op = "new" THEN Opened(event.amount) ELSE Step(old, event)
    IN  [balance |-> new.balance, status |-> new.status, history |-> Append(a.history, event)]

Init == account = NoAccount
Next == \E event \in Events : account' = After(account, event)
Spec == Init /\ [][Next]_account
=============================================================================
