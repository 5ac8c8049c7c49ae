--------------------------- MODULE AccountMachine ---------------------------
(***************************************************************************)
(* The transitions the two account objects run in WebAssembly:             *)
(* examples/account.ex and examples/bank.ex.                               *)
(***************************************************************************)
EXTENDS Integers, Sequences

Open == 0
Frozen == 1
Opened(amount) == [balance |-> amount, status |-> Open]

\* Account.step/2: an event that no clause accepts changes nothing.
Step(s, event) ==
    CASE event.op = "deposit" /\ s.status = Open /\ event.amount > 0
            -> [s EXCEPT !.balance = @ + event.amount]
      [] event.op = "withdraw" /\ s.status = Open /\ event.amount > 0 /\ event.amount <= s.balance
            -> [s EXCEPT !.balance = @ - event.amount]
      [] event.op = "freeze" /\ s.status = Open -> [s EXCEPT !.status = Frozen]
      [] event.op = "unfreeze" /\ s.status = Frozen -> [s EXCEPT !.status = Open]
      [] OTHER -> s

\* Bank.handle_call/3: the reply and the new state.
HandleCall(balance, op, amount) ==
    CASE op = "deposit" -> [reply |-> "ok", balance |-> balance + amount]
      [] op = "withdraw" /\ amount <= balance -> [reply |-> "ok", balance |-> balance - amount]
      [] op = "withdraw" /\ amount > balance -> [reply |-> "insufficient", balance |-> balance]
      [] OTHER -> [reply |-> "balance", balance |-> balance]
=============================================================================
