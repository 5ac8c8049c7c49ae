-------------------------- MODULE MCDurableObjects --------------------------
(***************************************************************************)
(* The scenarios of the harness, and more: refunds that are repeated or    *)
(* meet a capture, accounts and a ledger with concurrent calls.            *)
(***************************************************************************)
EXTENDS DurableObjects

Ask(op, amount) == [op |-> op, key |-> Key1, amount |-> amount, crash |-> FALSE]
Scenario(class, name, stages) ==
    [class |-> class, name |-> name, stages |-> stages, expected |-> 0]
Entry(op, id, amount) == [op |-> op, id |-> id, amount |-> amount, key |-> NoKey, crash |-> FALSE]
Refund == Calling("refund", FALSE)
Authorize1 == <<Calling("authorize", FALSE)>>

MCScenarios == Harness \cup
    { Scenario("statem", "refund", <<Authorize1, <<Capture>>, <<Refund, Refund>>, Reading>>),
      Scenario("naive", "invalid", <<Authorize1, <<Capture>>, <<Refund>>, Reading>>),
      Scenario("statem", "refund", <<Authorize1, <<Calling("capture", TRUE), Refund>>,
                                     <<Capture, Capture>>, <<Refund, Capture>>>>),
      Scenario("statem", "another key", <<Authorize1, <<Calling("capture", TRUE)>>,
                                          <<Capture, [Capture EXCEPT !.key = <<"refund", "k2">>]>>, <<Refund>>>>),
      Scenario("bank", "moves", <<<<Ask("deposit", 1), Ask("withdraw", 1)>>,
                                  <<Ask("balance", 1), Ask("withdraw", 200)>>>>),
      Scenario("account", "moves", <<<<Ask("new", 2), Ask("close", 1)>>,
                                     <<Ask("withdraw", 2), Ask("freeze", 1)>>,
                                     <<Ask("unfreeze", 1), Ask("deposit", 3)>>, <<Ask("read", 1)>>>>),
      Scenario("ledger", "moves", <<<<Entry("add", 0, 5), Entry("add", 0, 7)>>,
                                    <<Entry("delete", 2, 0), Entry("add", 0, 9), Entry("add", 0, 3)>>,
                                    <<Entry("update", 1, 8), Entry("delete", 4, 0), Entry("add", 0, 6)>>,
                                    <<Entry("list", 0, 0), Entry("delete", 4, 0)>>>>) }

\* The capture under "refund:k1" and the refund under "k1" are one entry.
CollidingScenarios ==
    { Scenario("statem", "colliding keys",
               <<Authorize1, <<[Capture EXCEPT !.key = <<"refund", "k1">>]>>, <<Refund>>>>) }
=============================================================================
