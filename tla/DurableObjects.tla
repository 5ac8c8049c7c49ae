--------------------------- MODULE DurableObjects ---------------------------
(***************************************************************************)
(* A Durable Object of one of the five classes and the client that calls   *)
(* it: the harness of attic/spikes/03-durable-statem-eval/worker.js, which *)
(* makes the calls of a scenario stage by stage (the calls of a stage run  *)
(* at the same time) and then reads the result.  A call that a restart of  *)
(* the object failed is made again with the same key, as in the scenario   *)
(* "crash"; a call that crashes on purpose is not.                         *)
(***************************************************************************)
EXTENDS Orders, Accounts, Ledger

CONSTANT Scenarios  \* records [class, name, stages, expected]

Classes == {"naive", "statem", "bank", "account", "ledger"}
CallsOf(s) == UNION {ToSet(s.stages[i]) : i \in DOMAIN s.stages}
CallsMade == UNION {CallsOf(s) : s \in Scenarios}

ASSUME ScenarioAssumption ==
    /\ \A s \in Scenarios : s.class \in Classes /\ s.stages \in Seq(Seq(CallsMade))
    /\ \A c \in CallsMade : c.amount \in Int
    /\ \A c \in CallsMade :   \* idem is a string
          c.op \in {"capture", "refund"} => c.key \in Seq(STRING) \ {NoKey}

VARIABLES scenario, stage,
          given     \* the ids that calls of earlier stages were answered for their entries
vars == <<versions, request, restarts, scenario, stage, given>>

Class == scenario.class
Stages == scenario.stages

EmptyStorage ==
    [state |-> NewOrder, ledger |-> <<>>, status |-> Open, history |-> <<>>,
     table |-> NoEntries,
     balance |-> IF Class = "bank" THEN InitialBalance ELSE 0]

\* The calls of the harness.
AMT == 100
Key1 == <<"k1">>
Calling(op, crash) == [op |-> op, key |-> Key1, amount |-> AMT, crash |-> crash]
Capture == Calling("capture", FALSE)
Reading == <<Calling("read", FALSE)>>
Trials(name) ==
    CASE name = "happy" -> <<<<Capture>>>>
      [] name = "retry" -> <<<<Capture>>, <<Capture>>>>
      [] name = "concurrent" -> <<[r \in Requests |-> Capture]>>
      [] name = "crash" -> <<<<Calling("capture", TRUE)>>, <<Capture>>>>
      [] name = "invalid" -> <<<<Calling("refund", FALSE)>>>>
Trial(class, name) ==
    [class |-> class, name |-> name,
     stages |-> <<<<Calling("authorize", FALSE)>>>> \o Trials(name) \o <<Reading>>,
     expected |-> IF name = "invalid" THEN 0 ELSE AMT]
Harness == {Trial(class, name) : class \in {"naive", "statem"},
                name \in {"happy", "retry", "concurrent", "crash", "invalid"}}

Init ==
    /\ scenario \in Scenarios
    /\ stage = 0
    /\ given = {}
    /\ StorageInit(EmptyStorage)

AnsweredOk(op) ==
    {r \in Requests : request[r].pc = "answered" /\ Op(r, op) /\ request[r].result.ok}
IdsAnswered == IF Class = "ledger" THEN {request[r].result.id : r \in AnsweredOk("add")} ELSE {}

Settled(r) ==
    \/ request[r].pc \in {"unsent", "answered"}
    \/ request[r].pc = "threw" /\ request[r].call.crash
AllSettled == \A r \in Requests : Settled(r)

NextStage ==
    /\ AllSettled /\ stage < Len(Stages)
    /\ stage' = stage + 1
    /\ given' = given \cup IdsAnswered
    /\ LET calls == Stages[stage + 1] IN
       request' = [r \in Requests |-> IF r \in DOMAIN calls THEN Sent(calls[r]) ELSE Unsent]
    /\ UNCHANGED <<versions, restarts, scenario>>

Retry(r) ==
    /\ request[r].pc = "threw" /\ ~request[r].call.crash
    /\ request' = [request EXCEPT ![r] = Sent(@.call)]
    /\ UNCHANGED <<versions, restarts, scenario, stage, given>>

Handler(r) ==
    /\ \/ Class = "naive" /\ NaiveOrder(r)
       \/ Class = "statem" /\ StatemOrder(r)
       \/ Class = "bank" /\ BankDO(r)
       \/ Class = "account" /\ Account(r)
       \/ Class = "ledger" /\ LedgerDO(r)
    /\ UNCHANGED <<restarts, scenario, stage, given>>

Ended == AllSettled /\ stage = Len(Stages)
Platform == PlatformStep /\ UNCHANGED <<scenario, stage, given>>

Next ==
    \/ NextStage
    \/ \E r \in Requests : Retry(r) \/ Handler(r)
    \/ Platform
    \/ Ended /\ UNCHANGED vars

\* The platform delivers, writes and answers; nothing makes it restart.
Fairness == WF_vars(Next /\ restarts' = restarts)
Spec == Init /\ [][Next]_vars /\ Fairness
-----------------------------------------------------------------------------
Charges(v) == Sum(v.ledger)
Contents == {versions[i] : i \in DOMAIN versions}

KeysUsed == {c.key : c \in {c \in CallsOf(scenario) : c.op = "capture"}}

\* Retries, concurrent calls, a crash after the charge and restarts at any
\* moment charge a StatemOrder once per idempotency key at most, and, refunded
\* under one key, it never pays back more than it was charged, on disk or in
\* the cache (worker.js:59-74).  No scenario of the run captures under the key
\* "refund:" and a refund's key, which would make the two one entry.
NeverOvercharged ==
    Class = "statem" => \A v \in Contents :
        Charges(v) \in {n * v.state.amount : n \in 0 .. Cardinality(KeysUsed)}

\* Whatever prefix of its writes is on disk, a StatemOrder that is captured
\* has its charge, and one that is refunded its charge and its refund: the
\* charge is written before the state that tells of it.
StateFollowsLedger ==
    Class = "statem" => \A v \in Contents :
        /\ v.state.status \in {"captured", "refunded"} => CaptureId(v.state.captureKey) \in DOMAIN v.ledger
        /\ v.state.status = "refunded" =>
              \E c \in CallsMade : RefundId(c.key) \in DOMAIN v.ledger

\* A capture that was answered ok is not undone by a restart: the order on
\* disk is captured, or refunded since.  An id that was answered to an add of
\* the ledger, in this stage or before, is on disk unless somebody asked to
\* delete it, and is never answered to another add: AUTOINCREMENT does not give
\* the id of a row again that was the last one and is gone (sql_ledger.ex:32).
CallsSoFar == UNION {ToSet(Stages[i]) : i \in 1 .. stage}
Deleted(id) == \E c \in CallsSoFar : c.op = "delete" /\ c.id = id
AnswerStands ==
    /\ Class = "statem" /\ AnsweredOk("capture") # {} =>
           Durable.state.status \in {"captured", "refunded"}
    /\ Class = "ledger" =>
           /\ \A id \in given \cup IdsAnswered : id \in DOMAIN Durable.table.rows \/ Deleted(id)
           /\ \A r \in AnsweredOk("add") :
                 /\ request[r].result.id \notin given
                 /\ \A q \in AnsweredOk("add") \ {r} : request[q].result.id # request[r].result.id

\* The table of the eval's README: a StatemOrder is charged what is expected
\* in every scenario, whatever restarts; a NaiveOrder when there is neither a
\* crash, a restart, nor a refund out of order.
Verdict ==
    (Ended /\ Stages[stage] = Reading) =>
        \/ request[1].result.charged = scenario.expected
        \/ Class = "naive" /\ (restarts > 0 \/ scenario.name \in {"crash", "invalid"})

\* BankDO writes the balance before the history, so every restart may cost
\* the history one event, and never more: what the balance has and the history
\* has not is the sum of at most one deposit or withdrawal for each restart and
\* for the request between its two puts.
Signed(entry) ==
    CASE entry.reply = "ok" /\ entry.op = "deposit" -> entry.amount
      [] entry.reply = "ok" /\ entry.op = "withdraw" -> -entry.amount
      [] OTHER -> 0
Replayed(history) == InitialBalance + Sum([i \in DOMAIN history |-> Signed(history[i])])
Unrecorded(v) == v.balance - Replayed(v.history)
BetweenPuts == {r \in Requests : request[r].pc \in {"stored", "history"}}
EventAmounts == {0} \cup {c.amount : c \in {c \in CallsOf(scenario) : c.op = "deposit"}}
                    \cup {-c.amount : c \in {c \in CallsOf(scenario) : c.op = "withdraw"}}
BankHistoryLags ==
    Class = "bank" =>
        \E lost \in [1 .. restarts + Cardinality(BetweenPuts) -> EventAmounts] :
            Unrecorded(Cached) = Sum(lost)

\* The disk of an Account changes by one whole event at a time: it implements
\* the serial account, whatever restarts and concurrent calls.
EventsAsked == {[op |-> c.op, amount |-> c.amount] :
                    c \in {d \in CallsMade : d.op \in AccountEvents \cup {"new"}}}
SerialAccount == INSTANCE SerialAccount WITH
    Events <- EventsAsked,
    account <- IF Class = "account"
               THEN [balance |-> Durable.balance, status |-> Durable.status, history |-> Durable.history]
               ELSE [balance |-> 0, status |-> Open, history |-> <<>>]
AccountIsSerial == SerialAccount!Spec

\* Every scenario comes to its end.
ScenarioEnds == <>Ended
=============================================================================
