--------------------------- MODULE DurableProofs ---------------------------
(***************************************************************************)
(* Promises of DurableObjects.tla for any number of concurrent calls, any  *)
(* scenarios and any number of restarts.                                   *)
(***************************************************************************)
EXTENDS DurableObjects, SequenceTheorems, FiniteSetTheorems, WellFoundedInduction, TLAPS

(* What holds of every class.                                              *)
Calls(C, P, L, R, H) == [call : C, pc : P, local : L, result : R, holds : H]
Shaped == \E C, P, L, R, H : request \in [Requests -> Calls(C, P, L, R, H)]

\* One handler at most is between two awaits of storage.
OneInside == \A r, q \in Requests :
    request[r].pc \notin AtRest /\ request[q].pc \notin AtRest => r = q

AskedOK == \A r \in Requests : request[r].pc # "unsent" => request[r].call \in CallsMade

Common ==
    /\ scenario \in Scenarios /\ stage \in Nat
    /\ Shaped /\ OneInside /\ AskedOK

(* What a step of a handler does to its request: it keeps the call and     *)
(* leaves the others alone.                                                *)
Moves(r, pc) ==
    /\ Shaped'
    /\ request'[r].pc = pc /\ request'[r].call = request[r].call
    /\ \A q \in Requests : q # r => request'[q] = request[q]

LEMMA Changed ==
  ASSUME Shaped, NEW r \in Requests, NEW pc, NEW local, NEW result, NEW holds, NEW x,
         request' = [request EXCEPT ![r] = x],
         x = [request[r] EXCEPT !.pc = pc, !.local = local, !.result = result, !.holds = holds]
  PROVE  Moves(r, pc) /\ request'[r].local = local
<1>1. PICK C, P, L, R, H : request \in [Requests -> Calls(C, P, L, R, H)]
  BY DEF Shaped
<1> DEFINE Q == Calls(C, P \cup {pc}, L \cup {local}, R \cup {result}, H \cup {holds})
<1>2. request[r] \in [call : C, pc : P \cup {pc}, local : L \cup {local}, result : R \cup {result}, holds : H \cup {holds}]
  BY <1>1 DEF Calls
<1>3. x \in [call : C, pc : P \cup {pc}, local : L \cup {local}, result : R \cup {result}, holds : H \cup {holds}]
  BY <1>2, Zenon
<1>4. x.pc = pc /\ x.local = local /\ x.call = request[r].call
  BY <1>2
<1>5. /\ request'[r] = x
      /\ \A q \in Requests : q # r => request'[q] = request[q]
  BY <1>1
<1>6. request' \in [Requests -> Q]
  BY <1>1, <1>3 DEF Calls
<1> QED
  BY <1>4, <1>5, <1>6, Zenon DEF Moves, Shaped

LEMMA SuspendMoves ==
  ASSUME Shaped, NEW r \in Requests, NEW pc, NEW local, Suspend(r, pc, local)
  PROVE  Moves(r, pc) /\ request'[r].local = local
<1>1. PICK C, P, L, R, H : request \in [Requests -> Calls(C, P, L, R, H)]
  BY DEF Shaped
<1> DEFINE x == [request[r] EXCEPT !.pc = pc, !.local = local]
<1> DEFINE Q == Calls(C, P \cup {pc}, L \cup {local}, R, H)
<1>2. request[r] \in [call : C, pc : P \cup {pc}, local : L \cup {local}, result : R, holds : H]
  BY <1>1 DEF Calls
<1>3. x \in [call : C, pc : P \cup {pc}, local : L \cup {local}, result : R, holds : H]
  BY <1>2, Zenon
<1>4. x.pc = pc /\ x.local = local /\ x.call = request[r].call
  BY <1>2
<1>0. request' = [request EXCEPT ![r] = x]
  BY DEF Suspend
<1> HIDE DEF x
<1>5. /\ request'[r] = x
      /\ \A q \in Requests : q # r => request'[q] = request[q]
  BY <1>0, <1>1
<1>6. request' \in [Requests -> Q]
  BY <1>0, <1>1, <1>3 DEF Calls
<1> QED
  BY <1>4, <1>5, <1>6, Zenon DEF Moves, Shaped

LEMMA LeaveMoves ==
  ASSUME Shaped, NEW r \in Requests, NEW pc, NEW result, NEW written, Leave(r, pc, result, written)
  PROVE  Moves(r, pc)
<1> DEFINE holds == Len(versions) - 1 + written
           x == [request[r] EXCEPT !.pc = pc, !.local = <<>>, !.result = result, !.holds = holds]
<1>1. request' = [request EXCEPT ![r] = x]
  BY DEF Leave
<1> HIDE DEF holds
<1> QED
  BY <1>1, Changed

\* An event is delivered when nobody is inside, and a handler goes on alone.
LEMMA MovesKeepCommon ==
  ASSUME Common, UNCHANGED <<scenario, stage>>, NEW r \in Requests, NEW pc, pc # "unsent", Moves(r, pc),
         Delivered(r) \/ request[r].pc \notin AtRest
  PROVE  Common' /\ \A q \in Requests : q # r => request[q].pc \in AtRest /\ request'[q] = request[q]
<1>1. \A q \in Requests : q # r => request[q].pc \in AtRest
  BY DEF Common, OneInside, Delivered, InputGateOpen
<1>2. AskedOK'
  BY DEF Common, AskedOK, Moves, Delivered, AtRest
<1> QED
  BY <1>1, <1>2 DEF Common, OneInside, Moves

\* Between handlers: everyone is at rest, or keeps where it is.
LEMMA QuietKeepsCommon ==
  ASSUME Common, UNCHANGED scenario, stage' \in Nat, Shaped',
         \A r \in Requests :
            \/ request'[r].pc \in AtRest
            \/ request'[r].pc = request[r].pc,
         \A r \in Requests : request'[r].pc # "unsent" =>
            \/ request'[r].call \in CallsMade
            \/ request[r].pc # "unsent" /\ request'[r].call = request[r].call
  PROVE  Common'
<1>1. OneInside'
  BY DEF Common, OneInside
<1>2. AskedOK'
  BY DEF Common, AskedOK
<1> QED
  BY <1>1, <1>2 DEF Common

\* what the harness sends is a call of its scenario
LEMMA NextStageKeepsCommon ==
  ASSUME Common, NextStage
  PROVE  Common' /\ \A r \in Requests : request'[r].pc \in AtRest
<1> DEFINE calls == Stages[stage + 1]
           fresh(r) == IF r \in DOMAIN calls THEN Sent(calls[r]) ELSE Unsent
<1>1. calls \in Seq(CallsMade)
  BY ScenarioAssumption DEF Common, NextStage, Stages
<1>2. request' = [r \in Requests |-> fresh(r)]
  BY DEF NextStage
<1>3. \A c : /\ Sent(c).pc = "sent" /\ Sent(c).call = c
             /\ Sent(c) \in Calls({NoCall, c}, {"unsent", "sent"}, {<<>>}, {NoResult}, {0})
  BY DEF Sent, Unsent, Calls
<1>4. Unsent.pc = "unsent" /\ Unsent \in Calls({NoCall}, {"unsent", "sent"}, {<<>>}, {NoResult}, {0})
  BY DEF Unsent, Calls
<1>5. \A r \in Requests : fresh(r) \in Calls({NoCall} \cup CallsMade, {"unsent", "sent"}, {<<>>}, {NoResult}, {0})
  <2> TAKE r \in Requests
  <2>1. CASE r \in DOMAIN calls
    <3>1. calls[r] \in CallsMade
      BY <1>1, <2>1
    <3> QED
      BY <1>3, <2>1, <3>1 DEF Calls
  <2>2. CASE r \notin DOMAIN calls
    BY <1>4, <2>2 DEF Calls
  <2> QED
    BY <2>1, <2>2
<1>6. Shaped'
  <2> DEFINE Q == Calls({NoCall} \cup CallsMade, {"unsent", "sent"}, {<<>>}, {NoResult}, {0})
  <2>1. request' \in [Requests -> Q]
    BY <1>2, <1>5
  <2> QED
    BY <2>1, Zenon DEF Shaped
<1>7. \A r \in Requests : request'[r].pc \in AtRest /\ (request'[r].pc # "unsent" => request'[r].call \in CallsMade)
  BY <1>1, <1>2, <1>3, <1>4 DEF AtRest
<1>8. UNCHANGED scenario /\ stage' \in Nat
  BY DEF NextStage, Common
<1> QED
  BY <1>6, <1>7, <1>8, QuietKeepsCommon

LEMMA RetryKeepsCommon ==
  ASSUME Common, NEW r \in Requests, Retry(r)
  PROVE  Common' /\ \A q \in Requests : request'[q].pc \in AtRest \/ request'[q] = request[q]
<1>1. PICK C, P, L, R, H : request \in [Requests -> Calls(C, P, L, R, H)]
  BY DEF Common, Shaped
<1> DEFINE x == Sent(request[r].call)
<1>2. x.pc = "sent" /\ x.call = request[r].call
  BY DEF Sent, Unsent
<1>3. x \in Calls(C, P \cup {"sent"}, L \cup {<<>>}, R \cup {NoResult}, H \cup {0})
  BY <1>1 DEF Sent, Unsent, Calls
<1>4. request' = [request EXCEPT ![r] = x]
  BY DEF Retry
<1> HIDE DEF x
<1>5. Shaped'
  <2> DEFINE Q == Calls(C, P \cup {"sent"}, L \cup {<<>>}, R \cup {NoResult}, H \cup {0})
  <2>1. request' \in [Requests -> Q]
    BY <1>1, <1>3, <1>4 DEF Calls
  <2> QED
    BY <2>1, Zenon DEF Shaped
<1>6. request'[r] = x /\ \A q \in Requests : q # r => request'[q] = request[q]
  BY <1>1, <1>4
<1>7. UNCHANGED scenario /\ stage' \in Nat /\ request[r].pc # "unsent"
  BY DEF Retry, Common
<1> QED
  BY <1>2, <1>5, <1>6, <1>7, QuietKeepsCommon DEF AtRest

\* What the platform does to a request: nothing the class can see, or its end.
Undisturbed == \A r \in Requests :
    \/ request[r].pc \in AtRest /\ request'[r].pc \in AtRest
    \/ /\ request'[r].pc = request[r].pc /\ request'[r].local = request[r].local
       /\ request'[r].call = request[r].call

LEMMA PlatformKeepsCommon ==
  ASSUME Common, Platform
  PROVE  /\ Common'
         /\ \A r \in Requests :
               \/ request'[r].pc \in AtRest
               \/ /\ request'[r].pc = request[r].pc /\ request'[r].local = request[r].local
                  /\ request'[r].call = request[r].call
         /\ \/ /\ UNCHANGED versions \/ (Len(versions) > 1 /\ versions' = Tail(versions))
               /\ UNCHANGED restarts /\ Undisturbed
            \/ /\ versions' = <<Durable>> /\ restarts' = restarts + 1
               /\ \A r \in Requests : request'[r].pc \in AtRest
         /\ \A r \in Requests : /\ request'[r].call = request[r].call
                                /\ request'[r].pc # "unsent" => request[r].pc # "unsent"
<1>1. PICK C, P, L, R, H : request \in [Requests -> Calls(C, P, L, R, H)]
  BY DEF Common, Shaped
<1>2. UNCHANGED scenario /\ stage' \in Nat
  BY DEF Platform, Common
<1>3. CASE Flush
  <2> DEFINE h(r) == IF request[r].holds > 0 THEN request[r].holds - 1 ELSE 0
             x(r) == [request[r] EXCEPT !.holds = h(r)]
  <2>1. request' = [r \in Requests |-> x(r)]
    BY <1>3 DEF Flush
  <2>2. \A r \in Requests : /\ x(r).pc = request[r].pc /\ x(r).local = request[r].local
                            /\ x(r).call = request[r].call
    BY <1>1 DEF Calls
  <2>3. \A r \in Requests : x(r) \in Calls(C, P, L, R, {h(q) : q \in Requests})
    <3> TAKE r \in Requests
    <3> DEFINE HH == {h(q) : q \in Requests}
    <3>1. h(r) \in HH
      OBVIOUS
    <3>2. request[r] \in [call : C, pc : P, local : L, result : R, holds : H]
      BY <1>1 DEF Calls
    <3> HIDE DEF h, HH
    <3> QED
      BY <3>1, <3>2, Zenon DEF Calls
  <2> HIDE DEF x
  <2>4. Shaped'
    <3> DEFINE Q == Calls(C, P, L, R, {h(q) : q \in Requests})
    <3>1. request' \in [Requests -> Q]
      BY <2>1, <2>3
    <3> QED
      BY <3>1, Zenon DEF Shaped
  <2>5. \A r \in Requests : request'[r] = x(r)
    BY <2>1
  <2>6. Common'
    BY <1>2, <2>2, <2>4, <2>5, QuietKeepsCommon DEF Common, AskedOK
  <2> QED
    BY <1>3, <2>2, <2>5, <2>6 DEF Flush, Undisturbed
<1>4. CASE Restart
  <2> DEFINE kept(r) == request[r].pc \in {"unsent", "answered", "threw"}
             y(r) == [request[r] EXCEPT !.pc = "threw", !.local = <<>>, !.result = NoResult, !.holds = 0]
             x(r) == IF kept(r) THEN request[r] ELSE y(r)
             Q == Calls(C, P \cup {"threw"}, L \cup {<<>>}, R \cup {NoResult}, H \cup {0})
  <2>1. request' = [r \in Requests |-> x(r)]
    BY <1>4 DEF Restart
  <2>2. \A r \in Requests : y(r).pc = "threw" /\ y(r).call = request[r].call
    BY <1>1 DEF Calls
  <2>3. \A r \in Requests : y(r) \in Q
    <3> TAKE r \in Requests
    <3>1. request[r] \in [call : C, pc : P \cup {"threw"}, local : L \cup {<<>>},
                          result : R \cup {NoResult}, holds : H \cup {0}]
      BY <1>1 DEF Calls
    <3> QED
      BY <3>1, Zenon DEF Calls
  <2> HIDE DEF y
  <2>4. Shaped'
    <3>1. request' \in [Requests -> Q]
      BY <1>1, <2>1, <2>3 DEF Calls
    <3> QED
      BY <3>1, Zenon DEF Shaped
  <2>5. \A r \in Requests : /\ request'[r].pc \in AtRest
                            /\ request'[r].call = request[r].call
                            /\ request'[r].pc # "unsent" => request[r].pc # "unsent"
    BY <2>1, <2>2 DEF AtRest
  <2>6. Common'
    BY <1>2, <2>4, <2>5, QuietKeepsCommon
  <2> QED
    BY <1>4, <2>5, <2>6 DEF Restart
<1>5. CASE \E r \in Requests : OutputGateOpens(r)
  <2> PICK r \in Requests : OutputGateOpens(r)
    BY <1>5
  <2> DEFINE x == [request[r] EXCEPT !.pc = "answered"]
  <2>1. request' = [request EXCEPT ![r] = x]
    BY DEF OutputGateOpens
  <2>2. x.pc = "answered" /\ x.call = request[r].call
    BY <1>1 DEF Calls
  <2>3. request[r] \in [call : C, pc : P \cup {"answered"}, local : L, result : R, holds : H]
    BY <1>1 DEF Calls
  <2>4. x \in Calls(C, P \cup {"answered"}, L, R, H)
    BY <2>3, Zenon DEF Calls
  <2> HIDE DEF x
  <2>5. Shaped'
    <3> DEFINE Q == Calls(C, P \cup {"answered"}, L, R, H)
    <3>1. request' \in [Requests -> Q]
      BY <1>1, <2>1, <2>4 DEF Calls
    <3> QED
      BY <3>1, Zenon DEF Shaped
  <2>6. request'[r] = x /\ \A q \in Requests : q # r => request'[q] = request[q]
    BY <1>1, <2>1
  <2>7. UNCHANGED versions /\ UNCHANGED restarts /\ request[r].pc = "responding"
    BY DEF OutputGateOpens, At
  <2>8. Common'
    BY <1>2, <2>2, <2>5, <2>6, <2>7, QuietKeepsCommon DEF Common, AskedOK, AtRest
  <2> QED
    BY <2>2, <2>6, <2>7, <2>8 DEF AtRest, Undisturbed
<1> QED
  BY <1>3, <1>4, <1>5 DEF Platform, PlatformStep
-----------------------------------------------------------------------------
(* The account.                                                            *)
AccountVersion ==
    [state : {NewOrder}, ledger : {<<>>}, status : {Open, Frozen}, history : Seq(EventsAsked),
     table : {NoEntries}, balance : Int]
OnDisk(v) == [balance |-> v.balance, status |-> v.status, history |-> v.history]

\* one write follows another by one whole event
Follows(v, w) == \E e \in EventsAsked : OnDisk(w) = SerialAccount!After(OnDisk(v), e)
VersionsOK ==
    /\ versions \in Seq(AccountVersion) /\ versions # <<>>
    /\ \A i \in 1 .. Len(versions) - 1 : Follows(versions[i], versions[i + 1])

\* what a handler has read is what is still there
ReadsFresh(pc, local, v) ==
    /\ pc \in AtRest \cup {"status", "events", "transition"}
    /\ pc = "status" => local = [balance |-> v.balance]
    /\ pc = "events" => local = [balance |-> v.balance, status |-> v.status]
    /\ pc = "transition" =>
           local = [old |-> [balance |-> v.balance, status |-> v.status], history |-> v.history]
HandlersOK == \A r \in Requests : ReadsFresh(request[r].pc, request[r].local, Cached)

AccountInv == Class = "account" => Common /\ VersionsOK /\ HandlersOK

LEMMA LastVersion ==
  ASSUME NEW V, versions \in Seq(V), versions # <<>>
  PROVE  Cached \in V /\ Cached = versions[Len(versions)] /\ Len(versions) \in Nat \ {0}
         /\ Durable = versions[1] /\ Durable \in V
<1>1. Len(versions) \in Nat \ {0}
  OBVIOUS
<1> QED
  BY <1>1 DEF Cached, Last, Durable

LEMMA Appended ==
  ASSUME NEW V, versions \in Seq(V), versions # <<>>, NEW v \in V, Write(v)
  PROVE  /\ versions' \in Seq(V) /\ versions' # <<>> /\ Cached' = v /\ Durable' = Durable
         /\ Len(versions') = Len(versions) + 1 /\ versions'[Len(versions) + 1] = v
         /\ \A i \in 1 .. Len(versions) : versions'[i] = versions[i]
<1>1. Len(versions) \in Nat \ {0}
  OBVIOUS
<1>2. versions' = Append(versions, v)
  BY DEF Write
<1>3. /\ versions' \in Seq(V) /\ Len(versions') = Len(versions) + 1
      /\ versions'[Len(versions) + 1] = v
      /\ \A i \in 1 .. Len(versions) : versions'[i] = versions[i]
  BY <1>2
<1>4. versions' # <<>>
  BY <1>1, <1>3
<1>5. Cached' = versions'[Len(versions')] /\ Durable' = versions'[1] /\ Durable = versions[1]
  BY <1>1, <1>3, <1>4 DEF Cached, Durable, Last
<1> QED
  BY <1>1, <1>3, <1>4, <1>5

LEMMA Flushed ==
  ASSUME NEW V, versions \in Seq(V), Len(versions) > 1, versions' = Tail(versions)
  PROVE  /\ versions' \in Seq(V) /\ versions' # <<>> /\ Cached' = Cached
         /\ Len(versions') = Len(versions) - 1 /\ Durable' = versions[2]
         /\ \A i \in 1 .. Len(versions') : versions'[i] = versions[i + 1]
<1>1. Len(versions) \in Nat /\ versions # <<>>
  OBVIOUS
<1>2. /\ versions' \in Seq(V) /\ Len(versions') = Len(versions) - 1
      /\ \A i \in 1 .. Len(versions') : versions'[i] = versions[i + 1]
  BY <1>1
<1>0. \A t : t = <<>> => Len(t) = 0
  OBVIOUS
<1>3. versions' # <<>>
  BY <1>0, <1>1, <1>2
<1>4. /\ Cached' = versions'[Len(versions')] /\ Cached = versions[Len(versions)]
      /\ Durable' = versions'[1]
  BY <1>1, <1>2, <1>3 DEF Cached, Durable, Last
<1> QED
  BY <1>1, <1>2, <1>3, <1>4

LEMMA Restarted ==
  ASSUME NEW V, versions \in Seq(V), versions # <<>>, versions' = <<Durable>>
  PROVE  /\ versions' \in Seq(V) /\ versions' # <<>> /\ Len(versions') = 1
         /\ Durable' = Durable /\ Cached' = Durable
<1>1. Durable \in V
  BY LastVersion
<1> DEFINE d == Durable
<1>2. versions' = <<d>>
  OBVIOUS
<1> HIDE DEF d
<1>3. versions' \in Seq(V) /\ versions' # <<>> /\ Len(versions') = 1 /\ versions'[1] = d
  BY <1>1, <1>2 DEF d
<1>4. Durable' = versions'[1] /\ Cached' = versions'[Len(versions')]
  BY <1>3 DEF Durable, Cached, Last
<1> QED
  BY <1>3, <1>4 DEF d

LEMMA StepTyped ==
  ASSUME NEW b \in Int, NEW s \in {Open, Frozen}, NEW event, event.amount \in Int
  PROVE  LET new == Step([balance |-> b, status |-> s], event) IN
         new.balance \in Int /\ new.status \in {Open, Frozen}
BY DEF Step, Open, Frozen

LEMMA SameMachine ==
  /\ \A amount : SerialAccount!Opened(amount) = Opened(amount)
  /\ \A s, event : SerialAccount!Step(s, event) = Step(s, event)
BY DEF SerialAccount!Opened, SerialAccount!Open, SerialAccount!Frozen, SerialAccount!Step, Opened, Open, Frozen, Step

\* A commit writes what the serial account would be after the event.
LEMMA CommitFollows ==
  ASSUME Common, NEW r \in Requests, request[r].pc = "transition",
         Asked(r).op \in AccountEvents \cup {"new"}, NEW v \in AccountVersion,
         ReadsFresh("transition", Local(r), v)
  PROVE  LET new == Transition(r)
             w == [v EXCEPT !.balance = new.balance, !.status = new.status,
                            !.history = Append(Local(r).history, Event(r))]
         IN  w \in AccountVersion /\ Follows(v, w)
<1> DEFINE new == Transition(r)
           e == Event(r)
           h == Append(Local(r).history, e)
           w == [v EXCEPT !.balance = new.balance, !.status = new.status, !.history = h]
<1>1. Asked(r) \in CallsMade
  BY DEF Common, AskedOK, Asked
<1>2. e \in EventsAsked /\ e.op = Asked(r).op /\ e.amount = Asked(r).amount /\ e.amount \in Int
  BY <1>1, ScenarioAssumption DEF Event, EventsAsked
<1>3. v.balance \in Int /\ v.status \in {Open, Frozen} /\ v.history \in Seq(EventsAsked)
  BY DEF AccountVersion
<1>4. /\ Local(r).old = [balance |-> v.balance, status |-> v.status]
      /\ Local(r).history = v.history
  BY DEF ReadsFresh
<1>5. new = IF e.op = "new" THEN Opened(e.amount)
            ELSE Step([balance |-> v.balance, status |-> v.status], e)
  BY <1>2, <1>4 DEF Transition
<1>7. h \in Seq(EventsAsked) /\ h = Append(v.history, e)
  BY <1>2, <1>3, <1>4
<1> HIDE DEF new, h, e
<1>6. new.balance \in Int /\ new.status \in {Open, Frozen}
  <2> DEFINE stepped == Step([balance |-> v.balance, status |-> v.status], e)
  <2>1. stepped.balance \in Int /\ stepped.status \in {Open, Frozen}
    BY <1>2, <1>3, StepTyped
  <2> HIDE DEF stepped
  <2>2. Opened(e.amount).balance = e.amount /\ Opened(e.amount).status = Open
    BY DEF Opened
  <2> QED
    BY <1>2, <1>5, <2>1, <2>2 DEF stepped
<1>8. w \in AccountVersion
  BY <1>6, <1>7, Zenon DEF AccountVersion
<1>9. w.balance = new.balance /\ w.status = new.status /\ w.history = h
  BY DEF AccountVersion
<1>10. OnDisk(w) = SerialAccount!After(OnDisk(v), e)
  <2>1. OnDisk(w) = [balance |-> new.balance, status |-> new.status, history |-> h]
    BY <1>9 DEF OnDisk
  <2>2. SerialAccount!After(OnDisk(v), e) = [balance |-> new.balance, status |-> new.status, history |-> h]
    <3> DEFINE old == [balance |-> v.balance, status |-> v.status]
    <3>1. /\ OnDisk(v).balance = v.balance /\ OnDisk(v).status = v.status
          /\ OnDisk(v).history = v.history
      BY DEF OnDisk
    <3>2. SerialAccount!After(OnDisk(v), e) =
              LET n == IF e.op = "new" THEN Opened(e.amount) ELSE Step(old, e)
              IN  [balance |-> n.balance, status |-> n.status, history |-> Append(v.history, e)]
      BY <3>1, SameMachine DEF SerialAccount!After
    <3> QED
      BY <1>5, <1>7, <3>2
  <2> QED
    BY <2>1, <2>2
<1>11. Follows(v, w)
  BY <1>2, <1>10 DEF Follows
<1> QED
  BY <1>8, <1>11 DEF new, h, e

LEMMA RestFresh == \A pc \in AtRest : \A local, v : ReadsFresh(pc, local, v)
BY DEF ReadsFresh, AtRest

\* A handler that goes on, having read or written, when the others are at rest.
LEMMA OneHandler ==
  ASSUME NEW r \in Requests, NEW pc, Moves(r, pc), ReadsFresh(pc, request'[r].local, Cached'),
         \A q \in Requests : q # r => request[q].pc \in AtRest /\ request'[q] = request[q]
  PROVE  HandlersOK'
<1>1. \A q \in Requests : ReadsFresh(request'[q].pc, request'[q].local, Cached')
  BY RestFresh DEF Moves
<1> QED
  BY <1>1 DEF HandlersOK

LEMMA NoWriteKeeps ==
  ASSUME NoWrite, VersionsOK
  PROVE  Cached' = Cached /\ Durable' = Durable /\ VersionsOK'
BY DEF NoWrite, Cached, Durable, VersionsOK

LEMMA AccountWrites ==
  ASSUME VersionsOK, NEW w \in AccountVersion, Follows(Cached, w), Write(w)
  PROVE  VersionsOK' /\ Durable' = Durable
<1> DEFINE n == Len(versions)
<1>1. n \in Nat \ {0} /\ Cached = versions[n]
  BY LastVersion DEF VersionsOK
<1>2. /\ versions' \in Seq(AccountVersion) /\ versions' # <<>> /\ Durable' = Durable
      /\ Len(versions') = n + 1 /\ versions'[n + 1] = w
      /\ \A i \in 1 .. n : versions'[i] = versions[i]
  BY Appended DEF VersionsOK
<1>3. \A i \in 1 .. n : Follows(versions'[i], versions'[i + 1])
  <2> TAKE i \in 1 .. n
  <2>1. CASE i = n
    BY <1>1, <1>2, <2>1
  <2>2. CASE i # n
    <3>1. i \in 1 .. n - 1 /\ i + 1 \in 1 .. n
      BY <1>1, <2>2
    <3> QED
      BY <1>2, <3>1 DEF VersionsOK
  <2> QED
    BY <2>1, <2>2
<1>4. Len(versions') - 1 = n
  BY <1>1, <1>2
<1> QED
  BY <1>2, <1>3, <1>4 DEF VersionsOK

LEMMA AccountKeeps ==
  ASSUME Common, VersionsOK, HandlersOK, UNCHANGED <<scenario, stage>>, NEW r \in Requests, Account(r)
  PROVE  Common' /\ VersionsOK' /\ HandlersOK' /\ Durable' = Durable
<1> DEFINE Alone == \A q \in Requests : q # r => request[q].pc \in AtRest /\ request'[q] = request[q]
<1>0. Shaped /\ ReadsFresh(request[r].pc, request[r].local, Cached)
  BY DEF Common, HandlersOK
<1>1. CASE AccountFetch(r)
  <2>1. Moves(r, "status") /\ request'[r].local = [balance |-> Cached.balance] /\ NoWrite /\ Delivered(r)
    BY <1>0, <1>1, SuspendMoves DEF AccountFetch
  <2>2. Common' /\ Alone
    BY <2>1, MovesKeepCommon
  <2>3. ReadsFresh("status", request'[r].local, Cached')
    BY <2>1, NoWriteKeeps DEF ReadsFresh, AtRest
  <2> QED
    BY <2>1, <2>2, <2>3, NoWriteKeeps, OneHandler
<1>2. CASE AccountReadStatus(r)
  <2>0. request[r].pc = "status" /\ request[r].local = [balance |-> Cached.balance]
    BY <1>0, <1>2 DEF AccountReadStatus, At, ReadsFresh
  <2>1. Moves(r, "events") /\ NoWrite
        /\ request'[r].local = [balance |-> request[r].local.balance, status |-> Cached.status]
    BY <1>0, <1>2, SuspendMoves DEF AccountReadStatus, Local
  <2>2. Common' /\ Alone
    BY <2>0, <2>1, MovesKeepCommon DEF AtRest
  <2>3. ReadsFresh("events", request'[r].local, Cached')
    BY <2>0, <2>1, NoWriteKeeps DEF ReadsFresh, AtRest
  <2> QED
    BY <2>1, <2>2, <2>3, NoWriteKeeps, OneHandler
<1>3. CASE AccountReadHistory(r)
  <2>0. request[r].pc = "events" /\ request[r].local = [balance |-> Cached.balance, status |-> Cached.status]
    BY <1>0, <1>3 DEF AccountReadHistory, At, ReadsFresh
  <2>1. Moves(r, "transition") /\ NoWrite
        /\ request'[r].local = [old |-> request[r].local, history |-> Cached.history]
    BY <1>0, <1>3, SuspendMoves DEF AccountReadHistory, Local
  <2>2. Common' /\ Alone
    BY <2>0, <2>1, MovesKeepCommon DEF AtRest
  <2>3. ReadsFresh("transition", request'[r].local, Cached')
    BY <2>0, <2>1, NoWriteKeeps DEF ReadsFresh, AtRest
  <2> QED
    BY <2>1, <2>2, <2>3, NoWriteKeeps, OneHandler
<1>4. CASE AccountTransition(r)
  <2>0. request[r].pc = "transition" /\ request[r].pc \notin AtRest
    BY <1>4 DEF AccountTransition, At, AtRest
  <2>1. ASSUME Moves(r, "responding")
        PROVE  Common' /\ HandlersOK'
    <3>1. Common' /\ Alone
      BY <2>0, <2>1, MovesKeepCommon
    <3>2. ReadsFresh("responding", request'[r].local, Cached')
      BY RestFresh DEF AtRest
    <3> QED
      BY <2>1, <3>1, <3>2, OneHandler
  <2>2. CASE Asked(r).op \in AccountEvents \cup {"new"} /\ AccountCommit(r)
    <3> DEFINE new == Transition(r)
               w == [Cached EXCEPT !.balance = new.balance, !.status = new.status,
                                   !.history = Append(Local(r).history, Event(r))]
    <3>1. Cached \in AccountVersion
      BY LastVersion DEF VersionsOK
    <3>2. ReadsFresh("transition", Local(r), Cached)
      BY <1>0, <2>0 DEF Local
    <3>3. w \in AccountVersion /\ Follows(Cached, w)
      BY <2>0, <2>2, <3>1, <3>2, CommitFollows
    <3>4. Write(w) /\ Leave(r, "responding", AccountResult(new), 1)
      BY <2>2 DEF AccountCommit, WriteAndRespond
    <3> HIDE DEF w
    <3>5. Moves(r, "responding")
      BY <1>0, <3>4, LeaveMoves
    <3> QED
      BY <2>1, <3>3, <3>4, <3>5, AccountWrites
  <2>3. ASSUME NoWrite, NEW result, Respond(r, result)
        PROVE  Moves(r, "responding") /\ VersionsOK' /\ Durable' = Durable
    BY <1>0, <2>3, LeaveMoves, NoWriteKeeps DEF Respond
  <2> QED
    BY <1>4, <2>1, <2>2, <2>3 DEF AccountTransition
<1> QED
  BY <1>1, <1>2, <1>3, <1>4 DEF Account

LEMMA PlatformKeeps ==
  ASSUME Common, VersionsOK, HandlersOK, Platform
  PROVE  Common' /\ VersionsOK' /\ HandlersOK' /\ (Durable' = Durable \/ Follows(Durable, Durable'))
<1>1. Common'
  BY PlatformKeepsCommon
<1>2. Cached' = Cached => HandlersOK'
  BY PlatformKeepsCommon, RestFresh DEF HandlersOK
<1>3. CASE UNCHANGED versions
  BY <1>1, <1>2, <1>3, NoWriteKeeps DEF NoWrite
<1>4. CASE Len(versions) > 1 /\ versions' = Tail(versions)
  <2> DEFINE n == Len(versions)
  <2>1. /\ versions' \in Seq(AccountVersion) /\ versions' # <<>> /\ Cached' = Cached
        /\ Len(versions') = n - 1 /\ Durable' = versions[2]
        /\ \A i \in 1 .. Len(versions') : versions'[i] = versions[i + 1]
    BY <1>4, Flushed DEF VersionsOK
  <2>2. n \in Nat /\ n > 1 /\ Durable = versions[1]
    BY <1>4, LastVersion DEF VersionsOK
  <2>3. \A i \in 1 .. n - 1 : Follows(versions[i], versions[i + 1])
    BY DEF VersionsOK
  <2>4. Follows(Durable, Durable')
    BY <2>1, <2>2, <2>3
  <2>5. \A i \in 1 .. Len(versions') - 1 : Follows(versions'[i], versions'[i + 1])
    <3> TAKE i \in 1 .. Len(versions') - 1
    <3>1. i \in 1 .. Len(versions') /\ i + 1 \in 1 .. Len(versions') /\ i + 1 \in 1 .. n - 1
      BY <2>1, <2>2
    <3> QED
      BY <2>1, <2>3, <3>1
  <2> QED
    BY <1>1, <1>2, <2>1, <2>4, <2>5 DEF VersionsOK
<1>5. CASE versions' = <<Durable>> /\ \A r \in Requests : request'[r].pc \in AtRest
  <2>1. /\ versions' \in Seq(AccountVersion) /\ versions' # <<>>
        /\ Len(versions') = 1 /\ Durable' = Durable
    BY <1>5, Restarted DEF VersionsOK
  <2>2. VersionsOK'
    BY <2>1 DEF VersionsOK
  <2>3. HandlersOK'
    BY <1>5, RestFresh DEF HandlersOK
  <2> QED
    BY <1>1, <2>1, <2>2, <2>3
<1> QED
  BY <1>3, <1>4, <1>5, PlatformKeepsCommon

LEMMA CommonInit ==
  ASSUME Init
  PROVE  Common /\ \A r \in Requests : request[r].pc \in AtRest
<1>1. \A r \in Requests : request[r] = Unsent
  BY DEF Init, StorageInit
<1>2. Unsent.pc = "unsent" /\ Unsent \in Calls({NoCall}, {"unsent"}, {<<>>}, {NoResult}, {0})
  BY DEF Unsent, Calls
<1>3. Shaped
  <2> DEFINE Q == Calls({NoCall}, {"unsent"}, {<<>>}, {NoResult}, {0})
  <2>1. request \in [Requests -> Q]
    BY <1>2 DEF Init, StorageInit
  <2> QED
    BY <2>1, Zenon DEF Shaped
<1> QED
  BY <1>1, <1>2, <1>3 DEF Common, OneInside, AskedOK, Init, AtRest

LEMMA AccountInit == ASSUME Init PROVE AccountInv
<1> SUFFICES ASSUME Class = "account" PROVE Common /\ VersionsOK /\ HandlersOK
  BY DEF AccountInv
<1>4. Common
  BY CommonInit
<1>5. HandlersOK
  BY CommonInit, RestFresh DEF HandlersOK
<1>6. EmptyStorage \in AccountVersion
  BY DEF EmptyStorage, AccountVersion, Open, Frozen
<1>7. VersionsOK
  <2>1. versions = <<EmptyStorage>>
    BY DEF Init, StorageInit
  <2> HIDE DEF EmptyStorage
  <2>2. versions \in Seq(AccountVersion) /\ versions # <<>> /\ Len(versions) = 1
    BY <1>6, <2>1
  <2> QED
    BY <2>2 DEF VersionsOK
<1> QED
  BY <1>4, <1>5, <1>7

LEMMA AccountNext ==
  ASSUME AccountInv, [Next]_vars
  PROVE  AccountInv' /\ (Class = "account" => Durable' = Durable \/ Follows(Durable, Durable'))
<1>0. Class' = Class
  BY DEF Class, Next, vars, NextStage, Retry, Handler, Platform
<1> SUFFICES ASSUME Class = "account"
             PROVE  Common' /\ VersionsOK' /\ HandlersOK' /\ (Durable' = Durable \/ Follows(Durable, Durable'))
  BY <1>0 DEF AccountInv
<1>1. Common /\ VersionsOK /\ HandlersOK
  BY DEF AccountInv
<1>2. CASE NextStage
  <2>1. Common' /\ HandlersOK'
    BY <1>1, <1>2, NextStageKeepsCommon, RestFresh DEF HandlersOK
  <2> QED
    BY <1>1, <1>2, <2>1, NoWriteKeeps DEF NextStage, NoWrite
<1>3. CASE \E r \in Requests : Retry(r)
  <2> PICK r \in Requests : Retry(r)
    BY <1>3
  <2>1. NoWrite
    BY DEF Retry, NoWrite
  <2>2. Common' /\ HandlersOK'
    BY <1>1, <2>1, RetryKeepsCommon, NoWriteKeeps, RestFresh DEF HandlersOK
  <2> QED
    BY <1>1, <2>1, <2>2, NoWriteKeeps
<1>4. CASE \E r \in Requests : Handler(r)
  <2> PICK r \in Requests : Handler(r)
    BY <1>4
  <2>1. Account(r) /\ UNCHANGED <<scenario, stage>>
    BY DEF Handler
  <2> QED
    BY <1>1, <2>1, AccountKeeps
<1>5. CASE Platform
  BY <1>1, <1>5, PlatformKeeps
<1>6. CASE UNCHANGED vars
  <2>1. NoWrite /\ HandlersOK' /\ Common'
    BY <1>1, <1>6 DEF vars, NoWrite, HandlersOK, Cached, Common, Shaped, OneInside, AskedOK
  <2> QED
    BY <1>1, <2>1, NoWriteKeeps
<1> QED
  BY <1>2, <1>3, <1>4, <1>5, <1>6 DEF Next

\* The Account of attic/durable-object changes on disk by one whole event at a
\* time, and its history tells of every one: whatever calls are under way at
\* the same time, wherever the handlers are cut off by a restart, and whatever
\* part of the writes is not on disk yet.  It rests on the input gate (what a
\* handler has read is what it writes over) and on the single put.
THEOREM AccountSerial == Spec => AccountIsSerial
<1>1. Init => AccountInv /\ SerialAccount!Init
  <2> SUFFICES ASSUME Init PROVE SerialAccount!Init
    BY AccountInit
  <2>1. versions = <<EmptyStorage>> /\ Durable = EmptyStorage
    BY DEF Init, StorageInit, Durable
  <2> QED
    BY <2>1 DEF EmptyStorage, SerialAccount!Init, SerialAccount!NoAccount, SerialAccount!Open, Open
<1>2. AccountInv /\ [Next]_vars => AccountInv'
  BY AccountNext
<1> DEFINE account == IF Class = "account" THEN OnDisk(Durable)
                      ELSE [balance |-> 0, status |-> Open, history |-> <<>>]
<1>3. AccountInv /\ [Next]_vars => (\E e \in EventsAsked : account' = SerialAccount!After(account, e)) \/ account' = account
  <2> SUFFICES ASSUME AccountInv, [Next]_vars
               PROVE  (\E e \in EventsAsked : account' = SerialAccount!After(account, e)) \/ account' = account
    OBVIOUS
  <2>1. Class' = Class
    BY DEF Class, Next, vars, NextStage, Retry, Handler, Platform
  <2>2. CASE Class # "account"
    BY <2>1, <2>2
  <2>3. CASE Class = "account"
    <3>1. account = OnDisk(Durable) /\ account' = OnDisk(Durable')
      BY <2>1, <2>3
    <3>2. Durable' = Durable \/ \E e \in EventsAsked : OnDisk(Durable') = SerialAccount!After(OnDisk(Durable), e)
      BY <2>3, AccountNext DEF Follows
    <3> QED
      BY <3>1, <3>2
  <2> QED
    BY <2>2, <2>3
<1>4. AccountInv /\ [Next]_vars => [SerialAccount!Next]_(account)
  BY <1>3 DEF SerialAccount!Next, OnDisk
<1> QED
  BY <1>1, <1>2, <1>4, PTL DEF Spec, AccountIsSerial, SerialAccount!Spec, OnDisk
-----------------------------------------------------------------------------
(* The order.                                                              *)
OrderStates ==
    [status : {"new", "authorized", "captured", "refunded"},
     amount : {0} \cup {c.amount : c \in CallsMade},
     captureKey : {NoKey} \cup {c.key : c \in CallsMade}]
OrderVersion(L) ==
    [state : OrderStates, ledger : L, status : {Open}, history : {<<>>},
     table : {NoEntries}, balance : {0}]

\* StateFollowsLedger, of one version
Backed(v) ==
    /\ v.state.status \in {"captured", "refunded"} => CaptureId(v.state.captureKey) \in DOMAIN v.ledger
    /\ v.state.status = "refunded" => \E c \in CallsMade : RefundId(c.key) \in DOMAIN v.ledger
BackedVersion(L) == {v \in OrderVersion(L) : Backed(v)}
OrdersOK == (\E L : versions \in Seq(BackedVersion(L))) /\ versions # <<>>

\* a handler has read what is still there, and its charge is written
OrderFresh(pc, local, key, v) ==
    /\ pc \in AtRest \cup {"list", "capture", "commit", "refund", "commit refund"}
    /\ pc \notin AtRest \cup {"list"} => local = v.state
    /\ pc = "commit" => CaptureId(key) \in DOMAIN v.ledger
    /\ pc = "commit refund" => v.state.status = "captured" /\ RefundId(key) \in DOMAIN v.ledger
OrdersHandled == \A r \in Requests :
    OrderFresh(request[r].pc, request[r].local, request[r].call.key, Cached)

OrderInv == Class = "statem" => Common /\ OrdersOK /\ OrdersHandled

LEMMA OrderRest == \A pc \in AtRest : \A local, key, v : OrderFresh(pc, local, key, v)
BY DEF OrderFresh, AtRest

LEMMA OrderCached ==
  ASSUME OrdersOK
  PROVE  /\ \E L : Cached \in OrderVersion(L)
         /\ Backed(Cached) /\ Cached.state \in OrderStates
<1>1. PICK L : versions \in Seq(BackedVersion(L))
  BY DEF OrdersOK
<1>2. Cached \in BackedVersion(L)
  BY <1>1, LastVersion DEF OrdersOK
<1> QED
  BY <1>2 DEF BackedVersion, OrderVersion

LEMMA OrderReads ==
  ASSUME OrdersOK, NoWrite
  PROVE  OrdersOK' /\ Cached' = Cached
BY DEF OrdersOK, NoWrite, Cached

LEMMA OrderWrites ==
  ASSUME OrdersOK, NEW L, NEW w \in OrderVersion(L), Backed(w), Write(w)
  PROVE  OrdersOK' /\ Cached' = w
<1>1. PICK K : versions \in Seq(BackedVersion(K))
  BY DEF OrdersOK
<1> DEFINE B == BackedVersion(K \cup L)
<1>2. BackedVersion(K) \subseteq B
  BY DEF BackedVersion, OrderVersion
<1>3. w \in B
  BY DEF BackedVersion, OrderVersion
<1> HIDE DEF B
<1>4. versions \in Seq(B) /\ versions # <<>>
  BY <1>1, <1>2 DEF OrdersOK
<1>5. versions' \in Seq(B) /\ versions' # <<>> /\ Cached' = w
  BY <1>3, <1>4, Appended
<1> QED
  BY <1>5, Zenon DEF OrdersOK, B

\* A handler that goes on when the others are at rest.
LEMMA OneOrderHandler ==
  ASSUME NEW r \in Requests, NEW pc, Moves(r, pc),
         OrderFresh(pc, request'[r].local, request[r].call.key, Cached'),
         \A q \in Requests : q # r => request[q].pc \in AtRest /\ request'[q] = request[q]
  PROVE  OrdersHandled'
<1>1. \A q \in Requests : OrderFresh(request'[q].pc, request'[q].local, request'[q].call.key, Cached')
  BY OrderRest DEF Moves
<1> QED
  BY <1>1 DEF OrdersHandled

\* An entry of the ledger is never lost, and the state stays.
LEMMA ChargeBacks ==
  ASSUME NEW L, NEW v \in OrderVersion(L), Backed(v), NEW id, NEW amount
  PROVE  LET w == Charged(v, id, amount) IN
         /\ \E K : w \in OrderVersion(K)
         /\ Backed(w) /\ w.state = v.state /\ id \in DOMAIN w.ledger
         /\ DOMAIN v.ledger \subseteq DOMAIN w.ledger
<1> DEFINE l == [i \in {id} \cup DOMAIN v.ledger |-> IF i = id THEN amount ELSE v.ledger[i]]
           w == Charged(v, id, amount)
<1>1. w = [v EXCEPT !.ledger = l]
  BY DEF Charged
<1>2. DOMAIN l = {id} \cup DOMAIN v.ledger
  OBVIOUS
<1> HIDE DEF l, w
<1>3. v \in [state : OrderStates, ledger : L \cup {l}, status : {Open}, history : {<<>>},
             table : {NoEntries}, balance : {0}]
  BY DEF OrderVersion
<1>4. w \in OrderVersion(L \cup {l})
  BY <1>1, <1>3, Zenon DEF OrderVersion
<1>5. w.state = v.state /\ w.ledger = l
  BY <1>1, <1>3
<1>6. Backed(w)
  BY <1>2, <1>5 DEF Backed
<1> QED
  BY <1>2, <1>4, <1>5, <1>6 DEF w

\* A state is written over the old one, the ledger stays.
LEMMA StateWritten ==
  ASSUME NEW L, NEW v \in OrderVersion(L), NEW s \in OrderStates
  PROVE  LET w == [v EXCEPT !.state = s] IN
         w \in OrderVersion(L) /\ w.state = s /\ w.ledger = v.ledger
<1>1. [v EXCEPT !.state = s] \in OrderVersion(L)
  BY Zenon DEF OrderVersion
<1> QED
  BY <1>1 DEF OrderVersion

LEMMA OrderCaptures ==
  ASSUME NEW L, NEW v \in OrderVersion(L),
         NEW c \in CallsMade, CaptureId(c.key) \in DOMAIN v.ledger
  PROVE  LET w == WithStatus(v, [v.state EXCEPT !.captureKey = c.key], "captured") IN
         w \in OrderVersion(L) /\ Backed(w)
<1> DEFINE s == [v.state EXCEPT !.captureKey = c.key]
           t == [s EXCEPT !.status = "captured"]
           w == WithStatus(v, s, "captured")
<1>1. v.state \in [status : {"new", "authorized", "captured", "refunded"},
                   amount : {0} \cup {d.amount : d \in CallsMade},
                   captureKey : {NoKey} \cup {d.key : d \in CallsMade}]
      /\ c.key \in {NoKey} \cup {d.key : d \in CallsMade}
  BY DEF OrderVersion, OrderStates
<1>2. s \in OrderStates
  BY <1>1, Zenon DEF OrderStates
<1>3. s.captureKey = c.key
  BY <1>1
<1> HIDE DEF s
<1>4. t \in OrderStates
  BY <1>2, Zenon DEF OrderStates
<1>5. t.status = "captured" /\ t.captureKey = c.key
  BY <1>2, <1>3 DEF OrderStates
<1>6. w = [v EXCEPT !.state = t]
  BY DEF WithStatus
<1> HIDE DEF t, w
<1>7. w \in OrderVersion(L) /\ w.state = t /\ w.ledger = v.ledger
  BY <1>4, <1>6, StateWritten
<1>8. Backed(w)
  BY <1>5, <1>7 DEF Backed
<1> QED
  BY <1>7, <1>8 DEF w, s

LEMMA OrderRefunds ==
  ASSUME NEW L, NEW v \in OrderVersion(L), Backed(v), v.state.status = "captured",
         NEW c \in CallsMade, RefundId(c.key) \in DOMAIN v.ledger
  PROVE  LET w == WithStatus(v, v.state, "refunded") IN
         w \in OrderVersion(L) /\ Backed(w)
<1> DEFINE t == [v.state EXCEPT !.status = "refunded"]
           w == WithStatus(v, v.state, "refunded")
<1>1. v.state \in OrderStates
  BY DEF OrderVersion
<1>2. t \in OrderStates
  BY <1>1, Zenon DEF OrderStates
<1>3. t.status = "refunded" /\ t.captureKey = v.state.captureKey
  BY <1>1 DEF OrderStates
<1>4. w = [v EXCEPT !.state = t]
  BY DEF WithStatus
<1> HIDE DEF t, w
<1>5. w \in OrderVersion(L) /\ w.state = t /\ w.ledger = v.ledger
  BY <1>2, <1>4, StateWritten
<1>6. Backed(w)
  BY <1>3, <1>5 DEF Backed
<1> QED
  BY <1>5, <1>6 DEF w

LEMMA OrderAuthorizes ==
  ASSUME NEW L, NEW v \in OrderVersion(L), NEW c \in CallsMade
  PROVE  LET w == [v EXCEPT !.state = [NewOrder EXCEPT !.status = "authorized", !.amount = c.amount]] IN
         w \in OrderVersion(L) /\ Backed(w)
<1> DEFINE t == [NewOrder EXCEPT !.status = "authorized", !.amount = c.amount]
           w == [v EXCEPT !.state = t]
<1>1. NewOrder \in OrderStates /\ c.amount \in {0} \cup {d.amount : d \in CallsMade}
  BY DEF NewOrder, OrderStates
<1>0. t.status = "authorized"
  BY <1>1 DEF OrderStates
<1>2. t \in OrderStates
  BY <1>1, Zenon DEF OrderStates
<1> HIDE DEF t
<1>3. w \in OrderVersion(L) /\ w.state = t
  BY <1>2, StateWritten
<1>4. Backed(w)
  BY <1>0, <1>3 DEF Backed
<1> QED
  BY <1>3, <1>4 DEF t

\* Common part of every step of a handler: alone, and where it goes.
LEMMA OrderMoves ==
  ASSUME Common, UNCHANGED <<scenario, stage>>, NEW r \in Requests, NEW pc, pc # "unsent", Moves(r, pc),
         Delivered(r) \/ request[r].pc \notin AtRest,
         OrdersOK', OrderFresh(pc, request'[r].local, request[r].call.key, Cached')
  PROVE  Common' /\ OrdersOK' /\ OrdersHandled'
<1>1. Common' /\ \A q \in Requests : q # r => request[q].pc \in AtRest /\ request'[q] = request[q]
  BY MovesKeepCommon
<1> QED
  BY <1>1, OneOrderHandler

LEMMA OrderKeeps ==
  ASSUME Common, OrdersOK, OrdersHandled, UNCHANGED <<scenario, stage>>, NEW r \in Requests, StatemOrder(r)
  PROVE  Common' /\ OrdersOK' /\ OrdersHandled'
<1> DEFINE Kept == Common' /\ OrdersOK' /\ OrdersHandled'
           pc == request[r].pc
           key == request[r].call.key
           Inside == Delivered(r) \/ pc \notin AtRest
<1>0. Shaped /\ OrderFresh(pc, request[r].local, key, Cached)
  BY DEF Common, OrdersHandled
<1>1. PICK L : Cached \in OrderVersion(L)
  BY OrderCached
<1>2. Backed(Cached) /\ Cached.state \in OrderStates
  BY OrderCached
<1>3. pc # "unsent" => request[r].call \in CallsMade
  BY DEF Common, AskedOK
<1>4. ASSUME NoWrite, Inside, NEW at \in {"list", "capture", "refund"}, Suspend(r, at, Cached.state)
      PROVE  Kept
  <2>1. Moves(r, at) /\ request'[r].local = Cached.state /\ at # "unsent"
    BY <1>0, <1>4, SuspendMoves
  <2>2. OrderFresh(at, request'[r].local, key, Cached')
    BY <1>4, <2>1, OrderReads DEF OrderFresh, AtRest
  <2> QED
    BY <1>4, <2>1, <2>2, OrderReads, OrderMoves
<1>5. ASSUME Inside, OrdersOK', NEW at \in {"responding", "threw"}, Moves(r, at)
      PROVE  Kept
  <2>1. OrderFresh(at, request'[r].local, key, Cached')
    BY OrderRest DEF AtRest
  <2> QED
    BY <1>5, <2>1, OrderMoves
<1>6. ASSUME NoWrite, Inside, NEW result, Respond(r, result)
      PROVE  Kept
  BY <1>0, <1>5, <1>6, LeaveMoves, OrderReads DEF Respond
<1>7. ASSUME Inside, NEW w \in OrderVersion(L), Backed(w), NEW result, WriteAndRespond(r, w, result)
      PROVE  Kept
  <2>1. Write(w) /\ Moves(r, "responding")
    BY <1>0, <1>7, LeaveMoves DEF WriteAndRespond
  <2> QED
    BY <1>5, <1>7, <2>1, OrderWrites
<1>8. ASSUME Inside, NEW at \in {"commit", "commit refund"}, NEW id, NEW amount,
             Write(Charged(Cached, id, amount)), Suspend(r, at, Cached.state),
             at = "commit" => id = CaptureId(key),
             at = "commit refund" => Cached.state.status = "captured" /\ id = RefundId(key)
      PROVE  Kept
  <2> DEFINE w == Charged(Cached, id, amount)
  <2>1. PICK K : w \in OrderVersion(K)
    BY <1>1, <1>2, ChargeBacks
  <2>2. Backed(w) /\ w.state = Cached.state /\ id \in DOMAIN w.ledger
    BY <1>1, <1>2, ChargeBacks
  <2>3. Write(w)
    BY <1>8
  <2> HIDE DEF w
  <2>4. OrdersOK' /\ Cached' = w
    BY <2>1, <2>2, <2>3, OrderWrites
  <2>5. Moves(r, at) /\ request'[r].local = Cached.state /\ at # "unsent"
    BY <1>0, <1>8, SuspendMoves
  <2>6. OrderFresh(at, request'[r].local, key, Cached')
    BY <1>8, <2>2, <2>4, <2>5 DEF OrderFresh, AtRest
  <2> QED
    BY <1>8, <2>4, <2>5, <2>6, OrderMoves
<1>9. CASE ReadModel(r)
  BY <1>4, <1>6, <1>9 DEF ReadModel, ReadState, At, AtRest
<1>10. CASE Authorize(r)
  <2> DEFINE w == [Cached EXCEPT !.state = [NewOrder EXCEPT !.status = "authorized", !.amount = Call(r).amount]]
  <2>1. Call(r) \in CallsMade /\ Inside
    BY <1>3, <1>10 DEF Authorize, Delivered, Call
  <2>2. w \in OrderVersion(L) /\ Backed(w)
    BY <1>1, <2>1, OrderAuthorizes
  <2>3. WriteAndRespond(r, w, Ok)
    BY <1>10 DEF Authorize
  <2> HIDE DEF w
  <2> QED
    BY <1>7, <2>1, <2>2, <2>3
<1>11. CASE Delivered(r) /\ Op(r, "capture") /\ ReadState(r, "capture")
  BY <1>4, <1>11 DEF ReadState
<1>12. CASE Delivered(r) /\ Op(r, "refund") /\ ReadState(r, "refund")
  BY <1>4, <1>12 DEF ReadState
<1>13. CASE StatemCharge(r)
  <2>1. Inside /\ LocalState(r) = Cached.state
    BY <1>0, <1>13 DEF StatemCharge, At, AtRest, LocalState, OrderFresh
  <2>2. \/ \E result : NoWrite /\ Respond(r, result)
        \/ /\ Write(Charged(Cached, CaptureId(key), Cached.state.amount))
           /\ Suspend(r, "commit", Cached.state)
    BY <1>13, <2>1 DEF StatemCharge, Call
  <2> QED
    BY <1>6, <1>8, <2>1, <2>2
<1>14. CASE StatemCommit(r)
  <2>1. /\ pc = "commit" /\ Inside /\ LocalState(r) = Cached.state /\ CaptureId(key) \in DOMAIN Cached.ledger
    BY <1>0, <1>14 DEF StatemCommit, At, AtRest, LocalState, OrderFresh
  <2>2. CASE Call(r).crash
    BY <1>0, <1>5, <1>14, <2>1, <2>2, SuspendMoves, OrderReads DEF StatemCommit, Throw
  <2>3. CASE ~Call(r).crash
    <3> DEFINE w == WithStatus(Cached, [Cached.state EXCEPT !.captureKey = key], "captured")
    <3>1. request[r].call \in CallsMade
      BY <1>3, <2>1
    <3>2. w \in OrderVersion(L) /\ Backed(w)
      BY <1>1, <2>1, <3>1, OrderCaptures
    <3>3. WriteAndRespond(r, w, Ok)
      BY <1>14, <2>1, <2>3 DEF StatemCommit, Call
    <3> HIDE DEF w
    <3> QED
      BY <1>7, <2>1, <3>2, <3>3
  <2> QED
    BY <2>2, <2>3
<1>15. CASE StatemRefund(r)
  <2>1. Inside /\ LocalState(r) = Cached.state
    BY <1>0, <1>15 DEF StatemRefund, At, AtRest, LocalState, OrderFresh
  <2>2. \/ \E result : NoWrite /\ Respond(r, result)
        \/ /\ Write(Charged(Cached, RefundId(key), -Cached.state.amount))
           /\ Suspend(r, "commit refund", Cached.state) /\ Cached.state.status = "captured"
    BY <1>15, <2>1 DEF StatemRefund, Call
  <2> QED
    BY <1>6, <1>8, <2>1, <2>2
<1>16. CASE StatemRefundCommit(r)
  <2>1. /\ Inside /\ LocalState(r) = Cached.state /\ Cached.state.status = "captured"
        /\ RefundId(key) \in DOMAIN Cached.ledger /\ pc = "commit refund"
    BY <1>0, <1>16 DEF StatemRefundCommit, At, AtRest, LocalState, OrderFresh
  <2> DEFINE w == WithStatus(Cached, Cached.state, "refunded")
  <2>2. w \in OrderVersion(L) /\ Backed(w)
    BY <1>1, <1>2, <1>3, <2>1, OrderRefunds
  <2>3. WriteAndRespond(r, w, Ok)
    BY <1>16, <2>1 DEF StatemRefundCommit
  <2> HIDE DEF w
  <2> QED
    BY <1>7, <2>1, <2>2, <2>3
<1> QED
  BY <1>9, <1>10, <1>11, <1>12, <1>13, <1>14, <1>15, <1>16 DEF StatemOrder

LEMMA OrderPlatform ==
  ASSUME Common, OrdersOK, OrdersHandled, Platform
  PROVE  Common' /\ OrdersOK' /\ OrdersHandled'
<1>1. Common'
  BY PlatformKeepsCommon
<1>2. Cached' = Cached => OrdersHandled'
  BY PlatformKeepsCommon, OrderRest DEF OrdersHandled
<1>3. CASE UNCHANGED versions
  BY <1>1, <1>2, <1>3, OrderReads DEF NoWrite
<1> PICK L : versions \in Seq(BackedVersion(L))
  BY DEF OrdersOK
<1>4. CASE Len(versions) > 1 /\ versions' = Tail(versions)
  <2>1. versions' \in Seq(BackedVersion(L)) /\ versions' # <<>> /\ Cached' = Cached
    BY <1>4, Flushed
  <2> QED
    BY <1>1, <1>2, <2>1, Zenon DEF OrdersOK
<1>5. CASE versions' = <<Durable>> /\ \A r \in Requests : request'[r].pc \in AtRest
  <2>1. versions' \in Seq(BackedVersion(L)) /\ versions' # <<>>
    BY <1>5, Restarted DEF OrdersOK
  <2>2. OrdersHandled'
    BY <1>5, OrderRest DEF OrdersHandled
  <2>3. OrdersOK'
    BY <2>1, Zenon DEF OrdersOK
  <2> QED
    BY <1>1, <2>2, <2>3
<1> QED
  BY <1>3, <1>4, <1>5, PlatformKeepsCommon

LEMMA OrderInit == ASSUME Init PROVE OrderInv
<1> SUFFICES ASSUME Class = "statem" PROVE Common /\ OrdersOK /\ OrdersHandled
  BY DEF OrderInv
<1>1. Common /\ OrdersHandled
  BY CommonInit, OrderRest DEF OrdersHandled
<1>2. NewOrder \in OrderStates /\ NewOrder.status = "new"
  BY DEF NewOrder, OrderStates
<1>3. EmptyStorage \in BackedVersion({<<>>})
  BY <1>2 DEF EmptyStorage, BackedVersion, OrderVersion, Backed
<1>4. OrdersOK
  <2>1. versions = <<EmptyStorage>>
    BY DEF Init, StorageInit
  <2> HIDE DEF EmptyStorage
  <2>2. versions \in Seq(BackedVersion({<<>>})) /\ versions # <<>>
    BY <1>3, <2>1
  <2> QED
    BY <2>2, Zenon DEF OrdersOK
<1> QED
  BY <1>1, <1>4

LEMMA OrderNext == ASSUME OrderInv, [Next]_vars PROVE OrderInv'
<1>0. Class' = Class
  BY DEF Class, Next, vars, NextStage, Retry, Handler, Platform
<1> SUFFICES ASSUME Class = "statem" PROVE Common' /\ OrdersOK' /\ OrdersHandled'
  BY <1>0 DEF OrderInv
<1>1. Common /\ OrdersOK /\ OrdersHandled
  BY DEF OrderInv
<1>2. CASE NextStage
  <2>1. Common' /\ OrdersHandled'
    BY <1>1, <1>2, NextStageKeepsCommon, OrderRest DEF OrdersHandled
  <2> QED
    BY <1>1, <1>2, <2>1, OrderReads DEF NextStage, NoWrite
<1>3. CASE \E r \in Requests : Retry(r)
  <2> PICK r \in Requests : Retry(r)
    BY <1>3
  <2>1. NoWrite
    BY DEF Retry, NoWrite
  <2>2. Common' /\ OrdersHandled'
    BY <1>1, <2>1, RetryKeepsCommon, OrderReads, OrderRest DEF OrdersHandled
  <2> QED
    BY <1>1, <2>1, <2>2, OrderReads
<1>4. CASE \E r \in Requests : Handler(r)
  <2> PICK r \in Requests : Handler(r)
    BY <1>4
  <2>1. StatemOrder(r) /\ UNCHANGED <<scenario, stage>>
    BY DEF Handler
  <2> QED
    BY <1>1, <2>1, OrderKeeps
<1>5. CASE Platform
  BY <1>1, <1>5, OrderPlatform
<1>6. CASE UNCHANGED vars
  <2>1. NoWrite /\ OrdersHandled' /\ Common'
    BY <1>1, <1>6 DEF vars, NoWrite, OrdersHandled, Cached, Common, Shaped, OneInside, AskedOK
  <2> QED
    BY <1>1, <2>1, OrderReads
<1> QED
  BY <1>2, <1>3, <1>4, <1>5, <1>6 DEF Next

\* Whatever calls a StatemOrder gets, how often they are repeated and wherever
\* a restart cuts them off, no write, and so no disk, tells of a capture that
\* is not in the ledger, or of a refund without an entry for it
\* (worker.js:59-84): the charge is written first, and the handler that
\* writes the state is the only one inside.
THEOREM StatemFollows == Spec => []StateFollowsLedger
<1>1. OrderInv => StateFollowsLedger
  <2> SUFFICES ASSUME OrderInv, Class = "statem", NEW v \in Contents PROVE Backed(v)
    BY DEF StateFollowsLedger, Backed
  <2>1. PICK L : versions \in Seq(BackedVersion(L))
    BY DEF OrderInv, OrdersOK
  <2> QED
    BY <2>1 DEF Contents, BackedVersion
<1> QED
  BY OrderInit, OrderNext, <1>1, PTL DEF Spec

-----------------------------------------------------------------------------
(* Answers: what was answered stands.  A response waits for the writes     *)
(* that were issued before it, so the versions after the first holds ones  *)
(* already tell of it.                                                     *)

CaptureDone(v) == v.state.status \in {"captured", "refunded"}
Gone == {c.id : c \in {c \in CallsSoFar : c.op = "delete"}}

\* what a version must tell of a response
Tells(class, call, result, gone, v) ==
  /\ class = "statem" /\ call.op = "capture" => CaptureDone(v)
  /\ class = "statem" /\ call.op = "authorize" => v.state.status # "new"
  /\ class = "ledger" /\ call.op = "add" =>
        /\ result.id \in DOMAIN v.table.rows \/ result.id \in gone
        /\ result.id \in Nat /\ result.id <= v.table.seq

Responded(x) == x.pc \in {"responding", "answered"} /\ x.result.ok
StandsFor(class, x, gone, vs) ==
  /\ x.holds \in Nat /\ x.holds < Len(vs) /\ (x.pc = "answered" => x.holds = 0)
  /\ \A i \in 1 .. Len(vs) : i > x.holds => Tells(class, x.call, x.result, gone, vs[i])
Standing == \A r \in Requests : Responded(request[r]) => StandsFor(Class, request[r], Gone, versions)

Listed == (\E V : versions \in Seq(V)) /\ versions # <<>>
SameCalls ==
  Class' = Class /\ UNCHANGED <<scenario, stage>> /\ \A r \in Requests : request'[r].call = request[r].call

LEMMA SameGone == SameCalls => Gone' = Gone
BY DEF SameCalls, Gone, CallsSoFar, Stages

LEMMA CachedTells ==
  ASSUME Listed, Standing, NEW r \in Requests, Responded(request[r])
  PROVE  Tells(Class, request[r].call, request[r].result, Gone, Cached)
<1> DEFINE x == request[r]
<1>1. StandsFor(Class, x, Gone, versions)
  BY DEF Standing
<1>2. Len(versions) \in Nat \ {0} /\ Cached = versions[Len(versions)]
  BY LastVersion DEF Listed
<1> HIDE DEF x
<1>3. Tells(Class, x.call, x.result, Gone, versions[Len(versions)])
  BY <1>1, <1>2 DEF StandsFor
<1> QED
  BY <1>2, <1>3 DEF x

\* A step that writes nothing, or what every response tells of.
LEMMA StandingKept ==
  ASSUME Listed, Standing, SameCalls,
         \/ UNCHANGED versions
         \/ \E w : /\ Write(w)
                   /\ \A q \in Requests : Responded(request[q]) =>
                        Tells(Class, request[q].call, request[q].result, Gone, w),
         \A q \in Requests :
            \/ request'[q] = request[q]
            \/ Responded(request'[q]) => StandsFor(Class', request'[q], Gone', versions')
  PROVE  Standing'
<1>1. SUFFICES ASSUME NEW q \in Requests, Responded(request'[q])
               PROVE  StandsFor(Class', request'[q], Gone', versions')
  BY DEF Standing
<1>2. CASE request'[q] # request[q]
  BY <1>1, <1>2
<1>3. CASE request'[q] = request[q]
  <2> DEFINE x == request[q]
  <2>1. Responded(x) /\ StandsFor(Class, x, Gone, versions)
    BY <1>1, <1>3 DEF Standing
  <2>2. Class' = Class /\ Gone' = Gone
    BY SameGone DEF SameCalls
  <2>3. StandsFor(Class, x, Gone, versions')
    <3>1. CASE UNCHANGED versions
      BY <2>1, <3>1
    <3>2. CASE ~UNCHANGED versions
      <4>1. PICK w : Write(w) /\ Tells(Class, x.call, x.result, Gone, w)
        BY <2>1, <3>2
      <4>2. PICK V : versions \in Seq(V)
        BY DEF Listed
      <4>3. versions \in Seq(V \cup {w}) /\ versions # <<>> /\ w \in V \cup {w}
        BY <4>2 DEF Listed
      <4> DEFINE n == Len(versions)
      <4>4. /\ n \in Nat /\ Len(versions') = n + 1 /\ versions'[n + 1] = w
            /\ \A i \in 1 .. n : versions'[i] = versions[i]
        BY <4>1, <4>3, Appended
      <4> HIDE DEF x
      <4>5. /\ x.holds \in Nat /\ x.holds < n /\ (x.pc = "answered" => x.holds = 0)
            /\ \A i \in 1 .. n : i > x.holds => Tells(Class, x.call, x.result, Gone, versions[i])
        BY <2>1 DEF StandsFor
      <4> HIDE DEF n
      <4>6. \A i \in 1 .. n + 1 : i > x.holds => Tells(Class, x.call, x.result, Gone, versions'[i])
        <5> TAKE i \in 1 .. n + 1
        <5>1. i \in 1 .. n \/ i = n + 1
          BY <4>4
        <5> QED
          BY <4>1, <4>4, <4>5, <5>1
      <4>7. x.holds < n + 1
        BY <4>4, <4>5
      <4> QED
        BY <4>4, <4>5, <4>6, <4>7 DEF StandsFor
    <3> QED
      BY <3>1, <3>2
  <2> QED
    BY <1>3, <2>2, <2>3
<1> QED
  BY <1>2, <1>3

\* What a response leaves with.
LEMMA LeaveIs ==
  ASSUME Shaped, NEW r \in Requests, NEW pc, NEW result, NEW written, Leave(r, pc, result, written)
  PROVE  /\ request'[r].pc = pc /\ request'[r].result = result
         /\ request'[r].holds = Len(versions) - 1 + written
         /\ request'[r].call = request[r].call
<1>1. PICK C, P, L, R, H : request \in [Requests -> Calls(C, P, L, R, H)]
  BY DEF Shaped
<1> DEFINE h == Len(versions) - 1 + written
           x == [request[r] EXCEPT !.pc = pc, !.local = <<>>, !.result = result, !.holds = h]
<1>2. request' = [request EXCEPT ![r] = x]
  BY DEF Leave
<1> HIDE DEF h
<1>3. x.pc = pc /\ x.result = result /\ x.holds = h /\ x.call = request[r].call
  <2>1. request[r] \in Calls(C, P, L, R, H)
    BY <1>1
  <2> QED
    BY <2>1 DEF Calls
<1> HIDE DEF x
<1>4. request'[r] = x
  BY <1>1, <1>2
<1> QED
  BY <1>3, <1>4 DEF h

LEMMA MovesSameCalls ==
  ASSUME NEW r \in Requests, NEW pc, Moves(r, pc), UNCHANGED <<scenario, stage>>
  PROVE  SameCalls
BY DEF Moves, SameCalls, Class

\* A handler that goes on has not responded.
LEMMA SuspendStands ==
  ASSUME Shaped, Listed, Standing, UNCHANGED <<scenario, stage>>,
         NEW r \in Requests, NEW pc, pc \notin {"responding", "answered"}, NEW local, Suspend(r, pc, local),
         \/ NoWrite
         \/ \E w : /\ Write(w)
                   /\ \A q \in Requests : Responded(request[q]) =>
                        Tells(Class, request[q].call, request[q].result, Gone, w)
  PROVE  Standing'
<1>1. Moves(r, pc)
  BY SuspendMoves
<1>2. SameCalls
  BY <1>1, MovesSameCalls
<1>3. \A q \in Requests : request'[q] = request[q] \/ ~Responded(request'[q])
  BY <1>1 DEF Moves, Responded
<1> QED
  BY <1>2, <1>3, StandingKept DEF NoWrite

\* A response that the contents of the storage tell of.
LEMMA RespondStands ==
  ASSUME Shaped, Listed, Standing, UNCHANGED <<scenario, stage>>,
         NEW r \in Requests, NEW result, Respond(r, result), NoWrite,
         result.ok => Tells(Class, request[r].call, result, Gone, Cached)
  PROVE  Standing'
<1> DEFINE n == Len(versions)
<1>1. Moves(r, "responding") /\ SameCalls
  BY LeaveMoves, MovesSameCalls DEF Respond
<1>2. /\ request'[r].pc = "responding" /\ request'[r].result = result
      /\ request'[r].holds = n - 1 + 0 /\ request'[r].call = request[r].call
  BY LeaveIs DEF Respond
<1>3. versions' = versions /\ n \in Nat \ {0} /\ Cached = versions[n]
  BY LastVersion DEF NoWrite, Listed
<1>4. Responded(request'[r]) => StandsFor(Class', request'[r], Gone', versions')
  <2> SUFFICES ASSUME Responded(request'[r]) PROVE StandsFor(Class', request'[r], Gone', versions')
    OBVIOUS
  <2>1. result.ok
    BY <1>2 DEF Responded
  <2>2. Class' = Class /\ Gone' = Gone
    BY <1>1, SameGone DEF SameCalls
  <2> DEFINE x == request'[r]
  <2>3. Tells(Class, x.call, x.result, Gone, versions[n])
    BY <1>2, <1>3, <2>1
  <2>4. x.holds = n - 1 + 0 /\ x.pc = "responding"
    BY <1>2
  <2> HIDE DEF x, n
  <2>5. x.holds = n - 1
    BY <1>3, <2>4
  <2>6. \A i \in 1 .. n : i > x.holds => i = n
    BY <1>3, <2>5
  <2>7. x.holds \in Nat /\ x.holds < n
    BY <1>3, <2>5
  <2>8. StandsFor(Class, x, Gone, versions)
    BY <2>3, <2>4, <2>6, <2>7 DEF StandsFor, n
  <2> QED
    BY <1>3, <2>2, <2>8 DEF x
<1>5. \A q \in Requests : q # r => request'[q] = request[q]
  BY <1>1 DEF Moves
<1> QED
  BY <1>1, <1>3, <1>4, <1>5, StandingKept

LEMMA WriteStands ==
  ASSUME Shaped, Listed, Standing, UNCHANGED <<scenario, stage>>,
         NEW r \in Requests, NEW w, NEW result, WriteAndRespond(r, w, result),
         result.ok => Tells(Class, request[r].call, result, Gone, w),
         \A q \in Requests : Responded(request[q]) =>
             Tells(Class, request[q].call, request[q].result, Gone, w)
  PROVE  Standing'
<1> DEFINE n == Len(versions)
<1>1. Moves(r, "responding") /\ SameCalls
  BY LeaveMoves, MovesSameCalls DEF WriteAndRespond
<1>2. /\ request'[r].pc = "responding" /\ request'[r].result = result
      /\ request'[r].holds = n - 1 + 1 /\ request'[r].call = request[r].call
  BY LeaveIs DEF WriteAndRespond
<1>3. /\ n \in Nat /\ Len(versions') = n + 1 /\ versions'[n + 1] = w
  <2>1. PICK V : versions \in Seq(V)
    BY DEF Listed
  <2>2. versions \in Seq(V \cup {w}) /\ versions # <<>> /\ w \in V \cup {w} /\ Write(w)
    BY <2>1 DEF Listed, WriteAndRespond
  <2> QED
    BY <2>2, Appended
<1>4. Responded(request'[r]) => StandsFor(Class', request'[r], Gone', versions')
  <2> SUFFICES ASSUME Responded(request'[r]) PROVE StandsFor(Class', request'[r], Gone', versions')
    OBVIOUS
  <2>1. result.ok
    BY <1>2 DEF Responded
  <2>2. Class' = Class /\ Gone' = Gone
    BY <1>1, SameGone DEF SameCalls
  <2> DEFINE x == request'[r]  vs == versions'
  <2>3. Tells(Class, x.call, x.result, Gone, w)
    BY <1>2, <2>1
  <2>4. x.holds = n - 1 + 1 /\ x.pc = "responding" /\ Len(vs) = n + 1 /\ vs[n + 1] = w
    BY <1>2, <1>3
  <2> HIDE DEF x, n, vs
  <2>5. x.holds = n
    BY <1>3, <2>4
  <2>6. \A i \in 1 .. n + 1 : i > x.holds => i = n + 1
    BY <1>3, <2>5
  <2>7. x.holds \in Nat /\ x.holds < n + 1
    BY <1>3, <2>5
  <2>8. StandsFor(Class, x, Gone, vs)
    BY <2>3, <2>4, <2>6, <2>7 DEF StandsFor
  <2> QED
    BY <2>2, <2>8 DEF x, vs
<1>5. \A q \in Requests : q # r => request'[q] = request[q]
  BY <1>1 DEF Moves
<1>6. Write(w)
  BY DEF WriteAndRespond
<1> QED
  BY <1>1, <1>4, <1>5, <1>6, StandingKept

\* What a restart and a flush leave of a response.
LEMMA PlatformStands ==
  ASSUME Shaped, Listed, Standing, Platform
  PROVE  Standing' /\ SameCalls
         /\ \A r \in Requests : Responded(request'[r]) =>
               Responded(request[r]) /\ request'[r].result = request[r].result
<1>0. Class' = Class /\ UNCHANGED <<scenario, stage>>
  BY DEF Platform, Class
<1>1. PICK C, P, L, R, H : request \in [Requests -> Calls(C, P, L, R, H)]
  BY DEF Shaped
<1>2. PICK V : versions \in Seq(V)
  BY DEF Listed
<1>3. versions # <<>>
  BY DEF Listed
<1>a. \A r \in Requests : request[r] \in Calls(C, P, L, R, H)
  BY <1>1
<1>4. CASE Flush
  <2> DEFINE h(r) == IF request[r].holds > 0 THEN request[r].holds - 1 ELSE 0
             x(r) == [request[r] EXCEPT !.holds = h(r)]
             n == Len(versions)
  <2>1. Len(versions) > 1 /\ versions' = Tail(versions) /\ request' = [r \in Requests |-> x(r)]
    BY <1>4 DEF Flush
  <2>2. \A r \in Requests : /\ x(r).pc = request[r].pc /\ x(r).result = request[r].result
                            /\ x(r).call = request[r].call /\ x(r).holds = h(r)
    BY <1>a DEF Calls
  <2> HIDE DEF x
  <2>3. \A r \in Requests : request'[r] = x(r)
    BY <2>1
  <2>4. SameCalls
    BY <1>0, <2>2, <2>3 DEF SameCalls
  <2>5. \A r \in Requests : Responded(request'[r]) => Responded(request[r]) /\ request'[r].result = request[r].result
    BY <2>2, <2>3 DEF Responded
  <2>6. /\ n \in Nat /\ n > 1 /\ Len(versions') = n - 1
        /\ \A i \in 1 .. n - 1 : versions'[i] = versions[i + 1]
    BY <1>2, <2>1, Flushed
  <2>7. ASSUME NEW r \in Requests, Responded(request'[r])
        PROVE  StandsFor(Class', request'[r], Gone', versions')
    <3> DEFINE y == request[r]  z == request'[r]  vs == versions'
    <3>1. StandsFor(Class, y, Gone, versions)
      BY <2>5, <2>7 DEF Standing
    <3>2. z.pc = y.pc /\ z.result = y.result /\ z.call = y.call
          /\ z.holds = (IF y.holds > 0 THEN y.holds - 1 ELSE 0)
      BY <2>2, <2>3
    <3>3. Len(vs) = n - 1 /\ \A i \in 1 .. n - 1 : vs[i] = versions[i + 1]
      BY <2>6
    <3> HIDE DEF y, z, vs, h
    <3>4. /\ y.holds \in Nat /\ y.holds < n /\ (y.pc = "answered" => y.holds = 0)
          /\ \A i \in 1 .. n : i > y.holds => Tells(Class, y.call, y.result, Gone, versions[i])
      BY <3>1 DEF StandsFor
    <3> HIDE DEF n
    <3>5. z.holds \in Nat /\ z.holds < n - 1 /\ (z.pc = "answered" => z.holds = 0)
      BY <2>6, <3>2, <3>4
    <3>6. \A i \in 1 .. n - 1 : i > z.holds => Tells(Class, z.call, z.result, Gone, vs[i])
      <4> TAKE i \in 1 .. n - 1
      <4>1. i + 1 \in 1 .. n /\ (i > z.holds => i + 1 > y.holds)
        BY <2>6, <3>2, <3>4
      <4> QED
        BY <3>2, <3>3, <3>4, <4>1
    <3>7. StandsFor(Class, z, Gone, vs)
      BY <3>3, <3>5, <3>6 DEF StandsFor
    <3> QED
      BY <2>4, <3>7, SameGone DEF SameCalls, z, vs
  <2> QED
    BY <2>4, <2>5, <2>7 DEF Standing
<1>5. CASE Restart
  <2> DEFINE kept(r) == request[r].pc \in {"unsent", "answered", "threw"}
             y(r) == [request[r] EXCEPT !.pc = "threw", !.local = <<>>, !.result = NoResult, !.holds = 0]
             x(r) == IF kept(r) THEN request[r] ELSE y(r)
  <2>1. request' = [r \in Requests |-> x(r)] /\ versions' = <<Durable>>
    BY <1>5 DEF Restart
  <2>2. \A r \in Requests : y(r).pc = "threw" /\ y(r).call = request[r].call
    BY <1>a DEF Calls
  <2> HIDE DEF y
  <2>3. \A r \in Requests : request'[r] = x(r)
    BY <2>1
  <2>4. SameCalls
    BY <1>0, <2>2, <2>3 DEF SameCalls
  <2>5. \A r \in Requests : Responded(request'[r]) =>
           Responded(request[r]) /\ request'[r] = request[r] /\ request[r].pc = "answered"
    BY <2>2, <2>3 DEF Responded
  <2>6. /\ Len(versions') = 1 /\ Durable' = Durable /\ versions'[1] = Durable /\ Durable = versions[1]
        /\ Len(versions) \in Nat \ {0}
    <3>1. Len(versions') = 1 /\ Durable' = Durable
      BY <1>2, <1>3, <2>1, Restarted
    <3>2. Durable = versions[1] /\ Len(versions) \in Nat \ {0}
      BY <1>2, <1>3, LastVersion
    <3>3. versions'[1] = Durable
      BY <2>1
    <3> QED
      BY <3>1, <3>2, <3>3
  <2>7. ASSUME NEW r \in Requests, Responded(request'[r])
        PROVE  StandsFor(Class', request'[r], Gone', versions')
    <3> DEFINE z == request[r]  vs == versions'
    <3>1. StandsFor(Class, z, Gone, versions) /\ z.pc = "answered" /\ request'[r] = z
      BY <2>5, <2>7 DEF Standing
    <3>2. Len(vs) = 1 /\ vs[1] = versions[1] /\ 1 \in 1 .. Len(versions)
      BY <2>6
    <3> HIDE DEF z, vs
    <3>3. z.holds = 0 /\ Tells(Class, z.call, z.result, Gone, versions[1])
      BY <3>1, <3>2 DEF StandsFor
    <3>4. StandsFor(Class, z, Gone, vs)
      BY <3>1, <3>2, <3>3 DEF StandsFor
    <3> QED
      BY <2>4, <3>1, <3>4, SameGone DEF SameCalls, vs
  <2>8. \A r \in Requests : Responded(request'[r]) => Responded(request[r]) /\ request'[r].result = request[r].result
    BY <2>5
  <2> QED
    BY <2>4, <2>7, <2>8 DEF Standing
<1>6. CASE \E r \in Requests : OutputGateOpens(r)
  <2> PICK r \in Requests : OutputGateOpens(r)
    BY <1>6
  <2> DEFINE x == [request[r] EXCEPT !.pc = "answered"]
  <2>1. /\ request' = [request EXCEPT ![r] = x] /\ request[r].pc = "responding" /\ request[r].holds = 0
        /\ UNCHANGED versions
    BY DEF OutputGateOpens, At
  <2>2. x.pc = "answered" /\ x.call = request[r].call /\ x.result = request[r].result /\ x.holds = request[r].holds
    BY <1>a DEF Calls
  <2> HIDE DEF x
  <2>3. request'[r] = x /\ \A q \in Requests : q # r => request'[q] = request[q]
    BY <1>1, <2>1
  <2>4. SameCalls
    BY <1>0, <2>2, <2>3 DEF SameCalls
  <2>5. \A q \in Requests : Responded(request'[q]) => Responded(request[q]) /\ request'[q].result = request[q].result
    BY <2>1, <2>2, <2>3 DEF Responded
  <2>6. Responded(request'[r]) => StandsFor(Class', request'[r], Gone', versions')
    BY <2>1, <2>2, <2>3, <2>4, <2>5, SameGone DEF SameCalls, StandsFor, Standing
  <2>7. Standing'
    BY <2>1, <2>3, <2>4, <2>6, StandingKept
  <2> QED
    BY <2>4, <2>5, <2>7
<1> QED
  BY <1>4, <1>5, <1>6 DEF Platform, PlatformStep

\* Nobody has responded to the calls that are sent anew.
LEMMA RestStands ==
  ASSUME \A r \in Requests : Responded(request'[r]) => request'[r] = request[r],
         Listed, Standing, SameCalls, UNCHANGED versions
  PROVE  Standing'
BY StandingKept

-----------------------------------------------------------------------------
(* The answers of a StatemOrder.                                           *)

\* No capture is called at the same time as a new order is put over the old one.
OrdersApart ==
  \A s \in Scenarios : s.class = "statem" =>
    \A i \in DOMAIN s.stages : \A j, k \in DOMAIN s.stages[i] :
      s.stages[i][j].op = "capture" => s.stages[i][k].op # "authorize"

AskedApart == \A r, q \in Requests :
  request[r].call.op = "capture" => request[q].call.op # "authorize"

\* a handler is where its call takes it
Labels(pc, op) ==
  /\ pc = "list" => op = "read"
  /\ pc \in {"capture", "commit"} => op = "capture"
  /\ pc \in {"refund", "commit refund", "refunded"} => op = "refund"
Labelled == \A r \in Requests : Labels(request[r].pc, request[r].call.op)
KeyTells(v) == v.state.captureKey # NoKey => CaptureDone(v)
KeysTell == \A i \in 1 .. Len(versions) : KeyTells(versions[i])

OrderAnswers == Standing /\ AskedApart /\ Labelled /\ KeysTell
AnswerInv == Class = "statem" => Common /\ OrdersOK /\ OrdersHandled /\ OrderAnswers

LEMMA OrdersListed == ASSUME OrdersOK, KeysTell PROVE Listed /\ KeyTells(Cached)
<1>1. Listed
  BY DEF OrdersOK, Listed
<1>2. Len(versions) \in Nat \ {0} /\ Cached = versions[Len(versions)]
  BY <1>1, LastVersion DEF Listed
<1> QED
  BY <1>1, <1>2 DEF KeysTell

LEMMA KeysKept ==
  ASSUME Listed, KeysTell, UNCHANGED versions \/ \E w : Write(w) /\ KeyTells(w)
  PROVE  KeysTell'
<1>1. CASE UNCHANGED versions
  BY <1>1 DEF KeysTell
<1>2. CASE \E w : Write(w) /\ KeyTells(w)
  <2>1. PICK w : Write(w) /\ KeyTells(w)
    BY <1>2
  <2>2. PICK V : versions \in Seq(V)
    BY DEF Listed
  <2>3. versions \in Seq(V \cup {w}) /\ versions # <<>> /\ w \in V \cup {w}
    BY <2>2 DEF Listed
  <2>4. /\ Len(versions) \in Nat /\ Len(versions') = Len(versions) + 1 /\ versions'[Len(versions) + 1] = w
        /\ \A i \in 1 .. Len(versions) : versions'[i] = versions[i]
    BY <2>1, <2>3, Appended
  <2>5. \A i \in 1 .. Len(versions) + 1 : i \in 1 .. Len(versions) \/ i = Len(versions) + 1
    BY <2>4
  <2> QED
    BY <2>1, <2>4, <2>5 DEF KeysTell
<1> QED
  BY <1>1, <1>2

\* what WithStatus writes
LEMMA StatusWritten ==
  ASSUME NEW L, NEW v \in OrderVersion(L), NEW key, NEW status
  PROVE  /\ WithStatus(v, [v.state EXCEPT !.captureKey = key], status).state.status = status
         /\ WithStatus(v, v.state, status).state.status = status
<1> DEFINE S == [status : {"new", "authorized", "captured", "refunded"} \cup {status},
                 amount : {0} \cup {d.amount : d \in CallsMade},
                 captureKey : {NoKey} \cup {d.key : d \in CallsMade} \cup {key}]
           s == [v.state EXCEPT !.captureKey = key]
<1>1. v.state \in S
  BY DEF OrderVersion, OrderStates
<1>2. s \in S
  BY <1>1, Zenon
<1>3. \A u \in S : [u EXCEPT !.status = status].status = status
  OBVIOUS
<1>4. \A u : WithStatus(v, u, status).state = [u EXCEPT !.status = status]
  BY DEF WithStatus, OrderVersion
<1> HIDE DEF S, s
<1> QED
  BY <1>1, <1>2, <1>3, <1>4 DEF s

LEMMA Authorized ==
  ASSUME NEW L, NEW v \in OrderVersion(L), NEW amount
  PROVE  LET w == [v EXCEPT !.state = [NewOrder EXCEPT !.status = "authorized", !.amount = amount]] IN
         KeyTells(w) /\ w.state.status = "authorized"
<1>1. [v EXCEPT !.state = [NewOrder EXCEPT !.status = "authorized", !.amount = amount]].state
        = [NewOrder EXCEPT !.status = "authorized", !.amount = amount]
  BY DEF OrderVersion
<1>2. /\ [NewOrder EXCEPT !.status = "authorized", !.amount = amount].captureKey = NoKey
      /\ [NewOrder EXCEPT !.status = "authorized", !.amount = amount].status = "authorized"
  BY DEF NewOrder
<1> QED
  BY <1>1, <1>2 DEF KeyTells

\* the handler moves: what it leaves of the invariant besides Standing
LEMMA AnswersMove ==
  ASSUME OrdersOK, OrderAnswers, UNCHANGED <<scenario, stage>>, NEW r \in Requests, NEW pc, Moves(r, pc),
         Labels(pc, request[r].call.op),
         UNCHANGED versions \/ \E w : Write(w) /\ KeyTells(w), Standing'
  PROVE  OrderAnswers'
<1>1. Listed
  BY OrdersListed DEF OrderAnswers
<1>2. KeysTell'
  BY <1>1, KeysKept DEF OrderAnswers
<1>3. \A q \in Requests : request'[q].call = request[q].call
  BY DEF Moves
<1>4. AskedApart'
  BY <1>3 DEF AskedApart, OrderAnswers
<1>5. Labelled'
  BY DEF Moves, Labelled, OrderAnswers
<1> QED
  BY <1>2, <1>4, <1>5 DEF OrderAnswers

LEMMA OrderAnswerKeeps ==
  ASSUME Class = "statem", Common, OrdersOK, OrdersHandled, OrderAnswers, UNCHANGED <<scenario, stage>>,
         NEW r \in Requests, StatemOrder(r)
  PROVE  OrderAnswers'
<1> DEFINE pc == request[r].pc
           call == request[r].call
<1>0. Shaped /\ OrderFresh(pc, request[r].local, call.key, Cached) /\ Standing /\ AskedApart /\ Labelled
  BY DEF Common, OrdersHandled, OrderAnswers
<1>1. PICK L : Cached \in OrderVersion(L)
  BY OrderCached
<1>2. Listed /\ KeyTells(Cached)
  BY OrdersListed DEF OrderAnswers
<1>t. \A c, result, v : Tells(Class, c, result, Gone, v) <=>
        /\ c.op = "capture" => CaptureDone(v)
        /\ c.op = "authorize" => v.state.status # "new"
  BY DEF Tells
<1>c. \A q \in Requests : Responded(request[q]) =>
        /\ request[q].call.op = "capture" => CaptureDone(Cached)
        /\ request[q].call.op = "authorize" => Cached.state.status # "new"
  BY <1>0, <1>2, <1>t, CachedTells
<1>l. Labels(pc, call.op)
  BY <1>0 DEF Labelled
<1>3. ASSUME NEW at \in {"list", "capture", "refund", "threw"}, NEW local, NoWrite, Suspend(r, at, local),
             Labels(at, call.op)
      PROVE  OrderAnswers'
  <2>1. Standing'
    BY <1>0, <1>2, <1>3, SuspendStands
  <2> QED
    BY <1>0, <1>3, <2>1, SuspendMoves, AnswersMove DEF NoWrite
<1>4. ASSUME NEW at \in {"commit", "commit refund"}, NEW id, NEW amount,
             Write(Charged(Cached, id, amount)), Suspend(r, at, Cached.state), Labels(at, call.op)
      PROVE  OrderAnswers'
  <2> DEFINE w == Charged(Cached, id, amount)
  <2>1. w.state = Cached.state
    BY <1>1, OrderCached, ChargeBacks
  <2>2. KeyTells(w) /\ (CaptureDone(Cached) => CaptureDone(w))
    BY <1>2, <2>1 DEF KeyTells, CaptureDone
  <2>3. Write(w)
    BY <1>4
  <2> HIDE DEF w
  <2>4. Standing'
    BY <1>0, <1>2, <1>4, <1>c, <1>t, <2>1, <2>2, <2>3, SuspendStands
  <2> QED
    BY <1>0, <1>4, <2>2, <2>3, <2>4, SuspendMoves, AnswersMove
<1>5. ASSUME NEW result, NoWrite, Respond(r, result), call.op # "authorize",
             call.op = "capture" /\ result.ok => CaptureDone(Cached)
      PROVE  OrderAnswers'
  <2>1. Standing'
    BY <1>0, <1>2, <1>5, <1>t, RespondStands
  <2>2. Moves(r, "responding")
    BY <1>0, <1>5, LeaveMoves DEF Respond
  <2> QED
    BY <1>5, <2>1, <2>2, AnswersMove DEF NoWrite, Labels
<1>6. ASSUME NEW w, WriteAndRespond(r, w, Ok), KeyTells(w), w.state.status # "new",
             CaptureDone(w) \/ call.op = "authorize"
      PROVE  OrderAnswers'
  <2>1. call.op = "capture" => CaptureDone(w)
    BY <1>6
  <2>2. \A q \in Requests : Responded(request[q]) => (request[q].call.op = "capture" => CaptureDone(w))
    BY <1>0, <1>6 DEF AskedApart
  <2>3. Standing'
    BY <1>0, <1>2, <1>6, <1>t, <2>1, <2>2, WriteStands
  <2>4. Moves(r, "responding") /\ Write(w)
    BY <1>0, <1>6, LeaveMoves DEF WriteAndRespond
  <2> QED
    BY <1>6, <2>3, <2>4, AnswersMove DEF Labels
<1>7. CASE ReadModel(r)
  <2>1. CASE Delivered(r) /\ Op(r, "read") /\ ReadState(r, "list")
    BY <1>3, <2>1 DEF ReadState, Op, Call, Labels
  <2>2. CASE At(r, "list") /\ NoWrite
              /\ Respond(r, [ok |-> TRUE, status |-> LocalState(r).status, charged |-> Sum(Cached.ledger)])
    BY <1>5, <1>l, <2>2 DEF At, Labels
  <2> QED
    BY <1>7, <2>1, <2>2 DEF ReadModel
<1>8. CASE Authorize(r)
  <2> DEFINE w == [Cached EXCEPT !.state = [NewOrder EXCEPT !.status = "authorized", !.amount = Call(r).amount]]
  <2>1. WriteAndRespond(r, w, Ok) /\ call.op = "authorize"
    BY <1>8 DEF Authorize, Op, Call
  <2>2. KeyTells(w) /\ w.state.status # "new"
    BY <1>1, Authorized
  <2> HIDE DEF w
  <2> QED
    BY <1>6, <2>1, <2>2
<1>9. CASE Delivered(r) /\ Op(r, "capture") /\ ReadState(r, "capture")
  BY <1>3, <1>9 DEF ReadState, Op, Call, Labels
<1>10. CASE Delivered(r) /\ Op(r, "refund") /\ ReadState(r, "refund")
  BY <1>3, <1>10 DEF ReadState, Op, Call, Labels
<1>11. CASE StatemCharge(r)
  <2>1. LocalState(r) = Cached.state /\ call.op = "capture"
    BY <1>0, <1>11, <1>l DEF StatemCharge, At, AtRest, LocalState, OrderFresh, Labels
  <2>2. CASE Cached.state.captureKey = Call(r).key /\ NoWrite /\ Respond(r, Already)
    <3>1. call \in CallsMade
      BY <1>11 DEF Common, AskedOK, StatemCharge, At
    <3>2. call.op = "capture" => call.key # NoKey
      BY <3>1, ScenarioAssumption
    <3>3. call.op = "capture" => CaptureDone(Cached)
      BY <1>2, <2>2, <3>2 DEF KeyTells, Call
    <3> QED
      BY <1>5, <2>1, <2>2, <3>3
  <2>3. CASE NoWrite /\ Respond(r, AlreadyCaptured)
    BY <1>5, <2>1, <2>3 DEF AlreadyCaptured
  <2>4. CASE NoWrite /\ Respond(r, InvalidTransition)
    BY <1>5, <2>1, <2>4 DEF InvalidTransition
  <2>5. CASE Write(Charged(Cached, CaptureId(Call(r).key), Cached.state.amount)) /\ Suspend(r, "commit", Cached.state)
    BY <1>4, <2>1, <2>5 DEF Labels
  <2> QED
    BY <1>11, <2>1, <2>2, <2>3, <2>4, <2>5 DEF StatemCharge
<1>12. CASE StatemCommit(r)
  <2>1. LocalState(r) = Cached.state
    BY <1>0, <1>12 DEF StatemCommit, At, AtRest, LocalState, OrderFresh
  <2>2. CASE NoWrite /\ Throw(r)
    BY <1>3, <2>2 DEF Throw, Labels
  <2>3. CASE WriteAndRespond(r, WithStatus(Cached, [Cached.state EXCEPT !.captureKey = Call(r).key], "captured"), Ok)
    <3> DEFINE w == WithStatus(Cached, [Cached.state EXCEPT !.captureKey = Call(r).key], "captured")
    <3>1. w.state.status = "captured"
      BY <1>1, StatusWritten
    <3>2. WriteAndRespond(r, w, Ok)
      BY <2>3
    <3> HIDE DEF w
    <3>3. CaptureDone(w) /\ KeyTells(w) /\ w.state.status # "new"
      BY <3>1 DEF CaptureDone, KeyTells
    <3> QED
      BY <1>6, <3>2, <3>3
  <2> QED
    BY <1>12, <2>1, <2>2, <2>3 DEF StatemCommit
<1>13. CASE StatemRefund(r)
  <2>1. LocalState(r) = Cached.state /\ call.op = "refund"
    BY <1>0, <1>13, <1>l DEF StatemRefund, At, AtRest, LocalState, OrderFresh, Labels
  <2>2. CASE NoWrite /\ Respond(r, InvalidTransition)
    BY <1>5, <2>1, <2>2 DEF InvalidTransition
  <2>3. CASE Write(Charged(Cached, RefundId(Call(r).key), -Cached.state.amount)) /\ Suspend(r, "commit refund", Cached.state)
    BY <1>4, <2>1, <2>3 DEF Labels
  <2> QED
    BY <1>13, <2>1, <2>2, <2>3 DEF StatemRefund
<1>14. CASE StatemRefundCommit(r)
  <2>1. LocalState(r) = Cached.state
    BY <1>0, <1>14 DEF StatemRefundCommit, At, AtRest, LocalState, OrderFresh
  <2> DEFINE w == WithStatus(Cached, Cached.state, "refunded")
  <2>2. w.state.status = "refunded"
    BY <1>1, StatusWritten
  <2>3. WriteAndRespond(r, w, Ok)
    BY <1>14, <2>1 DEF StatemRefundCommit
  <2> HIDE DEF w
  <2>4. CaptureDone(w) /\ KeyTells(w) /\ w.state.status # "new"
    BY <2>2 DEF CaptureDone, KeyTells
  <2> QED
    BY <1>6, <2>3, <2>4
<1> QED
  BY <1>7, <1>8, <1>9, <1>10, <1>11, <1>12, <1>13, <1>14 DEF StatemOrder

\* The calls of a stage are those of the scenario.
LEMMA StageApart ==
  ASSUME OrdersApart, Class = "statem", Common, NextStage
  PROVE  AskedApart'
<1> DEFINE calls == Stages[stage + 1]
           fresh(r) == IF r \in DOMAIN calls THEN Sent(calls[r]) ELSE Unsent
<1>1. scenario \in Scenarios /\ scenario.class = "statem"
  BY DEF Common, Class
<1>2. stage + 1 \in DOMAIN scenario.stages
  <2>1. scenario.stages \in Seq(Seq(CallsMade)) /\ stage \in Nat /\ stage < Len(scenario.stages)
    BY <1>1, ScenarioAssumption DEF Common, NextStage, Stages
  <2>2. \A s : s \in Seq(Seq(CallsMade)) => Len(s) \in Nat /\ DOMAIN s = 1 .. Len(s)
    OBVIOUS
  <2> QED
    BY <2>1, <2>2
<1>3. \A j, k \in DOMAIN calls : calls[j].op = "capture" => calls[k].op # "authorize"
  BY <1>1, <1>2 DEF OrdersApart, Stages
<1>4. \A r \in Requests : request'[r] = fresh(r)
  BY DEF NextStage
<1>5. Unsent.call = NoCall /\ NoCall.op = "none" /\ \A c : Sent(c).call = c
  BY DEF Unsent, NoCall, Sent
<1>6. \A r \in Requests : IF r \in DOMAIN calls THEN request'[r].call = calls[r]
                          ELSE request'[r].call.op = "none"
  BY <1>4, <1>5
<1> HIDE DEF calls
<1> QED
  BY <1>3, <1>6 DEF AskedApart

LEMMA SentNow ==
  ASSUME NextStage, NEW r \in Requests
  PROVE  request'[r].pc \in {"unsent", "sent"}
<1>1. Unsent.pc = "unsent" /\ \A c : Sent(c).pc = "sent"
  BY DEF Unsent, Sent
<1> QED
  BY <1>1 DEF NextStage

LEMMA RetriedNow ==
  ASSUME Common, NEW r \in Requests, Retry(r)
  PROVE  /\ request'[r].pc = "sent" /\ request'[r].call = request[r].call
         /\ \A q \in Requests : q # r => request'[q] = request[q]
         /\ UNCHANGED <<versions, scenario, stage>>
<1>1. PICK C, P, L, R, H : request \in [Requests -> Calls(C, P, L, R, H)]
  BY DEF Common, Shaped
<1>2. Sent(request[r].call).pc = "sent" /\ Sent(request[r].call).call = request[r].call
  BY DEF Sent, Unsent
<1> QED
  BY <1>1, <1>2 DEF Retry

LEMMA AnswerStart == ASSUME Init PROVE AnswerInv
<1> SUFFICES ASSUME Class = "statem" PROVE OrderAnswers
  BY OrderInit DEF AnswerInv, OrderInv
<1>1. \A r \in Requests : request[r] = Unsent
  BY DEF Init, StorageInit
<1>2. Unsent.pc = "unsent" /\ Unsent.call = NoCall /\ NoCall.op = "none"
  BY DEF Unsent, NoCall
<1>3. Standing /\ Labelled /\ AskedApart
  BY <1>1, <1>2 DEF Standing, Responded, Labelled, Labels, AskedApart
<1>4. versions = <<EmptyStorage>> /\ EmptyStorage.state.captureKey = NoKey
  BY DEF Init, StorageInit, EmptyStorage, NewOrder
<1> HIDE DEF EmptyStorage
<1>5. KeysTell
  BY <1>4 DEF KeysTell, KeyTells
<1> QED
  BY <1>3, <1>5 DEF OrderAnswers

LEMMA AnswerNext ==
  ASSUME OrdersApart, AnswerInv, [Next]_vars
  PROVE  AnswerInv'
<1>0. Class' = Class
  BY DEF Class, Next, vars, NextStage, Retry, Handler, Platform
<1>i. Class = "statem" => Common' /\ OrdersOK' /\ OrdersHandled'
  BY <1>0, OrderNext DEF OrderInv, AnswerInv
<1> SUFFICES ASSUME Class = "statem" PROVE OrderAnswers'
  BY <1>0, <1>i DEF AnswerInv
<1>1. /\ Common /\ OrdersOK /\ OrdersHandled /\ OrderAnswers
      /\ Shaped /\ Standing /\ AskedApart /\ Labelled /\ KeysTell
  BY DEF AnswerInv, OrderAnswers, Common
<1>2. Listed
  BY <1>1, OrdersListed
<1>3. CASE NextStage
  <2>1. AskedApart'
    BY <1>1, <1>3, StageApart
  <2>2. Standing' /\ Labelled'
    BY <1>3, SentNow DEF Standing, Responded, Labelled, Labels
  <2>3. KeysTell'
    BY <1>1, <1>2, <1>3, KeysKept DEF NextStage
  <2> QED
    BY <2>1, <2>2, <2>3 DEF OrderAnswers
<1>4. CASE \E r \in Requests : Retry(r)
  <2> PICK r \in Requests : Retry(r)
    BY <1>4
  <2>1. /\ request'[r].pc = "sent" /\ request'[r].call = request[r].call
        /\ \A q \in Requests : q # r => request'[q] = request[q]
        /\ UNCHANGED <<versions, scenario, stage>>
    BY <1>1, RetriedNow
  <2>2. SameCalls
    BY <1>0, <2>1 DEF SameCalls
  <2>3. Standing'
    BY <1>1, <1>2, <2>1, <2>2, StandingKept DEF Responded
  <2>4. AskedApart'
    BY <1>1, <2>2 DEF SameCalls, AskedApart
  <2>5. Labelled'
    BY <1>1, <2>1 DEF Labelled, Labels
  <2>6. KeysTell'
    BY <1>1, <1>2, <2>1, KeysKept
  <2> QED
    BY <2>3, <2>4, <2>5, <2>6 DEF OrderAnswers
<1>5. CASE \E r \in Requests : Handler(r)
  <2> PICK r \in Requests : Handler(r)
    BY <1>5
  <2>1. StatemOrder(r) /\ UNCHANGED <<scenario, stage>>
    BY DEF Handler
  <2> QED
    BY <1>1, <2>1, OrderAnswerKeeps
<1>6. CASE Platform
  <2>1. Standing' /\ SameCalls
    BY <1>1, <1>2, <1>6, PlatformStands
  <2>2. AskedApart'
    BY <1>1, <2>1 DEF SameCalls, AskedApart
  <2>3. Labelled'
    BY <1>1, <1>6, <2>1, PlatformKeepsCommon DEF SameCalls, Labelled, Labels, AtRest
  <2>4. KeysTell'
    <3>1. CASE UNCHANGED versions
      BY <1>1, <1>2, <3>1, KeysKept
    <3>2. CASE Len(versions) > 1 /\ versions' = Tail(versions)
      <4>1. /\ Len(versions) \in Nat /\ Len(versions') = Len(versions) - 1
            /\ \A i \in 1 .. Len(versions') : versions'[i] = versions[i + 1]
        BY <1>2, <3>2, Flushed DEF Listed
      <4>2. \A i \in 1 .. Len(versions') : i + 1 \in 1 .. Len(versions)
        BY <3>2, <4>1
      <4> QED
        BY <1>1, <4>1, <4>2 DEF KeysTell
    <3>3. CASE versions' = <<Durable>>
      <4>1. Len(versions') = 1 /\ versions'[1] = Durable
        BY <3>3
      <4>2. Durable = versions[1] /\ 1 \in 1 .. Len(versions)
        BY <1>2, LastVersion DEF Listed
      <4>3. KeyTells(versions'[1])
        BY <1>1, <4>1, <4>2 DEF KeysTell
      <4> QED
        BY <4>1, <4>3 DEF KeysTell
    <3> QED
      BY <1>1, <1>6, <3>1, <3>2, <3>3, PlatformKeepsCommon
  <2> QED
    BY <2>1, <2>2, <2>3, <2>4 DEF OrderAnswers
<1>7. CASE UNCHANGED vars
  BY <1>1, <1>7 DEF vars, OrderAnswers, Standing, Class, Gone, CallsSoFar, Stages, AskedApart, Labelled, KeysTell
<1> QED
  BY <1>3, <1>4, <1>5, <1>6, <1>7 DEF Next

LEMMA CapturesStand ==
  ASSUME AnswerInv, Class = "statem", AnsweredOk("capture") # {}
  PROVE  Durable.state.status \in {"captured", "refunded"}
<1>1. PICK r \in Requests : request[r].pc = "answered" /\ request[r].call.op = "capture" /\ request[r].result.ok
  BY DEF AnsweredOk, Op, Call
<1>2. Standing /\ Listed
  BY OrdersListed DEF AnswerInv, OrderAnswers
<1>3. StandsFor(Class, request[r], Gone, versions)
  BY <1>1, <1>2 DEF Standing, Responded
<1>4. Durable = versions[1] /\ 1 \in 1 .. Len(versions)
  BY <1>2, LastVersion DEF Listed
<1>5. Tells(Class, request[r].call, request[r].result, Gone, versions[1])
  BY <1>1, <1>3, <1>4 DEF StandsFor
<1> QED
  BY <1>1, <1>4, <1>5 DEF Tells, CaptureDone

-----------------------------------------------------------------------------
(* The answers of a LedgerDO.                                              *)
LedgerTable(F) == [rows : F, seq : Nat]
LedgerVersion(F) ==
    [state : {NewOrder}, ledger : {<<>>}, status : {Open}, history : {<<>>},
     table : LedgerTable(F), balance : {0}]
LedgersOK == (\E F : versions \in Seq(LedgerVersion(F))) /\ versions # <<>>

\* no two adds are answered with the same id
Adds(x) == Responded(x) /\ x.call.op = "add"
Distinct == \A r, q \in Requests :
    r # q /\ Adds(request[r]) /\ Adds(request[q]) => request[r].result.id # request[q].result.id

\* an id that was answered in an earlier stage is there or asked to be deleted, and no
\* add of this stage has it
Remains(id, gone, v) == id \in Nat /\ id <= v.table.seq /\ (id \in DOMAIN v.table.rows \/ id \in gone)
GivenKept == \A id \in given : \A i \in 1 .. Len(versions) : Remains(id, Gone, versions[i])
GivenOnce == \A r \in Requests : Adds(request[r]) => request[r].result.id \notin given

AskedSoFar == \A r \in Requests : request[r].pc # "unsent" => request[r].call \in CallsSoFar

Entries == Standing /\ Distinct /\ GivenKept /\ GivenOnce /\ AskedSoFar
LedgerInv == Class = "ledger" => Common /\ LedgersOK /\ Entries

LEMMA LedgersListed ==
  ASSUME LedgersOK
  PROVE  Listed /\ \E F : Cached \in LedgerVersion(F) /\ Cached.table \in LedgerTable(F)
<1>1. PICK F : versions \in Seq(LedgerVersion(F))
  BY DEF LedgersOK
<1>2. Listed
  BY <1>1 DEF LedgersOK, Listed
<1>3. Cached \in LedgerVersion(F)
  BY <1>1, LastVersion DEF LedgersOK
<1>4. Cached.table \in LedgerTable(F)
  BY <1>3 DEF LedgerVersion
<1> QED
  BY <1>2, <1>3, <1>4

\* no answers but those there were
LEMMA DistinctKept ==
  ASSUME Distinct, SameCalls,
         \A r \in Requests : Responded(request'[r]) =>
            Responded(request[r]) /\ request'[r].result = request[r].result
  PROVE  Distinct'
BY DEF Distinct, SameCalls, Adds

\* A step of a stage: the versions after it are old ones or keep the ids that were given.
LEMMA GivenStands ==
  ASSUME GivenKept, GivenOnce, AskedSoFar, UNCHANGED <<scenario, stage, given>>,
         \A i \in 1 .. Len(versions') :
            \/ \E j \in 1 .. Len(versions) : versions'[i] = versions[j]
            \/ \A id \in given : Remains(id, Gone, versions'[i]),
         \A r \in Requests : /\ request'[r].call = request[r].call
                             /\ request'[r].pc # "unsent" => request[r].pc # "unsent",
         \A r \in Requests : Adds(request'[r]) => request'[r].result.id \notin given
  PROVE  GivenKept' /\ GivenOnce' /\ AskedSoFar'
<1>1. CallsSoFar' = CallsSoFar /\ Gone' = Gone
  BY DEF CallsSoFar, Gone, Stages
<1>2. GivenKept'
  <2> SUFFICES ASSUME NEW id \in given, NEW i \in 1 .. Len(versions') PROVE Remains(id, Gone, versions'[i])
    BY <1>1 DEF GivenKept
  <2> QED
    BY DEF GivenKept
<1>3. GivenOnce' /\ AskedSoFar'
  BY <1>1 DEF GivenOnce, AskedSoFar
<1> QED
  BY <1>2, <1>3

\* A request that changes the table: it loses no row nobody asked to delete, and the id
\* of an entry it adds is a new one.
LEMMA LedgerWrites ==
  ASSUME Class = "ledger", Common, LedgersOK, Entries, UNCHANGED <<scenario, stage, given>>,
         NEW r \in Requests, Delivered(r), NEW G, NEW t \in LedgerTable(G),
         NEW id, NEW balance, WriteAndRespond(r, [Cached EXCEPT !.table = t], [ok |-> TRUE, id |-> id, balance |-> balance]),
         Cached.table.seq <= t.seq,
         \A i \in DOMAIN Cached.table.rows : i \in DOMAIN t.rows \/ i \in Gone,
         request[r].call.op = "add" =>
            id \in DOMAIN t.rows /\ id \in Nat /\ id <= t.seq /\ Cached.table.seq < id
  PROVE  Common' /\ LedgersOK' /\ Entries'
<1> DEFINE w == [Cached EXCEPT !.table = t]
           result == [ok |-> TRUE, id |-> id, balance |-> balance]
<1>0. Shaped /\ Listed /\ Standing /\ Distinct /\ GivenKept /\ GivenOnce /\ AskedSoFar
  BY LedgersListed DEF Common, Entries
<1>1. PICK F : versions \in Seq(LedgerVersion(F))
  BY DEF LedgersOK
<1>2. Cached \in LedgerVersion(F) /\ Cached.table \in LedgerTable(F) /\ Cached.table.seq \in Nat
  <2>1. Cached \in LedgerVersion(F)
    BY <1>1, LastVersion DEF LedgersOK
  <2> QED
    BY <2>1 DEF LedgerVersion, LedgerTable
<1>3. w \in LedgerVersion(F \cup G) /\ w.table = t
  <2>1. t \in LedgerTable(F \cup G)
    BY DEF LedgerTable
  <2>2. Cached \in LedgerVersion(F \cup G)
    BY <1>2 DEF LedgerVersion, LedgerTable
  <2>3. w \in LedgerVersion(F \cup G)
    BY <2>1, <2>2, Zenon DEF LedgerVersion
  <2> QED
    BY <2>2, <2>3 DEF LedgerVersion
<1>4. WriteAndRespond(r, w, result) /\ result.ok /\ result.id = id
  OBVIOUS
<1> HIDE DEF w, result
<1>5. Moves(r, "responding") /\ Write(w)
  BY <1>0, <1>4, LeaveMoves DEF WriteAndRespond
<1>6. Common'
  BY <1>5, MovesKeepCommon
<1>7. LedgersOK'
  <2> DEFINE V == LedgerVersion(F \cup G)
  <2>1. LedgerVersion(F) \subseteq V
    BY DEF LedgerVersion, LedgerTable
  <2>2. w \in V
    BY <1>3
  <2> HIDE DEF V
  <2>3. versions \in Seq(V) /\ versions # <<>>
    BY <1>1, <2>1 DEF LedgersOK
  <2>4. versions' \in Seq(V) /\ versions' # <<>>
    BY <1>5, <2>2, <2>3, Appended
  <2> QED
    BY <2>4, Zenon DEF LedgersOK, V
<1>t. \A c, x, v : Tells(Class, c, x, Gone, v) <=>
        (c.op = "add" => (x.id \in DOMAIN v.table.rows \/ x.id \in Gone) /\ x.id \in Nat /\ x.id <= v.table.seq)
  BY DEF Tells
<1>8. \A q \in Requests : Adds(request[q]) =>
         /\ request[q].result.id \in DOMAIN Cached.table.rows \/ request[q].result.id \in Gone
         /\ request[q].result.id \in Nat /\ request[q].result.id <= Cached.table.seq
  BY <1>0, <1>t, CachedTells DEF Adds
<1>9. t.seq \in Nat
  BY DEF LedgerTable
<1>10. \A q \in Requests : Responded(request[q]) =>
          Tells(Class, request[q].call, request[q].result, Gone, w)
  <2> SUFFICES ASSUME NEW q \in Requests, Adds(request[q])
               PROVE  /\ request[q].result.id \in DOMAIN t.rows \/ request[q].result.id \in Gone
                      /\ request[q].result.id \in Nat /\ request[q].result.id <= t.seq
    BY <1>3, <1>t DEF Adds
  <2> DEFINE a == request[q].result.id
  <2>1. a \in DOMAIN Cached.table.rows \/ a \in Gone
    BY <1>8
  <2>2. a \in Nat /\ a <= Cached.table.seq
    BY <1>8
  <2> HIDE DEF a
  <2>3. a <= t.seq
    BY <1>2, <1>9, <2>2
  <2> QED
    BY <2>1, <2>2, <2>3 DEF a
<1>11. Standing'
  <2>1. result.ok => Tells(Class, request[r].call, result, Gone, w)
    BY <1>3, <1>4, <1>t
  <2> QED
    BY <1>0, <1>4, <1>10, <2>1, WriteStands
<1>12. Distinct'
  <2>1. /\ request'[r].result = result /\ request'[r].call = request[r].call
        /\ \A q \in Requests : q # r => request'[q] = request[q]
    BY <1>0, <1>4, <1>5, LeaveIs DEF WriteAndRespond, Moves
  <2>2. ASSUME request[r].call.op = "add", NEW q \in Requests, Adds(request[q])
        PROVE  request[q].result.id # id
    <3>1. request[q].result.id \in Nat /\ request[q].result.id <= Cached.table.seq
      BY <1>8, <2>2
    <3>2. id \in Nat /\ Cached.table.seq < id
      BY <2>2
    <3> QED
      BY <1>2, <3>1, <3>2
  <2>3. ASSUME NEW q \in Requests, NEW p \in Requests, q # p, Adds(request'[q]), Adds(request'[p])
        PROVE  request'[q].result.id # request'[p].result.id
    <3>1. CASE q = r
      BY <1>4, <2>1, <2>2, <2>3, <3>1 DEF Adds
    <3>2. CASE p = r
      BY <1>4, <2>1, <2>2, <2>3, <3>2 DEF Adds
    <3>3. CASE q # r /\ p # r
      BY <1>0, <2>1, <2>3, <3>3 DEF Distinct
    <3> QED
      BY <3>1, <3>2, <3>3
  <2> QED
    BY <2>3 DEF Distinct
<1>13. \A i \in given : i \in Nat /\ i <= Cached.table.seq /\ Remains(i, Gone, w)
  <2> TAKE i \in given
  <2>1. Len(versions) \in Nat \ {0} /\ Cached = versions[Len(versions)]
    BY <1>0, LastVersion DEF Listed
  <2>2. Remains(i, Gone, Cached)
    BY <1>0, <2>1 DEF GivenKept
  <2>3. i \in Nat /\ i <= Cached.table.seq /\ (i \in DOMAIN Cached.table.rows \/ i \in Gone)
    BY <2>2 DEF Remains
  <2>4. i <= t.seq
    BY <1>2, <1>9, <2>3
  <2> QED
    BY <1>3, <2>3, <2>4 DEF Remains
<1>14. GivenKept' /\ GivenOnce' /\ AskedSoFar'
  <2>1. /\ request'[r].result = result /\ request'[r].call = request[r].call
        /\ request[r].pc = "sent"
        /\ \A q \in Requests : q # r => request'[q] = request[q]
    BY <1>0, <1>4, <1>5, LeaveIs DEF WriteAndRespond, Moves, Delivered
  <2>2. ASSUME NEW q \in Requests, Adds(request'[q]) PROVE request'[q].result.id \notin given
    <3>1. CASE q = r
      <4>1. request[r].call.op = "add" /\ request'[q].result.id = id
        BY <1>4, <2>1, <2>2, <3>1 DEF Adds
      <4>2. id \in Nat /\ Cached.table.seq < id
        BY <4>1
      <4>3. \A i \in given : i # id
        BY <1>2, <1>13, <4>2
      <4> QED
        BY <4>1, <4>3
    <3>2. CASE q # r
      BY <1>0, <2>1, <2>2, <3>2 DEF GivenOnce
    <3> QED
      BY <3>1, <3>2
  <2>3. \A i \in 1 .. Len(versions') :
            \/ \E j \in 1 .. Len(versions) : versions'[i] = versions[j]
            \/ versions'[i] = w
    <3>1. PICK V : versions \in Seq(V)
      BY <1>0 DEF Listed
    <3>2. versions \in Seq(V \cup {w}) /\ versions # <<>> /\ w \in V \cup {w}
      BY <1>0, <3>1 DEF Listed
    <3>3. /\ Len(versions) \in Nat /\ Len(versions') = Len(versions) + 1 /\ versions'[Len(versions) + 1] = w
          /\ \A i \in 1 .. Len(versions) : versions'[i] = versions[i]
      BY <1>5, <3>2, Appended
    <3>4. \A i \in 1 .. Len(versions) + 1 : i \in 1 .. Len(versions) \/ i = Len(versions) + 1
      BY <3>3
    <3> QED
      BY <3>3, <3>4
  <2>4. \A i \in 1 .. Len(versions') :
            \/ \E j \in 1 .. Len(versions) : versions'[i] = versions[j]
            \/ \A j \in given : Remains(j, Gone, versions'[i])
    BY <1>13, <2>3
  <2>5. \A q \in Requests : /\ request'[q].call = request[q].call
                            /\ request'[q].pc # "unsent" => request[q].pc # "unsent"
    BY <2>1
  <2> QED
    BY <1>0, <2>2, <2>4, <2>5, GivenStands
<1> QED
  BY <1>6, <1>7, <1>11, <1>12, <1>14 DEF Entries

\* A request that changes nothing.
LEMMA LedgerAsks ==
  ASSUME Class = "ledger", Common, LedgersOK, Entries, UNCHANGED <<scenario, stage, given>>,
         NEW r \in Requests, Delivered(r), NEW result, NoWrite, Respond(r, result), request[r].call.op # "add"
  PROVE  Common' /\ LedgersOK' /\ Entries'
<1>0. Shaped /\ Listed /\ Standing /\ Distinct /\ GivenKept /\ GivenOnce /\ AskedSoFar
  BY LedgersListed DEF Common, Entries
<1>1. Moves(r, "responding")
  BY <1>0, LeaveMoves DEF Respond
<1>2. Common'
  BY <1>1, MovesKeepCommon
<1>3. LedgersOK'
  BY DEF LedgersOK, NoWrite
<1>4. Standing'
  <2>1. Tells(Class, request[r].call, result, Gone, Cached)
    BY DEF Tells
  <2> QED
    BY <1>0, <2>1, RespondStands
<1>5. Distinct'
  BY <1>0, <1>1 DEF Distinct, Adds, Moves
<1>6. GivenKept' /\ GivenOnce' /\ AskedSoFar'
  <2>1. \A q \in Requests : /\ request'[q].call = request[q].call
                            /\ request'[q].pc # "unsent" => request[q].pc # "unsent"
                            /\ Adds(request'[q]) => request'[q].result.id \notin given
    BY <1>0, <1>1 DEF Moves, Delivered, Adds, GivenOnce
  <2>2. \A i \in 1 .. Len(versions') : \E j \in 1 .. Len(versions) : versions'[i] = versions[j]
    BY DEF NoWrite
  <2> QED
    BY <1>0, <2>1, <2>2, GivenStands
<1> QED
  BY <1>2, <1>3, <1>4, <1>5, <1>6 DEF Entries

LEMMA LedgerKeeps ==
  ASSUME Class = "ledger", Common, LedgersOK, Entries, UNCHANGED <<scenario, stage, given>>,
         NEW r \in Requests, LedgerDO(r)
  PROVE  Common' /\ LedgersOK' /\ Entries'
<1> DEFINE t == Cached.table  c == request[r].call
<1>0. PICK F : t \in LedgerTable(F)
  BY LedgersListed
<1>1. t.rows \in F /\ t.seq \in Nat /\ t.seq <= t.seq
  <2>1. t.rows \in F /\ t.seq \in Nat
    BY <1>0 DEF LedgerTable
  <2> QED
    BY <2>1
<1>2. CASE LedgerAdd(r)
  <2> DEFINE id == t.seq + 1  rows == Inserted(t.rows, id, c.amount)  u == [rows |-> rows, seq |-> id]
  <2>1. /\ Delivered(r)
        /\ WriteAndRespond(r, [Cached EXCEPT !.table = u], [ok |-> TRUE, id |-> id, balance |-> Total(u)])
    BY <1>2 DEF LedgerAdd, Wants, Commits, Requested
  <2>2. id \in Nat /\ t.seq < id /\ t.seq <= id /\ id <= id
    BY <1>1
  <2>3. DOMAIN rows = {id} \cup DOMAIN t.rows
    BY DEF Inserted
  <2>4. u \in LedgerTable({rows}) /\ u.rows = rows /\ u.seq = id
    BY <2>2 DEF LedgerTable
  <2> HIDE DEF u, rows, id
  <2> QED
    BY <2>1, <2>2, <2>3, <2>4, LedgerWrites
<1>3. CASE LedgerUpdate(r)
  <2> DEFINE rows == [t.rows EXCEPT ![c.id] = c.amount]  u == [t EXCEPT !.rows = rows]
  <2>1. /\ Delivered(r) /\ c.op = "update"
        /\ WriteAndRespond(r, [Cached EXCEPT !.table = u], [ok |-> TRUE, id |-> c.id, balance |-> Total(u)])
    BY <1>3 DEF LedgerUpdate, Wants, Commits, Requested
  <2>2. DOMAIN rows = DOMAIN t.rows
    OBVIOUS
  <2> HIDE DEF rows
  <2>3. u \in LedgerTable({rows}) /\ u.rows = rows /\ u.seq = t.seq
    BY <1>0 DEF LedgerTable
  <2> HIDE DEF u
  <2> QED
    BY <1>1, <2>1, <2>2, <2>3, LedgerWrites
<1>4. CASE LedgerDelete(r)
  <2> DEFINE rows == Restrict(t.rows, DOMAIN t.rows \ {c.id})  u == [t EXCEPT !.rows = rows]
  <2>1. /\ Delivered(r) /\ c.op = "delete"
        /\ WriteAndRespond(r, [Cached EXCEPT !.table = u], [ok |-> TRUE, id |-> c.id, balance |-> Total(u)])
    BY <1>4 DEF LedgerDelete, Wants, Commits, Requested
  <2>2. DOMAIN rows = DOMAIN t.rows \ {c.id}
    BY DEF Restrict
  <2> HIDE DEF rows
  <2>3. u \in LedgerTable({rows}) /\ u.rows = rows /\ u.seq = t.seq
    BY <1>0 DEF LedgerTable
  <2>4. c.id \in Gone
    BY <2>1 DEF Gone, AskedSoFar, Entries, Delivered
  <2> HIDE DEF u
  <2> QED
    BY <1>1, <2>1, <2>2, <2>3, <2>4, LedgerWrites
<1>5. CASE LedgerMisses(r)
  BY <1>5, LedgerAsks DEF LedgerMisses, Wants, Requested
<1>6. CASE LedgerReads(r)
  BY <1>6, LedgerAsks DEF LedgerReads, Wants, Requested
<1> QED
  BY <1>2, <1>3, <1>4, <1>5, <1>6 DEF LedgerDO

LEMMA LedgerStart == ASSUME Init PROVE LedgerInv
<1> SUFFICES ASSUME Class = "ledger" PROVE Common /\ LedgersOK /\ Entries
  BY DEF LedgerInv
<1>1. Common
  BY CommonInit
<1>2. Entries
  <2>1. \A r \in Requests : request[r] = Unsent
    BY DEF Init, StorageInit
  <2>2. Unsent.pc = "unsent" /\ given = {}
    BY DEF Unsent, Init
  <2> QED
    BY <2>1, <2>2 DEF Entries, Standing, Distinct, Adds, Responded, GivenKept, GivenOnce, AskedSoFar
<1>3. EmptyStorage \in LedgerVersion({<<>>})
  BY DEF EmptyStorage, LedgerVersion, LedgerTable, NoEntries
<1>4. LedgersOK
  <2>1. versions = <<EmptyStorage>>
    BY DEF Init, StorageInit
  <2> HIDE DEF EmptyStorage
  <2>2. versions \in Seq(LedgerVersion({<<>>})) /\ versions # <<>>
    BY <1>3, <2>1
  <2> QED
    BY <2>2, Zenon DEF LedgersOK
<1> QED
  BY <1>1, <1>2, <1>4

\* the platform adds no version
LEMMA PlatformVersions ==
  ASSUME Common, Listed, Platform
  PROVE  \A i \in 1 .. Len(versions') : \E j \in 1 .. Len(versions) : versions'[i] = versions[j]
<1>1. CASE UNCHANGED versions
  BY <1>1
<1>2. CASE Len(versions) > 1 /\ versions' = Tail(versions)
  <2>1. /\ Len(versions) \in Nat /\ Len(versions') = Len(versions) - 1
        /\ \A i \in 1 .. Len(versions') : versions'[i] = versions[i + 1]
    BY <1>2, Flushed DEF Listed
  <2>2. \A i \in 1 .. Len(versions') : i + 1 \in 1 .. Len(versions)
    BY <2>1
  <2> QED
    BY <2>1, <2>2
<1>3. CASE versions' = <<Durable>>
  <2>1. Len(versions') = 1 /\ versions'[1] = Durable
    BY <1>3
  <2>2. Durable = versions[1] /\ 1 \in 1 .. Len(versions)
    BY LastVersion DEF Listed
  <2> QED
    BY <2>1, <2>2
<1> QED
  BY <1>1, <1>2, <1>3, PlatformKeepsCommon

\* A stage ends when every call of it is answered, or has failed for good: the ids that
\* were answered are on disk by then.
LEMMA StageGives ==
  ASSUME Class = "ledger", Common, Listed, Entries, NextStage
  PROVE  GivenKept' /\ AskedSoFar'
<1> DEFINE calls == Stages[stage + 1]
           fresh(r) == IF r \in DOMAIN calls THEN Sent(calls[r]) ELSE Unsent
<1>0. Standing /\ GivenKept
  BY DEF Entries
<1>1. stage \in Nat /\ stage' = stage + 1 /\ UNCHANGED <<versions, scenario>> /\ Stages' = Stages
  BY DEF Common, NextStage, Stages
<1>2. CallsSoFar \subseteq CallsSoFar' /\ ToSet(calls) \subseteq CallsSoFar'
  <2> DEFINE T == Stages
  <2>1. CallsSoFar = UNION {ToSet(T[i]) : i \in 1 .. stage} /\ CallsSoFar' = UNION {ToSet(T[i]) : i \in 1 .. stage + 1}
    BY <1>1 DEF CallsSoFar
  <2> HIDE DEF T
  <2>2. \A i \in 1 .. stage : i \in 1 .. stage + 1
    BY <1>1
  <2>3. stage + 1 \in 1 .. stage + 1
    BY <1>1
  <2> QED
    BY <2>1, <2>2, <2>3 DEF T
<1>3. Gone \subseteq Gone'
  BY <1>2 DEF Gone
<1>4. \A id, v : Remains(id, Gone, v) => Remains(id, Gone', v)
  BY <1>3 DEF Remains
<1>5. ASSUME NEW r \in AnsweredOk("add"), NEW i \in 1 .. Len(versions)
      PROVE  Remains(request[r].result.id, Gone, versions[i])
  <2> DEFINE x == request[r]
  <2>1. r \in Requests /\ x.pc = "answered" /\ x.call.op = "add" /\ x.result.ok
    BY DEF AnsweredOk, Op, Call
  <2>2. StandsFor(Class, x, Gone, versions)
    BY <1>0, <2>1 DEF Standing, Responded
  <2> HIDE DEF x
  <2>3. Tells(Class, x.call, x.result, Gone, versions[i])
    BY <2>1, <2>2 DEF StandsFor
  <2> QED
    BY <2>1, <2>3 DEF Tells, Remains, x
<1>6. GivenKept'
  <2>1. given' = given \cup {request[r].result.id : r \in AnsweredOk("add")}
    BY DEF NextStage, IdsAnswered
  <2> SUFFICES ASSUME NEW id \in given', NEW i \in 1 .. Len(versions) PROVE Remains(id, Gone', versions[i])
    BY <1>1 DEF GivenKept
  <2>2. CASE id \in given
    BY <1>0, <1>4, <2>2 DEF GivenKept
  <2>3. CASE \E r \in AnsweredOk("add") : id = request[r].result.id
    BY <1>4, <1>5, <2>3
  <2> QED
    BY <2>1, <2>2, <2>3
<1>7. AskedSoFar'
  <2>1. \A r \in DOMAIN calls : calls[r] \in CallsSoFar'
    BY <1>2 DEF ToSet
  <2>2. Unsent.pc = "unsent" /\ \A c : Sent(c).call = c
    BY DEF Unsent, Sent
  <2>3. \A r \in Requests : request'[r] = fresh(r)
    BY DEF NextStage
  <2>4. \A r \in Requests : IF r \in DOMAIN calls THEN request'[r].call = calls[r]
                            ELSE request'[r].pc = "unsent"
    BY <2>2, <2>3
  <2> HIDE DEF calls
  <2> QED
    BY <2>1, <2>4 DEF AskedSoFar
<1> QED
  BY <1>6, <1>7

LEMMA LedgerNext ==
  ASSUME LedgerInv, [Next]_vars
  PROVE  LedgerInv'
<1>0. Class' = Class
  BY DEF Class, Next, vars, NextStage, Retry, Handler, Platform
<1> SUFFICES ASSUME Class = "ledger" PROVE Common' /\ LedgersOK' /\ Entries'
  BY <1>0 DEF LedgerInv
<1>1. /\ Common /\ LedgersOK /\ Shaped /\ Listed /\ Entries
      /\ Standing /\ Distinct /\ GivenKept /\ GivenOnce /\ AskedSoFar
  BY LedgersListed DEF LedgerInv, Common, Entries
<1>2. CASE NextStage
  <2>1. Standing' /\ Distinct' /\ GivenOnce'
    BY <1>2, SentNow DEF Standing, Responded, Distinct, Adds, GivenOnce
  <2>2. LedgersOK'
    BY <1>1, <1>2 DEF NextStage, LedgersOK
  <2>3. GivenKept' /\ AskedSoFar'
    BY <1>1, <1>2, StageGives
  <2> QED
    BY <1>1, <1>2, <2>1, <2>2, <2>3, NextStageKeepsCommon DEF Entries
<1>3. CASE \E r \in Requests : Retry(r)
  <2> PICK r \in Requests : Retry(r)
    BY <1>3
  <2>1. /\ request'[r].pc = "sent" /\ request'[r].call = request[r].call
        /\ \A q \in Requests : q # r => request'[q] = request[q]
        /\ UNCHANGED <<versions, scenario, stage>>
    BY <1>1, RetriedNow
  <2>2. SameCalls
    BY <1>0, <2>1 DEF SameCalls
  <2>3. Standing'
    BY <1>1, <2>1, <2>2, StandingKept DEF Responded
  <2>4. Distinct'
    BY <1>1, <2>1, <2>2, DistinctKept DEF Responded
  <2>5. LedgersOK'
    BY <1>1, <2>1 DEF LedgersOK
  <2>6. GivenKept' /\ GivenOnce' /\ AskedSoFar'
    <3>1. UNCHANGED given /\ request[r].pc # "unsent"
      BY DEF Retry
    <3>2. \A q \in Requests : /\ request'[q].call = request[q].call
                              /\ request'[q].pc # "unsent" => request[q].pc # "unsent"
                              /\ Adds(request'[q]) => request'[q].result.id \notin given
      BY <1>1, <2>1, <3>1 DEF Adds, Responded, GivenOnce
    <3>3. \A i \in 1 .. Len(versions') : \E j \in 1 .. Len(versions) : versions'[i] = versions[j]
      BY <2>1
    <3> QED
      BY <1>1, <2>1, <3>1, <3>2, <3>3, GivenStands
  <2> QED
    BY <1>1, <2>3, <2>4, <2>5, <2>6, RetryKeepsCommon DEF Entries
<1>4. CASE \E r \in Requests : Handler(r)
  <2> PICK r \in Requests : Handler(r)
    BY <1>4
  <2>1. LedgerDO(r) /\ UNCHANGED <<scenario, stage, given>>
    BY DEF Handler
  <2> QED
    BY <1>1, <2>1, LedgerKeeps
<1>5. CASE Platform
  <2>1. Standing' /\ Distinct'
    BY <1>1, <1>5, PlatformStands, DistinctKept
  <2>2. LedgersOK'
    <3>1. PICK F : versions \in Seq(LedgerVersion(F))
      BY <1>1 DEF LedgersOK
    <3>2. versions # <<>>
      BY <1>1 DEF LedgersOK
    <3>3. versions' \in Seq(LedgerVersion(F)) /\ versions' # <<>>
      <4>1. CASE UNCHANGED versions
        BY <3>1, <3>2, <4>1
      <4>2. CASE Len(versions) > 1 /\ versions' = Tail(versions)
        BY <3>1, <4>2, Flushed
      <4>3. CASE versions' = <<Durable>>
        BY <3>1, <3>2, <4>3, Restarted
      <4> QED
        BY <1>1, <1>5, <4>1, <4>2, <4>3, PlatformKeepsCommon
    <3> QED
      BY <3>3, Zenon DEF LedgersOK
  <2>3. GivenKept' /\ GivenOnce' /\ AskedSoFar'
    <3>1. UNCHANGED <<scenario, stage, given>>
      BY <1>5 DEF Platform
    <3>2. \A r \in Requests : /\ request'[r].call = request[r].call
                              /\ request'[r].pc # "unsent" => request[r].pc # "unsent"
      BY <1>1, <1>5, PlatformKeepsCommon
    <3>3. \A r \in Requests : Adds(request'[r]) => request'[r].result.id \notin given
      BY <1>1, <1>5, <3>2, PlatformStands DEF Adds, GivenOnce
    <3>4. \A i \in 1 .. Len(versions') : \E j \in 1 .. Len(versions) : versions'[i] = versions[j]
      BY <1>1, <1>5, PlatformVersions
    <3> QED
      BY <1>1, <3>1, <3>2, <3>3, <3>4, GivenStands
  <2> QED
    BY <1>1, <1>5, <2>1, <2>2, <2>3, PlatformKeepsCommon DEF Entries
<1>6. CASE UNCHANGED vars
  <2>1. Common' /\ LedgersOK'
    BY <1>1, <1>6 DEF vars, LedgersOK, Common, Shaped, OneInside, AskedOK
  <2>2. Entries'
    BY <1>1, <1>6 DEF vars, Entries, Standing, Distinct, Adds, Class, Gone, CallsSoFar, Stages, GivenKept, GivenOnce, AskedSoFar
  <2> QED
    BY <2>1, <2>2
<1> QED
  BY <1>2, <1>3, <1>4, <1>5, <1>6 DEF Next

LEMMA AddsStand ==
  ASSUME LedgerInv, Class = "ledger"
  PROVE  /\ \A id \in given \cup IdsAnswered : id \in DOMAIN Durable.table.rows \/ Deleted(id)
         /\ \A r \in AnsweredOk("add") :
               /\ request[r].result.id \notin given
               /\ \A q \in AnsweredOk("add") \ {r} : request[q].result.id # request[r].result.id
<1>1. /\ Standing /\ Listed /\ Distinct /\ GivenKept /\ GivenOnce
  BY LedgersListed DEF LedgerInv, Entries
<1>2. Durable = versions[1] /\ 1 \in 1 .. Len(versions)
  BY <1>1, LastVersion DEF Listed
<1>3. \A r \in AnsweredOk("add") :
        r \in Requests /\ request[r].pc = "answered" /\ request[r].call.op = "add" /\ request[r].result.ok
  BY DEF AnsweredOk, Op, Call
<1>4. \A id : id \in Gone => Deleted(id)
  BY DEF Gone, Deleted
<1>5. ASSUME NEW r \in AnsweredOk("add")
      PROVE  request[r].result.id \in DOMAIN Durable.table.rows \/ request[r].result.id \in Gone
  <2>1. StandsFor(Class, request[r], Gone, versions)
    BY <1>1, <1>3 DEF Standing, Responded
  <2>2. Tells(Class, request[r].call, request[r].result, Gone, versions[1])
    BY <1>2, <1>3, <2>1 DEF StandsFor
  <2> QED
    BY <1>2, <1>3, <2>2 DEF Tells
<1>6. \A id \in given : id \in DOMAIN Durable.table.rows \/ id \in Gone
  BY <1>1, <1>2 DEF GivenKept, Remains
<1>7. IdsAnswered = {request[r].result.id : r \in AnsweredOk("add")}
  BY DEF IdsAnswered
<1>8. \A r \in AnsweredOk("add") :
         /\ request[r].result.id \notin given
         /\ \A q \in AnsweredOk("add") \ {r} : request[q].result.id # request[r].result.id
  BY <1>1, <1>3 DEF Distinct, GivenOnce, Adds, Responded
<1> QED
  BY <1>4, <1>5, <1>6, <1>7, <1>8

\* An answer stands, whatever restarts and whatever part of the writes is on disk: a
\* capture that was answered ok is on disk as captured or refunded (worker.js:59-66), and
\* an id that was ever answered to an add is on disk, unless it was asked to be deleted, and
\* is not answered again, not even when its row was the last one and is gone
\* (sql_ledger.ex:29-43).  No capture may be called together with a new order.
THEOREM AnswersStand == OrdersApart => (Spec => []AnswerStands)
<1> SUFFICES ASSUME OrdersApart PROVE Spec => []AnswerStands
  OBVIOUS
<1>1. Init => AnswerInv /\ LedgerInv
  BY AnswerStart, LedgerStart
<1>2. AnswerInv /\ LedgerInv /\ [Next]_vars => (AnswerInv /\ LedgerInv)'
  BY AnswerNext, LedgerNext
<1>3. AnswerInv /\ LedgerInv => AnswerStands
  BY CapturesStand, AddsStand DEF AnswerStands
<1> QED
  BY <1>1, <1>2, <1>3, PTL DEF Spec

-----------------------------------------------------------------------------
(* Sums.  The sum over a finite set takes its elements out one by one      *)
(* (Summed); so where every entry is p or -p, it counts them.              *)

\* Induction over sets of numbers, from the least-number principle.
LEMMA SetInduction ==
  ASSUME NEW S, 0 \in S, \A n \in Nat : n \in S => n + 1 \in S
  PROVE  Nat \subseteq S
<1> DEFINE R == OpToRel(<, Nat)
           T == Nat \ S
<1> SUFFICES ASSUME T # {} PROVE FALSE
  OBVIOUS
<1>1. T \subseteq Nat
  OBVIOUS
<1>2. IsWellFoundedOn(R, Nat)
  BY NatLessThanWellFounded, Zenon
<1>3. \A m, n \in Nat : m < n => <<m, n>> \in R
  BY DEF OpToRel
<1> HIDE DEF R
<1>4. PICK x \in T : \A y \in T : ~(<<y, x>> \in R)
  BY <1>1, <1>2, WFMin, Zenon
<1>5. x - 1 \in Nat /\ x - 1 < x /\ (x - 1) + 1 = x
  BY <1>4
<1> QED
  BY <1>3, <1>4, <1>5

Some(s) == CHOOSE x \in s : TRUE
Adding(S, w, f) == [s \in SUBSET S |-> IF s = {} THEN 0 ELSE w[Some(s)] + f[s \ {Some(s)}]]

LEMMA SomeIn == \A s : s # {} => Some(s) \in s
BY DEF Some

\* what is right for the sets of n elements is right for those of n + 1, once added
AddsTo(n, S, w, f) == \A s \in SUBSET S : Cardinality(s) <= n => f[s] = Adding(S, w, f)[s]

LEMMA AddingExists ==
  ASSUME NEW S, IsFiniteSet(S), NEW w
  PROVE  \E f : f = Adding(S, w, f)
<1> DEFINE N == {n \in Nat : \E f : AddsTo(n, S, w, f)}
<1>0. \A s \in SUBSET S : /\ IsFiniteSet(s) /\ Cardinality(s) \in Nat /\ Cardinality(s) <= Cardinality(S)
                          /\ (Cardinality(s) = 0 <=> s = {})
                          /\ s # {} => Cardinality(s \ {Some(s)}) = Cardinality(s) - 1
  BY FS_Subset, FS_CardinalityType, FS_EmptySet, FS_RemoveElement, SomeIn
<1>1. 0 \in N
  <2> DEFINE f == [s \in SUBSET S |-> 0]
  <2>1. ASSUME NEW s \in SUBSET S, Cardinality(s) <= 0 PROVE f[s] = Adding(S, w, f)[s]
    <3>0. Cardinality(s) \in Nat /\ (Cardinality(s) = 0 <=> s = {})
      BY <1>0
    <3>1. s = {}
      BY <2>1, <3>0
    <3> QED
      BY <3>1 DEF Adding
  <2> QED
    BY <2>1 DEF AddsTo
<1>2. ASSUME NEW n \in Nat, n \in N PROVE n + 1 \in N
  <2>1. PICK f : AddsTo(n, S, w, f)
    BY <1>2
  <2> DEFINE g == Adding(S, w, f)
  <2>2. ASSUME NEW s \in SUBSET S, Cardinality(s) <= n + 1 PROVE g[s] = Adding(S, w, g)[s]
    <3>1. CASE s = {}
      BY <3>1 DEF Adding
    <3>2. CASE s # {}
      <4> DEFINE t == s \ {Some(s)}
      <4>1. t \in SUBSET S /\ Cardinality(t) <= n
        BY <1>0, <2>2, <3>2
      <4>2. f[t] = g[t]
        BY <2>1, <4>1 DEF AddsTo
      <4>3. g[s] = w[Some(s)] + f[t]
        BY <3>2 DEF Adding
      <4> HIDE DEF g
      <4>4. Adding(S, w, g)[s] = w[Some(s)] + g[t]
        BY <3>2 DEF Adding
      <4> QED
        BY <4>2, <4>3, <4>4
    <3> QED
      BY <3>1, <3>2
  <2> HIDE DEF g
  <2>3. AddsTo(n + 1, S, w, g)
    BY <2>2 DEF AddsTo
  <2> QED
    BY <2>3
<1> HIDE DEF N
<1>3. Cardinality(S) \in N
  BY <1>1, <1>2, SetInduction, FS_CardinalityType
<1>4. PICK f : AddsTo(Cardinality(S), S, w, f)
  BY <1>3 DEF N
<1> DEFINE g == Adding(S, w, f)
<1>5. \A s \in SUBSET S : f[s] = g[s]
  BY <1>0, <1>4 DEF AddsTo
<1>6. g = Adding(S, w, g)
  <2>1. ASSUME NEW s \in SUBSET S PROVE (IF s = {} THEN 0 ELSE w[Some(s)] + f[s \ {Some(s)}])
                                        = (IF s = {} THEN 0 ELSE w[Some(s)] + g[s \ {Some(s)}])
    <3>1. s \ {Some(s)} \in SUBSET S
      OBVIOUS
    <3> HIDE DEF g
    <3> QED
      BY <1>5, <3>1
  <2>2. Adding(S, w, f) = Adding(S, w, g)
    <3> HIDE DEF g
    <3> QED
      BY <2>1 DEF Adding
  <2> QED
    BY <2>2
<1> QED
  BY <1>6

LEMMA Summed ==
  ASSUME NEW w, IsFiniteSet(DOMAIN w)
  PROVE  \E f : /\ Sum(w) = f[DOMAIN w]
                /\ \A s \in SUBSET DOMAIN w :
                     f[s] = IF s = {} THEN 0 ELSE w[Some(s)] + f[s \ {Some(s)}]
<1> DEFINE S == DOMAIN w
           F == CHOOSE f : f = Adding(S, w, f)
<1>1. F = Adding(S, w, F)
  <2>1. \E f : f = Adding(S, w, f)
    BY AddingExists
  <2> QED
    BY <2>1
<1>2. Sum(w) = F[S]
  BY DEF Sum, MapThenSumSet, MapThenFoldSet, Adding, Some
<1> HIDE DEF F
<1>3. \A s \in SUBSET S : Adding(S, w, F)[s] = IF s = {} THEN 0 ELSE w[Some(s)] + F[s \ {Some(s)}]
  BY DEF Adding
<1>4. \A s \in SUBSET S : F[s] = IF s = {} THEN 0 ELSE w[Some(s)] + F[s \ {Some(s)}]
  BY <1>1, <1>3
<1> QED
  BY <1>2, <1>4

LEMMA OneMore ==
  ASSUME NEW a \in Int, NEW b \in Int, NEW p \in Int
  PROVE  p + (a - b) * p = (a + 1 - b) * p /\ -p + (a - b) * p = (a - (b + 1)) * p
OBVIOUS

\* where every entry is p or -p the sum counts them
LEMMA SumCounts ==
  ASSUME NEW w, IsFiniteSet(DOMAIN w), NEW p \in Int, NEW P, NEW N,
         DOMAIN w = P \cup N, P \cap N = {},
         \A x \in P : w[x] = p, \A x \in N : w[x] = -p
  PROVE  Sum(w) = (Cardinality(P) - Cardinality(N)) * p
<1> DEFINE S == DOMAIN w
           count(s) == (Cardinality(s \cap P) - Cardinality(s \cap N)) * p
<1>1. PICK f : /\ Sum(w) = f[S]
               /\ \A s \in SUBSET S : f[s] = IF s = {} THEN 0 ELSE w[Some(s)] + f[s \ {Some(s)}]
  BY Summed
<1> DEFINE Right == {n \in Nat : \A s \in SUBSET S : Cardinality(s) = n => f[s] = count(s)}
<1>2. \A s \in SUBSET S : /\ IsFiniteSet(s) /\ Cardinality(s) \in Nat
                          /\ (Cardinality(s) = 0 <=> s = {})
  BY FS_Subset, FS_CardinalityType, FS_EmptySet
<1>3. 0 \in Right
  <2>1. ASSUME NEW s \in SUBSET S, Cardinality(s) = 0 PROVE f[s] = count(s)
    <3>1. s = {} /\ s \cap P = {} /\ s \cap N = {}
      BY <1>2, <2>1
    <3>2. f[s] = 0
      BY <1>1, <3>1
    <3>3. count(s) = (0 - 0) * p
      BY <3>1, FS_EmptySet
    <3> QED
      BY <3>2, <3>3
  <2> QED
    BY <2>1
<1>4. ASSUME NEW n \in Nat, n \in Right PROVE n + 1 \in Right
  <2>1. ASSUME NEW s \in SUBSET S, Cardinality(s) = n + 1 PROVE f[s] = count(s)
    <3> DEFINE x == Some(s)
               t == s \ {x}
    <3>1. s # {} /\ IsFiniteSet(s)
      BY <1>2, <2>1
    <3>2. x \in s /\ x \in S /\ t \in SUBSET S
      BY <3>1, SomeIn
    <3>3. Cardinality(t) = n
      <4>1. Cardinality(t) = Cardinality(s) - 1
        BY <3>1, <3>2, FS_RemoveElement
      <4> QED
        BY <2>1, <4>1
    <3>4. f[s] = w[x] + f[t] /\ f[t] = count(t)
      BY <1>1, <1>4, <3>1, <3>2, <3>3
    <3> DEFINE a == Cardinality(t \cap P)
               b == Cardinality(t \cap N)
    <3> HIDE DEF x
    <3>5. IsFiniteSet(t \cap P) /\ IsFiniteSet(t \cap N) /\ a \in Int /\ b \in Int
      BY <1>2, <3>2, FS_Intersection, FS_CardinalityType
    <3>6. CASE x \in P
      <4>1. s \cap P = (t \cap P) \cup {x} /\ s \cap N = t \cap N /\ x \notin t \cap P
        BY <3>2, <3>6
      <4>2. Cardinality(s \cap P) = a + 1 /\ Cardinality(s \cap N) = b
        BY <3>5, <4>1, FS_AddElement
      <4>3. f[s] = p + (a - b) * p
        BY <3>4, <3>6
      <4>4. count(s) = (a + 1 - b) * p
        BY <3>5, <4>2
      <4> HIDE DEF a, b, count
      <4> QED
        BY <3>5, <4>3, <4>4, OneMore
    <3>7. CASE x \in N
      <4>1. s \cap N = (t \cap N) \cup {x} /\ s \cap P = t \cap P /\ x \notin t \cap N
        BY <3>2, <3>7
      <4>2. Cardinality(s \cap N) = b + 1 /\ Cardinality(s \cap P) = a
        BY <3>5, <4>1, FS_AddElement
      <4>3. f[s] = -p + (a - b) * p
        BY <3>4, <3>7
      <4>4. count(s) = (a - (b + 1)) * p
        BY <4>2
      <4> HIDE DEF a, b, count
      <4> QED
        BY <3>5, <4>3, <4>4, OneMore
    <3> QED
      BY <3>2, <3>6, <3>7
  <2> QED
    BY <2>1
<1> HIDE DEF Right
<1>5. Cardinality(S) \in Right
  BY <1>2, <1>3, <1>4, SetInduction
<1>6. f[S] = count(S)
  BY <1>5 DEF Right
<1>7. S \cap P = P /\ S \cap N = N
  OBVIOUS
<1> QED
  BY <1>1, <1>6, <1>7

-----------------------------------------------------------------------------
(* What a StatemOrder charges.                                             *)

\* An order has one price, and it is refunded under one key.  With a second key a
\* refund that a restart cut off is paid back again.
OneSale ==
  \A s \in Scenarios : s.class = "statem" => \A c, d \in CallsOf(s) :
    /\ c.op = "authorize" /\ d.op = "authorize" => c.amount = d.amount
    /\ c.op = "refund" /\ d.op = "refund" => c.key = d.key

\* No capture is made under the key "refund:" and a refund's key: the refund would put
\* its entry over that of the charge.
KeysApart ==
  \A s \in Scenarios : s.class = "statem" => \A c, d \in CallsOf(s) :
    c.op = "capture" /\ d.op = "refund" => CaptureId(c.key) # RefundId(d.key)
Apart(keys, refunds) == \A j \in keys, k \in refunds : CaptureId(j) # RefundId(k)

Price == CHOOSE p \in Int : \A c \in CallsOf(scenario) : c.op = "authorize" => c.amount = p
RefundKeys == {c.key : c \in {c \in CallsOf(scenario) : c.op = "refund"}}

\* the ledger has charges of the price and refunds of it, and no refund without a charge
Booked(v, p, keys, refunds) ==
  /\ \A id \in DOMAIN v.ledger :
       \/ v.ledger[id] = p /\ \E k \in keys : id = CaptureId(k)
       \/ v.ledger[id] = -p /\ \E k \in refunds : id = RefundId(k)
  /\ (\E k \in refunds : RefundId(k) \in DOMAIN v.ledger) => \E k \in keys : CaptureId(k) \in DOMAIN v.ledger
  /\ DOMAIN v.ledger # {} \/ v.state.status # "new" => v.state.amount = p
  /\ v.state.amount \in Int

LEMMA BookedTotal ==
  ASSUME NEW v, NEW p \in Int, NEW keys, IsFiniteSet(keys), NEW refunds, IsFiniteSet(refunds),
         \A j, k \in refunds : j = k, Apart(keys, refunds), Booked(v, p, keys, refunds)
  PROVE  Charges(v) \in {n * v.state.amount : n \in 0 .. Cardinality(keys)}
<1> DEFINE S == DOMAIN v.ledger
           P == {id \in S : \E k \in keys : id = CaptureId(k)}
           N == {id \in S : \E k \in refunds : id = RefundId(k)}
           f == [id \in P |-> CHOOSE k \in keys : id = CaptureId(k)]
           g == [id \in N |-> CHOOSE k \in refunds : id = RefundId(k)]
           n == Cardinality(P) - Cardinality(N)
<1>1. \A id \in P : v.ledger[id] = p /\ \E k \in keys : id = CaptureId(k)
  BY DEF Booked, Apart
<1>2. \A id \in N : v.ledger[id] = -p /\ \E k \in refunds : id = RefundId(k)
  BY DEF Booked, Apart
<1>3. f \in Injection(P, keys)
  <2>1. \A id \in P : f[id] \in keys /\ id = CaptureId(f[id])
    BY <1>1
  <2> HIDE DEF P
  <2> QED
    BY <2>1 DEF Injection, IsInjective
<1>4. g \in Injection(N, refunds)
  <2>1. \A id \in N : g[id] \in refunds /\ id = RefundId(g[id])
    BY <1>2
  <2> HIDE DEF N
  <2> QED
    BY <2>1 DEF Injection, IsInjective
<1>5. IsFiniteSet(P) /\ Cardinality(P) <= Cardinality(keys)
  <2> HIDE DEF P, f
  <2> QED
    BY <1>3, FS_Injection
<1>6. IsFiniteSet(N)
  <2> HIDE DEF N, g
  <2> QED
    BY <1>4, FS_Injection
<1>7. Cardinality(P) \in Nat /\ Cardinality(N) \in Nat /\ Cardinality(keys) \in Nat
  BY <1>5, <1>6, FS_CardinalityType
<1>8. S = P \cup N /\ P \cap N = {} /\ IsFiniteSet(S)
  <2>1. S = P \cup N /\ P \cap N = {}
    BY DEF Booked, Apart
  <2> HIDE DEF P, N, S
  <2> QED
    BY <1>5, <1>6, <2>1, FS_Union
<1>9. Charges(v) = n * p
  <2> DEFINE w == v.ledger
  <2>1. /\ IsFiniteSet(DOMAIN w) /\ DOMAIN w = P \cup N /\ P \cap N = {}
        /\ \A x \in P : w[x] = p
        /\ \A x \in N : w[x] = -p
    BY <1>1, <1>2, <1>8
  <2> HIDE DEF w, P, N
  <2>2. Sum(w) = n * p
    BY <2>1, SumCounts
  <2> QED
    BY <2>2 DEF Charges, w
<1>10. Cardinality(N) <= Cardinality(P)
  <2>1. CASE N = {}
    BY <1>7, <2>1, FS_EmptySet
  <2>2. CASE N # {}
    <3>1. PICK x : x \in N
      BY <2>2
    <3>2. \A y \in N : y = x
      <4>1. PICK k \in refunds : x = RefundId(k)
        BY <1>2, <3>1
      <4> TAKE y \in N
      <4>2. PICK j \in refunds : y = RefundId(j)
        BY <1>2
      <4> QED
        BY <4>1, <4>2
    <3>3. N = {x}
      BY <3>1, <3>2
    <3>4. Cardinality(N) = 1
      BY <3>3, FS_Singleton
    <3>5. P # {}
      BY <3>1 DEF Booked
    <3>6. Cardinality(P) # 0
      BY <1>5, <3>5, FS_EmptySet
    <3> QED
      BY <1>7, <3>4, <3>6
  <2> QED
    BY <2>1, <2>2
<1>11. n \in 0 .. Cardinality(keys)
  BY <1>5, <1>7, <1>10
<1>12. CASE S # {}
  BY <1>9, <1>11, <1>12 DEF Booked
<1>13. CASE S = {}
  <2>1. P = {} /\ N = {}
    BY <1>13
  <2>2. n = 0
    BY <2>1, FS_EmptySet
  <2>3. Charges(v) = 0 /\ 0 = 0 * v.state.amount
    BY <1>9, <2>2 DEF Booked
  <2> QED
    BY <1>7, <2>3
<1> QED
  BY <1>12, <1>13

LEMMA BookedEntry ==
  ASSUME NEW L, NEW v \in OrderVersion(L), Backed(v), NEW p \in Int, NEW keys, NEW refunds,
         Booked(v, p, keys, refunds), v.state.amount = p, NEW k, NEW id, NEW amount,
         \/ id = CaptureId(k) /\ k \in keys /\ amount = p
         \/ /\ id = RefundId(k) /\ k \in refunds /\ amount = -p
            /\ \E j \in keys : CaptureId(j) \in DOMAIN v.ledger
  PROVE  Booked(Charged(v, id, amount), p, keys, refunds)
<1> DEFINE l == [i \in {id} \cup DOMAIN v.ledger |-> IF i = id THEN amount ELSE v.ledger[i]]
           w == Charged(v, id, amount)
<1>1. w.ledger = l
  BY DEF Charged, OrderVersion
<1>2. w.state = v.state
  BY ChargeBacks
<1>3. /\ DOMAIN l = {id} \cup DOMAIN v.ledger /\ l[id] = amount
      /\ \A i \in DOMAIN v.ledger : i # id => l[i] = v.ledger[i]
  OBVIOUS
<1> HIDE DEF l, w
<1>4. \A i \in DOMAIN l :
         \/ l[i] = p /\ \E j \in keys : i = CaptureId(j)
         \/ l[i] = -p /\ \E j \in refunds : i = RefundId(j)
  BY <1>3 DEF Booked
<1>5. (\E j \in refunds : RefundId(j) \in DOMAIN l) => \E j \in keys : CaptureId(j) \in DOMAIN l
  BY <1>3 DEF Booked
<1> QED
  BY <1>1, <1>2, <1>4, <1>5 DEF Booked, w

LEMMA BookedState ==
  ASSUME NEW v, NEW w, NEW p \in Int, NEW keys, NEW refunds,
         Booked(v, p, keys, refunds), w.ledger = v.ledger, w.state.amount = p
  PROVE  Booked(w, p, keys, refunds)
BY DEF Booked

\* the amount and the ledger that the writes of a state leave
LEMMA AmountKept ==
  ASSUME NEW L, NEW v \in OrderVersion(L), NEW key, NEW status
  PROVE  /\ WithStatus(v, [v.state EXCEPT !.captureKey = key], status).state.amount = v.state.amount
         /\ WithStatus(v, [v.state EXCEPT !.captureKey = key], status).ledger = v.ledger
         /\ WithStatus(v, v.state, status).state.amount = v.state.amount
         /\ WithStatus(v, v.state, status).ledger = v.ledger
<1> DEFINE S == [status : {"new", "authorized", "captured", "refunded"},
                 amount : {0} \cup {d.amount : d \in CallsMade},
                 captureKey : {NoKey} \cup {d.key : d \in CallsMade} \cup {key}]
           s == [v.state EXCEPT !.captureKey = key]
<1>1. v.state \in S
  BY DEF OrderVersion, OrderStates
<1>2. s \in S
  BY <1>1, Zenon
<1>3. s.amount = v.state.amount
  BY <1>1
<1>4. \A u \in S : [u EXCEPT !.status = status].amount = u.amount
  OBVIOUS
<1>5. \A u : /\ WithStatus(v, u, status).state = [u EXCEPT !.status = status]
             /\ WithStatus(v, u, status).ledger = v.ledger
  BY DEF WithStatus, OrderVersion
<1> HIDE DEF S, s
<1> QED
  BY <1>1, <1>2, <1>3, <1>4, <1>5 DEF s

LEMMA AmountAsked ==
  ASSUME NEW L, NEW v \in OrderVersion(L), NEW amount
  PROVE  /\ [v EXCEPT !.state = [NewOrder EXCEPT !.status = "authorized", !.amount = amount]].state.amount = amount
         /\ [v EXCEPT !.state = [NewOrder EXCEPT !.status = "authorized", !.amount = amount]].ledger = v.ledger
<1> DEFINE a == [NewOrder EXCEPT !.status = "authorized", !.amount = amount]
<1>1. a.amount = amount
  BY DEF NewOrder
<1>2. \A u : [v EXCEPT !.state = u].state = u /\ [v EXCEPT !.state = u].ledger = v.ledger
  BY DEF OrderVersion
<1> HIDE DEF a
<1> QED
  BY <1>1, <1>2 DEF a

-----------------------------------------------------------------------------
(* The invariant.                                                          *)
Sold(v) == Booked(v, Price, KeysUsed, RefundKeys)
BooksOK == \A i \in 1 .. Len(versions) : Sold(versions[i])
AskedHere == \A r \in Requests : request[r].pc # "unsent" => request[r].call \in CallsOf(scenario)
MovesAsked == \A r \in Requests : request[r].pc \in {"capture", "refund"} => request[r].call.op = request[r].pc

Sales == BooksOK /\ AskedHere /\ MovesAsked
SaleInv == Class = "statem" => Common /\ OrdersOK /\ OrdersHandled /\ Sales

LEMMA CallsListed ==
  ASSUME Common
  PROVE  /\ scenario.stages \in Seq(Seq(CallsMade))
         /\ \A c \in CallsOf(scenario) :
               c \in CallsMade /\ c.amount \in Int /\ (c.op = "capture" => c.key \in KeysUsed)
<1>1. scenario \in Scenarios /\ scenario.stages \in Seq(Seq(CallsMade))
  BY ScenarioAssumption DEF Common
<1>2. CallsOf(scenario) \subseteq CallsMade
  BY <1>1 DEF CallsOf, CallsMade
<1>3. \A c \in CallsOf(scenario) : c.op = "capture" => c.key \in KeysUsed
  BY DEF KeysUsed
<1> QED
  BY <1>1, <1>2, <1>3, ScenarioAssumption

LEMMA PriceIs ==
  ASSUME OneSale, KeysApart, Class = "statem", Common
  PROVE  /\ Price \in Int
         /\ \A c \in CallsOf(scenario) : c.op = "authorize" => c.amount = Price
         /\ \A j, k \in RefundKeys : j = k
         /\ Apart(KeysUsed, RefundKeys)
<1>1. scenario \in Scenarios /\ scenario.class = "statem"
  BY DEF Common, Class
<1>2. \A c, d \in CallsOf(scenario) : /\ c.op = "authorize" /\ d.op = "authorize" => c.amount = d.amount
                                      /\ c.op = "refund" /\ d.op = "refund" => c.key = d.key
  BY <1>1 DEF OneSale
<1>3. \E p \in Int : \A c \in CallsOf(scenario) : c.op = "authorize" => c.amount = p
  <2>1. CASE \E c \in CallsOf(scenario) : c.op = "authorize"
    <3> PICK c \in CallsOf(scenario) : c.op = "authorize"
      BY <2>1
    <3>1. c.amount \in Int
      BY CallsListed
    <3> QED
      BY <1>2, <3>1
  <2>2. CASE ~\E c \in CallsOf(scenario) : c.op = "authorize"
    BY <2>2
  <2> QED
    BY <2>1, <2>2
<1>4. Price \in Int /\ \A c \in CallsOf(scenario) : c.op = "authorize" => c.amount = Price
  BY <1>3 DEF Price
<1>5. \A c, d \in CallsOf(scenario) : c.op = "capture" /\ d.op = "refund" => CaptureId(c.key) # RefundId(d.key)
  BY <1>1 DEF KeysApart
<1>6. Apart(KeysUsed, RefundKeys)
  BY <1>5 DEF Apart, KeysUsed, RefundKeys
<1> QED
  BY <1>2, <1>4, <1>6 DEF RefundKeys

LEMMA ToSetFinite ==
  ASSUME NEW S, NEW s \in Seq(S)
  PROVE  IsFiniteSet(ToSet(s))
<1>1. Len(s) \in Nat /\ DOMAIN s = 1 .. Len(s)
  OBVIOUS
<1> DEFINE f == [i \in 1 .. Len(s) |-> s[i]]
<1>2. f \in Surjection(1 .. Len(s), ToSet(s))
  BY <1>1 DEF Surjection, ToSet
<1>3. IsFiniteSet(1 .. Len(s))
  BY <1>1, FS_Interval
<1> HIDE DEF f
<1> QED
  BY <1>2, <1>3, FS_Surjection

LEMMA KeysFinite ==
  ASSUME Common
  PROVE  IsFiniteSet(KeysUsed) /\ IsFiniteSet(RefundKeys)
<1> DEFINE T == scenario.stages
           n == Len(T)
           upto(m) == UNION {ToSet(T[i]) : i \in 1 .. m}
           N == {m \in Nat : m <= n => IsFiniteSet(upto(m))}
<1>1. T \in Seq(Seq(CallsMade)) /\ n \in Nat /\ DOMAIN T = 1 .. n
  BY CallsListed
<1>2. \A i \in 1 .. n : IsFiniteSet(ToSet(T[i]))
  BY <1>1, ToSetFinite
<1> HIDE DEF T, n
<1>3. 0 \in N
  <2>1. upto(0) = {}
    OBVIOUS
  <2> QED
    BY <2>1, FS_EmptySet
<1>4. ASSUME NEW m \in Nat, m \in N PROVE m + 1 \in N
  <2>1. CASE m + 1 <= n
    <3>1. upto(m + 1) = upto(m) \cup ToSet(T[m + 1])
      <4>1. 1 .. m + 1 = (1 .. m) \cup {m + 1}
        OBVIOUS
      <4> QED
        BY <4>1
    <3>2. IsFiniteSet(upto(m)) /\ IsFiniteSet(ToSet(T[m + 1]))
      BY <1>1, <1>2, <1>4, <2>1
    <3>3. IsFiniteSet(upto(m + 1))
      <4> DEFINE A == upto(m)  B == ToSet(T[m + 1])
      <4>1. upto(m + 1) = A \cup B /\ IsFiniteSet(A) /\ IsFiniteSet(B)
        BY <3>1, <3>2
      <4> HIDE DEF A, B
      <4>2. IsFiniteSet(A \cup B)
        BY <4>1, FS_Union
      <4> QED
        BY <4>1, <4>2
    <3> QED
      BY <3>3
  <2>2. CASE ~(m + 1 <= n)
    BY <2>2
  <2> QED
    BY <2>1, <2>2
<1> HIDE DEF N
<1>5. n \in N
  BY <1>1, <1>3, <1>4, SetInduction
<1>6. IsFiniteSet(upto(n))
  BY <1>1, <1>5 DEF N
<1>7. ASSUME NEW op
      PROVE  IsFiniteSet({c.key : c \in {c \in CallsOf(scenario) : c.op = op}})
  <2> DEFINE C == {c \in CallsOf(scenario) : c.op = op}
             f == [c \in C |-> c.key]
  <2>1. CallsOf(scenario) = upto(n)
    BY <1>1 DEF CallsOf, T
  <2> HIDE DEF upto
  <2>2. IsFiniteSet(C)
    BY <1>6, <2>1, FS_Subset
  <2> HIDE DEF C
  <2>3. f \in Surjection(C, {c.key : c \in C})
    BY DEF Surjection
  <2> HIDE DEF f
  <2>4. IsFiniteSet({c.key : c \in C})
    BY <2>2, <2>3, FS_Surjection
  <2> QED
    BY <2>4 DEF C
<1> QED
  BY <1>7 DEF KeysUsed, RefundKeys

LEMMA SalesListed == ASSUME OrdersOK, BooksOK PROVE Listed /\ Sold(Cached)
<1>1. Listed
  BY DEF OrdersOK, Listed
<1>2. Len(versions) \in Nat \ {0} /\ Cached = versions[Len(versions)]
  BY <1>1, LastVersion DEF Listed
<1> QED
  BY <1>1, <1>2 DEF BooksOK

LEMMA SameSale ==
  ASSUME UNCHANGED scenario
  PROVE  /\ Price' = Price /\ KeysUsed' = KeysUsed /\ RefundKeys' = RefundKeys
         /\ CallsOf(scenario)' = CallsOf(scenario)
BY DEF Price, KeysUsed, RefundKeys, CallsOf, Stages

LEMMA BooksKept ==
  ASSUME Listed, BooksOK, UNCHANGED scenario,
         UNCHANGED versions \/ \E w : Write(w) /\ Sold(w)
  PROVE  BooksOK'
<1> DEFINE Good(v) == Booked(v, Price, KeysUsed, RefundKeys)
<1>0. SUFFICES \A i \in 1 .. Len(versions') : Good(versions'[i])
  BY SameSale DEF BooksOK, Sold
<1>g. \A i \in 1 .. Len(versions) : Good(versions[i])
  BY DEF BooksOK, Sold
<1>s. \A v : Sold(v) => Good(v)
  BY DEF Sold
<1> HIDE DEF Good
<1>1. CASE UNCHANGED versions
  BY <1>1, <1>g
<1>2. CASE \E w : Write(w) /\ Sold(w)
  <2>1. PICK w : Write(w) /\ Good(w)
    BY <1>2, <1>s
  <2>2. PICK V : versions \in Seq(V)
    BY DEF Listed
  <2>3. versions \in Seq(V \cup {w}) /\ versions # <<>> /\ w \in V \cup {w}
    BY <2>2 DEF Listed
  <2>4. /\ Len(versions) \in Nat /\ Len(versions') = Len(versions) + 1 /\ versions'[Len(versions) + 1] = w
        /\ \A i \in 1 .. Len(versions) : versions'[i] = versions[i]
    BY <2>1, <2>3, Appended
  <2>5. \A i \in 1 .. Len(versions) + 1 : i \in 1 .. Len(versions) \/ i = Len(versions) + 1
    BY <2>4
  <2> QED
    BY <1>g, <2>1, <2>4, <2>5
<1> QED
  BY <1>1, <1>2

\* the handler moves: what it leaves of the invariant
LEMMA SalesMove ==
  ASSUME OrdersOK, Sales, UNCHANGED <<scenario, stage>>, NEW r \in Requests, NEW pc, Moves(r, pc),
         request[r].pc # "unsent", pc \in {"capture", "refund"} => request[r].call.op = pc,
         UNCHANGED versions \/ \E w : Write(w) /\ Sold(w)
  PROVE  Sales'
<1>1. BooksOK'
  BY SalesListed, BooksKept DEF Sales
<1>2. AskedHere'
  BY SameSale DEF Moves, AskedHere, Sales
<1>3. MovesAsked'
  BY DEF Moves, MovesAsked, Sales
<1> QED
  BY <1>1, <1>2, <1>3 DEF Sales

LEMMA SaleKeeps ==
  ASSUME OneSale, KeysApart, Class = "statem", Common, OrdersOK, OrdersHandled, Sales, UNCHANGED <<scenario, stage>>,
         NEW r \in Requests, StatemOrder(r)
  PROVE  Sales'
<1> DEFINE pc == request[r].pc
           call == request[r].call
           Paid(w) == w.state.amount = Price /\ w.ledger = Cached.ledger
<1>0. Shaped /\ OrderFresh(pc, request[r].local, call.key, Cached) /\ AskedHere /\ MovesAsked
  BY DEF Common, OrdersHandled, Sales
<1>1. PICK L : Cached \in OrderVersion(L)
  BY OrderCached
<1>2. Listed /\ Sold(Cached) /\ Backed(Cached) /\ Price \in Int
  BY SalesListed, OrderCached, PriceIs DEF Sales
<1>a. Cached.state.status # "new" \/ DOMAIN Cached.ledger # {} => Cached.state.amount = Price
  BY <1>2 DEF Sold, Booked
<1>k. pc # "unsent" => /\ call \in CallsOf(scenario)
                       /\ call.op = "capture" => call.key \in KeysUsed
                       /\ call.op = "refund" => call.key \in RefundKeys
                       /\ call.op = "authorize" => call.amount = Price
  BY <1>0, CallsListed, PriceIs DEF AskedHere, RefundKeys
<1>3. ASSUME NEW at \in {"list", "capture", "refund", "threw"}, NEW local, NoWrite, Suspend(r, at, local),
             pc # "unsent", at \in {"capture", "refund"} => call.op = at
      PROVE  Sales'
  BY <1>0, <1>3, SuspendMoves, SalesMove DEF NoWrite
<1>4. ASSUME NEW result, NoWrite, Respond(r, result), pc # "unsent"
      PROVE  Sales'
  BY <1>0, <1>4, LeaveMoves, SalesMove DEF Respond, NoWrite
<1>5. ASSUME NEW w, WriteAndRespond(r, w, Ok), Paid(w), pc # "unsent"
      PROVE  Sales'
  <2>1. Sold(w)
    BY <1>2, <1>5, BookedState DEF Sold
  <2>2. Moves(r, "responding") /\ Write(w)
    BY <1>0, <1>5, LeaveMoves DEF WriteAndRespond
  <2> QED
    BY <1>5, <2>1, <2>2, SalesMove
<1>6. ASSUME NEW at \in {"commit", "commit refund"}, NEW id, NEW amount, pc # "unsent",
             Write(Charged(Cached, id, amount)), Suspend(r, at, Cached.state), Cached.state.amount = Price,
             \/ id = CaptureId(call.key) /\ call.key \in KeysUsed /\ amount = Price
             \/ /\ id = RefundId(call.key) /\ call.key \in RefundKeys /\ amount = -Price
                /\ \E j \in KeysUsed : CaptureId(j) \in DOMAIN Cached.ledger
      PROVE  Sales'
  <2> DEFINE w == Charged(Cached, id, amount)
  <2>1. Sold(w)
    BY <1>1, <1>2, <1>6, BookedEntry DEF Sold
  <2>2. Write(w)
    BY <1>6
  <2> HIDE DEF w
  <2> QED
    BY <1>0, <1>6, <2>1, <2>2, SuspendMoves, SalesMove
<1>7. CASE ReadModel(r)
  BY <1>3, <1>4, <1>7 DEF ReadModel, ReadState, Delivered, At
<1>8. CASE Authorize(r)
  <2> DEFINE w == [Cached EXCEPT !.state = [NewOrder EXCEPT !.status = "authorized", !.amount = Call(r).amount]]
  <2>1. WriteAndRespond(r, w, Ok) /\ call.op = "authorize" /\ pc # "unsent"
    BY <1>8 DEF Authorize, Op, Call, Delivered
  <2>2. Paid(w)
    BY <1>1, <1>k, <2>1, AmountAsked DEF Call
  <2> HIDE DEF w
  <2> QED
    BY <1>5, <2>1, <2>2
<1>9. CASE Delivered(r) /\ Op(r, "capture") /\ ReadState(r, "capture")
  BY <1>3, <1>9 DEF ReadState, Delivered, Op, Call
<1>10. CASE Delivered(r) /\ Op(r, "refund") /\ ReadState(r, "refund")
  BY <1>3, <1>10 DEF ReadState, Delivered, Op, Call
<1>11. CASE StatemCharge(r)
  <2>1. LocalState(r) = Cached.state /\ pc # "unsent" /\ call.op = "capture"
    BY <1>0, <1>11 DEF StatemCharge, At, AtRest, LocalState, OrderFresh, MovesAsked
  <2>2. CASE \E result : NoWrite /\ Respond(r, result)
    BY <1>4, <2>1, <2>2
  <2>3. CASE /\ Write(Charged(Cached, CaptureId(call.key), Cached.state.amount))
             /\ Suspend(r, "commit", Cached.state) /\ Cached.state.status = "authorized"
    <3>1. Cached.state.amount = Price
      BY <1>a, <2>3
    <3> QED
      BY <1>6, <1>k, <2>1, <2>3, <3>1
  <2> QED
    BY <1>11, <2>1, <2>2, <2>3 DEF StatemCharge, Call
<1>12. CASE StatemCommit(r)
  <2>1. LocalState(r) = Cached.state /\ pc = "commit" /\ CaptureId(call.key) \in DOMAIN Cached.ledger
    BY <1>0, <1>12 DEF StatemCommit, At, AtRest, LocalState, OrderFresh
  <2>2. CASE NoWrite /\ Throw(r)
    BY <1>3, <2>1, <2>2 DEF Throw
  <2>3. CASE WriteAndRespond(r, WithStatus(Cached, [Cached.state EXCEPT !.captureKey = Call(r).key], "captured"), Ok)
    <3> DEFINE w == WithStatus(Cached, [Cached.state EXCEPT !.captureKey = Call(r).key], "captured")
    <3>0. w.state.amount = Cached.state.amount /\ w.ledger = Cached.ledger
      BY <1>1, AmountKept
    <3>1. Paid(w)
      BY <1>a, <2>1, <3>0
    <3>2. WriteAndRespond(r, w, Ok)
      BY <2>3
    <3> HIDE DEF w
    <3> QED
      BY <1>5, <2>1, <3>1, <3>2
  <2> QED
    BY <1>12, <2>1, <2>2, <2>3 DEF StatemCommit
<1>13. CASE StatemRefund(r)
  <2>1. LocalState(r) = Cached.state /\ pc = "refund" /\ call.op = "refund"
    BY <1>0, <1>13 DEF StatemRefund, At, AtRest, LocalState, OrderFresh, MovesAsked
  <2>2. CASE NoWrite /\ Respond(r, InvalidTransition)
    BY <1>4, <2>1, <2>2
  <2>3. CASE /\ Write(Charged(Cached, RefundId(call.key), -Cached.state.amount))
             /\ Suspend(r, "commit refund", Cached.state) /\ Cached.state.status = "captured"
    <3>1. Cached.state.amount = Price
      BY <1>a, <2>3
    <3>2. \E j \in KeysUsed : CaptureId(j) \in DOMAIN Cached.ledger
      <4>1. CaptureId(Cached.state.captureKey) \in DOMAIN Cached.ledger
        BY <1>2, <2>3 DEF Backed
      <4> QED
        BY <1>2, <4>1 DEF Sold, Booked
    <3> QED
      BY <1>6, <1>k, <2>1, <2>3, <3>1, <3>2
  <2> QED
    BY <1>13, <2>1, <2>2, <2>3 DEF StatemRefund, Call
<1>14. CASE StatemRefundCommit(r)
  <2>1. LocalState(r) = Cached.state /\ pc = "commit refund" /\ Cached.state.status = "captured"
    BY <1>0, <1>14 DEF StatemRefundCommit, At, AtRest, LocalState, OrderFresh
  <2> DEFINE w == WithStatus(Cached, Cached.state, "refunded")
  <2>0. w.state.amount = Cached.state.amount /\ w.ledger = Cached.ledger
    BY <1>1, AmountKept
  <2>2. Paid(w)
    BY <1>a, <2>0, <2>1
  <2>3. WriteAndRespond(r, w, Ok)
    BY <1>14, <2>1 DEF StatemRefundCommit
  <2> HIDE DEF w
  <2> QED
    BY <1>5, <2>1, <2>2, <2>3
<1> QED
  BY <1>7, <1>8, <1>9, <1>10, <1>11, <1>12, <1>13, <1>14 DEF StatemOrder

\* the harness sends the calls of its scenario
LEMMA StageAsks ==
  ASSUME Common, NextStage
  PROVE  AskedHere'
<1> DEFINE calls == Stages[stage + 1]
           fresh(r) == IF r \in DOMAIN calls THEN Sent(calls[r]) ELSE Unsent
<1>1. stage + 1 \in DOMAIN scenario.stages
  <2>1. scenario.stages \in Seq(Seq(CallsMade)) /\ stage \in Nat /\ stage < Len(scenario.stages)
    BY CallsListed DEF Common, NextStage, Stages
  <2>2. \A s : s \in Seq(Seq(CallsMade)) => Len(s) \in Nat /\ DOMAIN s = 1 .. Len(s)
    OBVIOUS
  <2> QED
    BY <2>1, <2>2
<1>2. \A r \in DOMAIN calls : calls[r] \in CallsOf(scenario)
  BY <1>1 DEF CallsOf, ToSet, Stages
<1>3. Unsent.pc = "unsent" /\ \A c : Sent(c).call = c
  BY DEF Unsent, Sent
<1>4. \A r \in Requests : request'[r] = fresh(r)
  BY DEF NextStage
<1>5. \A r \in Requests : IF r \in DOMAIN calls THEN request'[r].call = calls[r]
                          ELSE request'[r].pc = "unsent"
  BY <1>3, <1>4
<1>6. CallsOf(scenario)' = CallsOf(scenario)
  BY SameSale DEF NextStage
<1> HIDE DEF calls
<1> QED
  BY <1>2, <1>5, <1>6 DEF AskedHere

LEMMA SaleStart == ASSUME Init PROVE SaleInv
<1> SUFFICES ASSUME Class = "statem" PROVE Sales
  BY OrderInit DEF SaleInv, OrderInv
<1>1. \A r \in Requests : request[r] = Unsent
  BY DEF Init, StorageInit
<1>2. Unsent.pc = "unsent"
  BY DEF Unsent
<1>3. versions = <<EmptyStorage>> /\ EmptyStorage.state = NewOrder /\ EmptyStorage.ledger = <<>>
  BY DEF Init, StorageInit, EmptyStorage
<1>4. NewOrder.status = "new" /\ NewOrder.amount = 0 /\ DOMAIN <<>> = {}
  BY DEF NewOrder
<1> HIDE DEF EmptyStorage
<1>5. Sold(EmptyStorage)
  BY <1>3, <1>4 DEF Sold, Booked
<1>6. BooksOK
  BY <1>3, <1>5 DEF BooksOK
<1> QED
  BY <1>1, <1>2, <1>6 DEF Sales, AskedHere, MovesAsked

LEMMA SaleNext ==
  ASSUME OneSale, KeysApart, SaleInv, [Next]_vars
  PROVE  SaleInv'
<1>0. Class' = Class /\ UNCHANGED scenario
  BY DEF Class, Next, vars, NextStage, Retry, Handler, Platform
<1>i. Class = "statem" => Common' /\ OrdersOK' /\ OrdersHandled'
  BY <1>0, OrderNext DEF OrderInv, SaleInv
<1> SUFFICES ASSUME Class = "statem" PROVE Sales'
  BY <1>0, <1>i DEF SaleInv
<1>1. Common /\ OrdersOK /\ OrdersHandled /\ Sales /\ BooksOK /\ AskedHere /\ MovesAsked
  BY DEF SaleInv, Sales
<1>2. Listed
  BY <1>1, SalesListed
<1>s. CallsOf(scenario)' = CallsOf(scenario)
  BY <1>0, SameSale
<1>b. UNCHANGED versions => BooksOK'
  BY <1>0, <1>1, <1>2, BooksKept
<1>3. CASE NextStage
  <2>1. AskedHere'
    BY <1>1, <1>3, StageAsks
  <2>2. MovesAsked'
    BY <1>3, SentNow DEF MovesAsked
  <2> QED
    BY <1>3, <1>b, <2>1, <2>2 DEF Sales, NextStage
<1>4. CASE \E r \in Requests : Retry(r)
  <2> PICK r \in Requests : Retry(r)
    BY <1>4
  <2>1. /\ request'[r].pc = "sent" /\ request'[r].call = request[r].call
        /\ \A q \in Requests : q # r => request'[q] = request[q]
        /\ UNCHANGED versions /\ request[r].pc # "unsent"
    BY <1>1, RetriedNow DEF Retry
  <2>2. AskedHere'
    BY <1>1, <1>s, <2>1 DEF AskedHere
  <2>3. MovesAsked'
    BY <1>1, <2>1 DEF MovesAsked
  <2> QED
    BY <1>b, <2>1, <2>2, <2>3 DEF Sales
<1>5. CASE \E r \in Requests : Handler(r)
  <2> PICK r \in Requests : Handler(r)
    BY <1>5
  <2>1. StatemOrder(r) /\ UNCHANGED <<scenario, stage>>
    BY DEF Handler
  <2> QED
    BY <1>1, <2>1, SaleKeeps
<1>6. CASE Platform
  <2>1. \A r \in Requests : /\ request'[r].call = request[r].call
                            /\ request'[r].pc # "unsent" => request[r].pc # "unsent"
    BY <1>1, <1>6, PlatformKeepsCommon
  <2>5. \A r \in Requests : request'[r].pc = request[r].pc \/ request'[r].pc \in AtRest
    BY <1>1, <1>6, PlatformKeepsCommon
  <2>2. AskedHere'
    BY <1>1, <1>s, <2>1 DEF AskedHere
  <2>3. MovesAsked'
    BY <1>1, <2>1, <2>5 DEF MovesAsked, AtRest
  <2>4. BooksOK'
    <3> DEFINE Good(v) == Booked(v, Price, KeysUsed, RefundKeys)
    <3>g. \A i \in 1 .. Len(versions) : Good(versions[i])
      BY <1>1 DEF BooksOK, Sold
    <3>0. SUFFICES \A i \in 1 .. Len(versions') : Good(versions'[i])
      BY <1>0, SameSale DEF BooksOK, Sold
    <3> HIDE DEF Good
    <3>1. CASE UNCHANGED versions
      BY <3>1, <3>g
    <3>2. CASE Len(versions) > 1 /\ versions' = Tail(versions)
      <4>1. /\ Len(versions) \in Nat /\ Len(versions') = Len(versions) - 1
            /\ \A i \in 1 .. Len(versions') : versions'[i] = versions[i + 1]
        BY <1>2, <3>2, Flushed DEF Listed
      <4>2. \A i \in 1 .. Len(versions') : i + 1 \in 1 .. Len(versions)
        BY <3>2, <4>1
      <4> QED
        BY <3>g, <4>1, <4>2
    <3>3. CASE versions' = <<Durable>>
      <4>1. Len(versions') = 1 /\ versions'[1] = Durable
        BY <3>3
      <4>2. Durable = versions[1] /\ 1 \in 1 .. Len(versions)
        BY <1>2, LastVersion DEF Listed
      <4>3. Good(versions'[1])
        BY <3>g, <4>1, <4>2
      <4> QED
        BY <4>1, <4>3
    <3> QED
      BY <1>1, <1>6, <3>1, <3>2, <3>3, PlatformKeepsCommon
  <2> QED
    BY <2>2, <2>3, <2>4 DEF Sales
<1>7. CASE UNCHANGED vars
  <2>1. AskedHere' /\ MovesAsked'
    BY <1>1, <1>7, <1>s DEF vars, AskedHere, MovesAsked
  <2> QED
    BY <1>7, <1>b, <2>1 DEF vars, Sales
<1> QED
  BY <1>3, <1>4, <1>5, <1>6, <1>7 DEF Next

\* However often its calls are repeated and wherever restarts cut them off, an order of
\* one price that is refunded under one key is charged that price once per
\* idempotency key at most, and never pays back more than it was charged
\* (worker.js:59-75), on disk or in what is yet to be written.  No capture may be made
\* under the key "refund:" and the refund's key: that charge and the refund are one entry
\* of the ledger (worker.js:63, 71), and what is left of them is the refund.
THEOREM OrderNeverOvercharged == OneSale /\ KeysApart => (Spec => []NeverOvercharged)
<1> SUFFICES ASSUME OneSale, KeysApart PROVE Spec => []NeverOvercharged
  OBVIOUS
<1>1. SaleInv => NeverOvercharged
  <2> SUFFICES ASSUME SaleInv, Class = "statem", NEW v \in Contents
               PROVE  Charges(v) \in {n * v.state.amount : n \in 0 .. Cardinality(KeysUsed)}
    BY DEF NeverOvercharged
  <2>1. Common /\ Listed /\ BooksOK
    BY SalesListed DEF SaleInv, Sales
  <2>2. PICK i \in 1 .. Len(versions) : v = versions[i]
    BY <2>1 DEF Contents, Listed
  <2>3. Sold(v)
    BY <2>1, <2>2 DEF BooksOK
  <2>4. /\ Price \in Int /\ \A j, k \in RefundKeys : j = k
        /\ Apart(KeysUsed, RefundKeys) /\ IsFiniteSet(KeysUsed) /\ IsFiniteSet(RefundKeys)
    BY <2>1, PriceIs, KeysFinite
  <2> QED
    BY <2>3, <2>4, BookedTotal DEF Sold
<1> QED
  BY <1>1, SaleStart, SaleNext, PTL DEF Spec

-----------------------------------------------------------------------------
(* The sum of one more.                                                    *)

\* f adds up w over the subsets of S, one element after the other
Totals(f, S, w) ==
  \A s \in SUBSET S : f[s] = IF s = {} THEN 0 ELSE w[Some(s)] + f[s \ {Some(s)}]

\* ... and it does not matter which element is taken out first
LEMMA AnyOrder ==
  ASSUME NEW S, IsFiniteSet(S), NEW w, \A x \in S : w[x] \in Int, NEW f, Totals(f, S, w)
  PROVE  \A s \in SUBSET S : f[s] \in Int /\ \A y \in s : f[s] = w[y] + f[s \ {y}]
<1> DEFINE Good(s) == f[s] \in Int /\ \A y \in s : f[s] = w[y] + f[s \ {y}]
           Right == {n \in Nat : \A s \in SUBSET S : Cardinality(s) <= n => Good(s)}
<1>1. \A s \in SUBSET S : /\ Cardinality(s) \in Nat /\ (Cardinality(s) = 0 <=> s = {})
                          /\ \A y \in s : Cardinality(s \ {y}) = Cardinality(s) - 1
  BY FS_Subset, FS_CardinalityType, FS_EmptySet, FS_RemoveElement
<1>2. 0 \in Right
  <2>1. \A s \in SUBSET S : Cardinality(s) <= 0 => s = {}
    BY <1>1
  <2>2. Good({})
    BY DEF Totals
  <2> QED
    BY <2>1, <2>2
<1>3. ASSUME NEW n \in Nat, n \in Right PROVE n + 1 \in Right
  <2>0. \A t \in SUBSET S : Cardinality(t) <= n => Good(t)
    BY <1>3
  <2> HIDE DEF Good
  <2>1. ASSUME NEW s \in SUBSET S, Cardinality(s) = n + 1 PROVE Good(s)
    <3> DEFINE x == Some(s)
    <3>1. s # {}
      BY <1>1, <2>1
    <3>2. x \in s /\ f[s] = w[x] + f[s \ {x}]
      BY <3>1, SomeIn DEF Totals
    <3> HIDE DEF x
    <3>3. \A y \in s : s \ {y} \in SUBSET S /\ Cardinality(s \ {y}) <= n
      BY <1>1, <2>1
    <3>4. \A y \in s : Good(s \ {y})
      BY <2>0, <3>3
    <3>5. ASSUME NEW y \in s PROVE f[s] = w[y] + f[s \ {y}]
      <4>1. CASE y = x
        BY <3>2, <4>1
      <4>2. CASE y # x
        <5> DEFINE t == (s \ {x}) \ {y}
        <5>1. y \in s \ {x} /\ x \in s \ {y} /\ t = (s \ {y}) \ {x} /\ t \in SUBSET S
          BY <3>2, <4>2
        <5>2. f[s \ {x}] = w[y] + f[t]
          BY <3>2, <3>4, <5>1 DEF Good
        <5>3. f[s \ {y}] = w[x] + f[t]
          BY <3>4, <5>1 DEF Good
        <5>4. Cardinality(s \ {x}) <= n /\ Cardinality(t) = Cardinality(s \ {x}) - 1
              /\ Cardinality(s \ {x}) \in Nat
          BY <1>1, <3>2, <3>3, <5>1
        <5>5. f[t] \in Int
          BY <2>0, <5>1, <5>4, <1>1 DEF Good
        <5>6. w[x] \in Int /\ w[y] \in Int
          BY <3>2
        <5> HIDE DEF t
        <5> QED
          BY <3>2, <5>2, <5>3, <5>5, <5>6
      <4> QED
        BY <4>1, <4>2
    <3>6. f[s] \in Int
      <4>1. w[x] \in Int
        BY <3>2
      <4>2. f[s \ {x}] \in Int
        BY <3>2, <3>4 DEF Good
      <4> QED
        BY <3>2, <4>1, <4>2
    <3> QED
      BY <3>5, <3>6 DEF Good
  <2>2. ASSUME NEW s \in SUBSET S, Cardinality(s) <= n + 1 PROVE Good(s)
    <3>1. Cardinality(s) <= n \/ Cardinality(s) = n + 1
      BY <1>1, <2>2
    <3> QED
      BY <2>0, <2>1, <3>1
  <2> QED
    BY <2>2
<1> HIDE DEF Right, Good
<1>4. \A s \in SUBSET S : Cardinality(s) \in Right
  BY <1>1, <1>2, <1>3, SetInduction
<1>5. \A s \in SUBSET S : Good(s)
  <2> TAKE s \in SUBSET S
  <2>1. Cardinality(s) \in Right /\ Cardinality(s) \in Nat
    BY <1>1, <1>4
  <2>2. \A n \in Right : \A t \in SUBSET S : Cardinality(t) <= n => Good(t)
    BY DEF Right
  <2> QED
    BY <2>1, <2>2
<1> QED
  BY <1>5 DEF Good

\* two functions that add up the same values agree
LEMMA SameTotals ==
  ASSUME NEW S, IsFiniteSet(S), NEW w, NEW f, Totals(f, S, w), NEW T, S \subseteq T, NEW u, NEW g,
         Totals(g, T, u), \A x \in S : u[x] = w[x]
  PROVE  f[S] = g[S]
<1> DEFINE Right == {n \in Nat : \A s \in SUBSET S : Cardinality(s) = n => f[s] = g[s]}
<1>1. \A s \in SUBSET S : /\ Cardinality(s) \in Nat /\ (Cardinality(s) = 0 <=> s = {})
                          /\ \A y \in s : Cardinality(s \ {y}) = Cardinality(s) - 1
  BY FS_Subset, FS_CardinalityType, FS_EmptySet, FS_RemoveElement
<1>2. 0 \in Right
  <2>1. f[{}] = 0 /\ g[{}] = 0
    BY DEF Totals
  <2> QED
    BY <1>1, <2>1
<1>3. ASSUME NEW n \in Nat, n \in Right PROVE n + 1 \in Right
  <2>1. ASSUME NEW s \in SUBSET S, Cardinality(s) = n + 1 PROVE f[s] = g[s]
    <3> DEFINE x == Some(s)
               t == s \ {x}
    <3>1. s # {} /\ s \in SUBSET T
      BY <1>1, <2>1
    <3>2. x \in s /\ f[s] = w[x] + f[t] /\ g[s] = u[x] + g[t]
      BY <3>1, SomeIn DEF Totals
    <3> HIDE DEF x
    <3>3. t \in SUBSET S /\ Cardinality(t) = n
      BY <1>1, <2>1, <3>2
    <3>4. f[t] = g[t] /\ u[x] = w[x]
      BY <1>3, <3>2, <3>3
    <3> QED
      BY <3>2, <3>4
  <2> QED
    BY <2>1
<1>4. Cardinality(S) \in Right
  <2> HIDE DEF Right
  <2> QED
    BY <1>1, <1>2, <1>3, SetInduction
<1> QED
  BY <1>4

LEMMA SumTotals ==
  ASSUME NEW w, IsFiniteSet(DOMAIN w)
  PROVE  \E f : Sum(w) = f[DOMAIN w] /\ Totals(f, DOMAIN w, w)
BY Summed DEF Totals

LEMMA SumTyped ==
  ASSUME NEW w, IsFiniteSet(DOMAIN w), \A x \in DOMAIN w : w[x] \in Int
  PROVE  Sum(w) \in Int
<1>1. PICK f : Sum(w) = f[DOMAIN w] /\ Totals(f, DOMAIN w, w)
  BY SumTotals
<1> QED
  BY <1>1, AnyOrder

LEMMA SumAdds ==
  ASSUME NEW w, IsFiniteSet(DOMAIN w), NEW u, NEW x, x \notin DOMAIN w, DOMAIN u = DOMAIN w \cup {x},
         \A y \in DOMAIN u : u[y] \in Int, \A y \in DOMAIN w : u[y] = w[y]
  PROVE  Sum(u) = Sum(w) + u[x]
<1> DEFINE S == DOMAIN w
           T == DOMAIN u
<1>1. IsFiniteSet(T)
  BY FS_AddElement
<1>2. PICK f : Sum(w) = f[S] /\ Totals(f, S, w)
  BY SumTotals
<1>3. PICK g : Sum(u) = g[T] /\ Totals(g, T, u)
  BY <1>1, SumTotals
<1>4. f[S] = g[S]
  BY <1>2, <1>3, SameTotals
<1>5. g[T] = u[x] + g[T \ {x}] /\ g[S] \in Int
  BY <1>1, <1>3, AnyOrder
<1>6. T \ {x} = S
  OBVIOUS
<1> QED
  BY <1>2, <1>3, <1>4, <1>5, <1>6

-----------------------------------------------------------------------------
(* What the history of a BankDO lacks.                                     *)

\* what n lost events of A may come to
Lags(n, A) == {Sum(m) : m \in [1 .. n -> A]}

LEMMA LagsZero == ASSUME NEW A PROVE 0 \in Lags(0, A)
<1> DEFINE m == [i \in 1 .. 0 |-> 0]
<1>1. m \in [1 .. 0 -> A] /\ DOMAIN m = {} /\ IsFiniteSet(DOMAIN m)
  BY FS_EmptySet
<1> HIDE DEF m
<1>2. PICK f : Sum(m) = f[DOMAIN m] /\ Totals(f, DOMAIN m, m)
  BY <1>1, SumTotals
<1>3. Sum(m) = 0
  BY <1>1, <1>2 DEF Totals
<1> QED
  BY <1>1, <1>3 DEF Lags

LEMMA LagsTyped == ASSUME NEW n \in Nat, NEW A, A \subseteq Int PROVE Lags(n, A) \subseteq Int
<1>1. ASSUME NEW m \in [1 .. n -> A] PROVE Sum(m) \in Int
  <2>1. DOMAIN m = 1 .. n /\ \A x \in DOMAIN m : m[x] \in Int
    OBVIOUS
  <2> QED
    BY <2>1, FS_Interval, SumTyped
<1> QED
  BY <1>1 DEF Lags

LEMMA LagsMore ==
  ASSUME NEW n \in Nat, NEW A, A \subseteq Int, NEW a \in Lags(n, A), NEW b \in A
  PROVE  a + b \in Lags(n + 1, A)
<1>1. PICK m \in [1 .. n -> A] : a = Sum(m)
  BY DEF Lags
<1> DEFINE u == [i \in 1 .. n + 1 |-> IF i = n + 1 THEN b ELSE m[i]]
<1>2. /\ IsFiniteSet(DOMAIN m) /\ n + 1 \notin DOMAIN m /\ DOMAIN u = DOMAIN m \cup {n + 1}
      /\ u \in [1 .. n + 1 -> A] /\ u[n + 1] = b /\ \A y \in DOMAIN m : u[y] = m[y]
  <2>1. \A i \in 1 .. n + 1 : i # n + 1 => i \in 1 .. n
    OBVIOUS
  <2>2. DOMAIN m = 1 .. n /\ n + 1 \notin 1 .. n /\ n + 1 \in 1 .. n + 1 /\ 1 .. n \subseteq 1 .. n + 1
    OBVIOUS
  <2>3. u \in [1 .. n + 1 -> A]
    BY <2>1
  <2> QED
    BY <2>1, <2>2, <2>3, FS_Interval
<1> HIDE DEF u
<1>3. \A y \in DOMAIN u : u[y] \in Int
  BY <1>2
<1>4. Sum(u) = Sum(m) + u[n + 1]
  BY <1>2, <1>3, SumAdds
<1> QED
  BY <1>1, <1>2, <1>4 DEF Lags

LEMMA LagsGrow ==
  ASSUME NEW n \in Nat, NEW A, A \subseteq Int, 0 \in A
  PROVE  Lags(n, A) \subseteq Lags(n + 1, A)
<1> SUFFICES ASSUME NEW a \in Lags(n, A) PROVE a \in Lags(n + 1, A)
  OBVIOUS
<1>1. a + 0 \in Lags(n + 1, A) /\ a \in Int
  BY LagsMore, LagsTyped
<1> QED
  BY <1>1

Replies == {"ok", "insufficient", "balance"}
BankEntry ==
    [op : {c.op : c \in CallsMade}, amount : {c.amount : c \in CallsMade}, reply : Replies]
BankVersion ==
    [state : {NewOrder}, ledger : {<<>>}, status : {Open}, history : Seq(BankEntry),
     table : {NoEntries}, balance : Int]
EntryOf(call, reply) == [op |-> call.op, amount |-> call.amount, reply |-> reply]

LEMMA SignedTyped == \A e \in BankEntry : Signed(e) \in Int
<1> TAKE e \in BankEntry
<1>1. e.amount \in Int
  BY ScenarioAssumption DEF BankEntry
<1> QED
  BY <1>1 DEF Signed

LEMMA SeqFinite == ASSUME NEW E, NEW h \in Seq(E) PROVE IsFiniteSet(DOMAIN h)
<1>1. Len(h) \in Nat /\ DOMAIN h = 1 .. Len(h)
  OBVIOUS
<1>2. IsFiniteSet(1 .. Len(h))
  BY <1>1, FS_Interval
<1> QED
  BY <1>1, <1>2, Zenon

LEMMA UnrecordedTyped ==
  ASSUME NEW v \in BankVersion
  PROVE  /\ v.balance \in Int /\ Replayed(v.history) \in Int
         /\ Unrecorded(v) = v.balance - Replayed(v.history)
<1> DEFINE w == [i \in DOMAIN v.history |-> Signed(v.history[i])]
<1>1. v.history \in Seq(BankEntry) /\ v.balance \in Int
  BY DEF BankVersion
<1>2. IsFiniteSet(DOMAIN v.history) /\ \A i \in DOMAIN v.history : v.history[i] \in BankEntry
  <2>1. IsFiniteSet(DOMAIN v.history)
    BY <1>1, SeqFinite
  <2> QED
    BY <1>1, <2>1
<1>3. DOMAIN w = DOMAIN v.history /\ \A i \in DOMAIN w : w[i] \in Int
  BY <1>2, SignedTyped
<1>4. Sum(w) \in Int
  <2> HIDE DEF w
  <2> QED
    BY <1>2, <1>3, SumTyped
<1> QED
  BY <1>1, <1>4 DEF Replayed, InitialBalance, Unrecorded

\* an entry counts for what the machine added to the balance
LEMMA HandledCall ==
  ASSUME Common, NEW call \in CallsOf(scenario), NEW balance \in Int, NEW done,
         done = HandleCall(balance, call.op, call.amount)
  PROVE  /\ EntryOf(call, done.reply) \in BankEntry
         /\ Signed(EntryOf(call, done.reply)) \in EventAmounts
         /\ done.balance \in Int
         /\ done.balance - Signed(EntryOf(call, done.reply)) = balance
<1> DEFINE e == EntryOf(call, done.reply)
<1>1. call \in CallsMade /\ call.amount \in Int
  BY CallsListed
<1>2. e.op = call.op /\ e.amount = call.amount /\ e.reply = done.reply
  BY DEF EntryOf
<1>3. \/ /\ call.op = "deposit" /\ done = [reply |-> "ok", balance |-> balance + call.amount]
      \/ /\ call.op = "withdraw" /\ call.amount <= balance
         /\ done = [reply |-> "ok", balance |-> balance - call.amount]
      \/ /\ call.op = "withdraw" /\ call.amount > balance
         /\ done = [reply |-> "insufficient", balance |-> balance]
      \/ /\ call.op \notin {"deposit", "withdraw"}
         /\ done = [reply |-> "balance", balance |-> balance]
  BY <1>1 DEF HandleCall
<1>4. e \in BankEntry
  <2>1. /\ call.op \in {c.op : c \in CallsMade} /\ call.amount \in {c.amount : c \in CallsMade}
        /\ done.reply \in Replies
    BY <1>1, <1>3 DEF Replies
  <2> QED
    BY <2>1 DEF BankEntry, EntryOf
<1>5. /\ 0 \in EventAmounts
      /\ call.op = "deposit" => call.amount \in EventAmounts
      /\ call.op = "withdraw" => -call.amount \in EventAmounts
  BY DEF EventAmounts
<1> HIDE DEF e
<1>6. CASE call.op = "deposit" /\ done = [reply |-> "ok", balance |-> balance + call.amount]
  <2>1. Signed(e) = call.amount
    BY <1>2, <1>6 DEF Signed
  <2> QED
    BY <1>1, <1>4, <1>5, <1>6, <2>1 DEF e
<1>7. CASE call.op = "withdraw" /\ done = [reply |-> "ok", balance |-> balance - call.amount]
  <2>1. Signed(e) = -call.amount
    BY <1>2, <1>7 DEF Signed
  <2> QED
    BY <1>1, <1>4, <1>5, <1>7, <2>1 DEF e
<1>8. CASE done.reply # "ok" /\ done.balance = balance
  <2>1. Signed(e) = 0
    BY <1>2, <1>8 DEF Signed
  <2> QED
    BY <1>4, <1>5, <1>8, <2>1 DEF e
<1> QED
  BY <1>3, <1>6, <1>7, <1>8

LEMMA AmountsTyped == ASSUME Common PROVE EventAmounts \subseteq Int /\ 0 \in EventAmounts
<1>1. \A c \in CallsOf(scenario) : c.amount \in Int /\ -c.amount \in Int
  BY CallsListed
<1> QED
  BY <1>1 DEF EventAmounts

LEMMA BalancePut ==
  ASSUME NEW v \in BankVersion, NEW b \in Int
  PROVE  LET w == [v EXCEPT !.balance = b] IN
         w \in BankVersion /\ w.history = v.history /\ w.balance = b
BY DEF BankVersion

LEMMA HistoryPut ==
  ASSUME NEW v \in BankVersion, NEW e \in BankEntry, NEW w,
         w = [v EXCEPT !.history = Append(v.history, e)]
  PROVE  w \in BankVersion /\ Unrecorded(w) = Unrecorded(v) - Signed(e)
<1> DEFINE h == v.history
           g == Append(h, e)
           W(s) == [i \in DOMAIN s |-> Signed(s[i])]
<1>1. h \in Seq(BankEntry) /\ v.balance \in Int
  BY DEF BankVersion
<1>2. /\ Len(h) \in Nat /\ DOMAIN h = 1 .. Len(h) /\ g \in Seq(BankEntry)
      /\ DOMAIN g = 1 .. Len(h) + 1
      /\ g[Len(h) + 1] = e /\ \A i \in 1 .. Len(h) : g[i] = h[i]
  BY <1>1
<1>4. DOMAIN g = DOMAIN h \cup {Len(h) + 1} /\ Len(h) + 1 \notin DOMAIN h
  BY <1>2
<1>0. IsFiniteSet(DOMAIN h)
  BY <1>1, SeqFinite
<1> HIDE DEF g, h
<1>3. w \in BankVersion /\ w.balance = v.balance /\ w.history = g
  <2>1. v \in [state : {NewOrder}, ledger : {<<>>}, status : {Open}, history : Seq(BankEntry),
                table : {NoEntries}, balance : Int]
    BY DEF BankVersion
  <2>2. w = [v EXCEPT !.history = g]
    BY DEF g, h
  <2>3. w \in BankVersion
    BY <1>2, <2>1, <2>2, Zenon DEF BankVersion
  <2> QED
    BY <2>1, <2>2, <2>3
<1>5. /\ DOMAIN W(h) = DOMAIN h /\ DOMAIN W(g) = DOMAIN g /\ W(g)[Len(h) + 1] = Signed(e)
      /\ \A i \in DOMAIN h : W(g)[i] = W(h)[i]
      /\ \A i \in DOMAIN g : W(g)[i] \in Int
  <2>1. \A i \in DOMAIN g : g[i] \in BankEntry
    BY <1>2
  <2> QED
    BY <1>2, <1>4, <2>1, SignedTyped
<1>6. IsFiniteSet(DOMAIN W(h))
  BY <1>0, <1>5, Zenon
<1>7. Sum(W(g)) = Sum(W(h)) + Signed(e)
  <2> DEFINE p == W(h)
             q == W(g)
  <2>1. /\ IsFiniteSet(DOMAIN p) /\ Len(h) + 1 \notin DOMAIN p /\ DOMAIN q = DOMAIN p \cup {Len(h) + 1}
        /\ \A y \in DOMAIN q : q[y] \in Int
        /\ \A y \in DOMAIN p : q[y] = p[y]
        /\ q[Len(h) + 1] = Signed(e)
    BY <1>4, <1>5, <1>6
  <2> HIDE DEF p, q
  <2>2. Sum(q) = Sum(p) + q[Len(h) + 1]
    BY <2>1, SumAdds
  <2> QED
    BY <2>1, <2>2 DEF p, q
<1>8. Sum(W(h)) \in Int
  <2> DEFINE p == W(h)
  <2>1. IsFiniteSet(DOMAIN p) /\ \A y \in DOMAIN p : p[y] \in Int
    <3>1. \A y \in DOMAIN h : h[y] \in BankEntry
      BY <1>1, <1>2
    <3> QED
      BY <1>6, <3>1, SignedTyped
  <2> HIDE DEF p
  <2>2. Sum(p) \in Int
    BY <2>1, SumTyped
  <2> QED
    BY <2>2 DEF p
<1>9. Unrecorded(w) = v.balance - (InitialBalance + Sum(W(g))) /\ Unrecorded(v) = v.balance - (InitialBalance + Sum(W(h)))
  <2>1. \A u : Unrecorded(u) = u.balance - (InitialBalance + Sum(W(u.history)))
    BY DEF Unrecorded, Replayed
  <2> HIDE DEF W
  <2> QED
    BY <1>3, <2>1 DEF h
<1>10. Signed(e) \in Int /\ InitialBalance \in Int
  BY SignedTyped DEF InitialBalance
<1> HIDE DEF W
<1> QED
  BY <1>1, <1>3, <1>7, <1>8, <1>9, <1>10

\* The invariant.  A version on its way to the disk lacks one event more than
\* the restarts account for at most, and what is read lacks none that they do
\* not, but for the one a handler between its puts is about to record.
LastingOK ==
    /\ versions \in Seq(BankVersion) /\ versions # <<>>
    /\ \A i \in 1 .. Len(versions) : Unrecorded(versions[i]) \in Lags(restarts + 1, EventAmounts)

ToRecord(call, reply, v, n, A) ==
    /\ EntryOf(call, reply) \in BankEntry /\ Signed(EntryOf(call, reply)) \in A
    /\ Unrecorded(v) - Signed(EntryOf(call, reply)) \in Lags(n, A)

BankReads(pc, local, call, v, n, A) ==
    /\ pc \in AtRest \cup {"balance", "stored", "history"}
    /\ pc = "balance" => local = [balance |-> v.balance]
    /\ pc = "stored" => ToRecord(call, local.reply, v, n, A)
    /\ pc = "history" => ToRecord(call, local.done.reply, v, n, A) /\ local.history = v.history

BankHandled == \A r \in Requests :
    BankReads(request[r].pc, request[r].local, request[r].call, Cached, restarts, EventAmounts)
BankSettled ==
    (\A r \in Requests : request[r].pc \notin {"stored", "history"}) =>
        Unrecorded(Cached) \in Lags(restarts, EventAmounts)

BankBooks == AskedHere /\ restarts \in Nat /\ LastingOK /\ BankHandled /\ BankSettled
BankInv == Class = "bank" => Common /\ BankBooks

LEMMA SameAmounts == ASSUME UNCHANGED scenario PROVE EventAmounts' = EventAmounts
BY DEF EventAmounts, CallsOf

LEMMA BankRest == \A pc \in AtRest : \A local, call, v, n, A : BankReads(pc, local, call, v, n, A)
BY DEF BankReads, AtRest

LEMMA BankListed ==
  ASSUME LastingOK
  PROVE  /\ Cached \in BankVersion /\ Durable \in BankVersion /\ Len(versions) \in Nat \ {0}
         /\ Unrecorded(Cached) \in Lags(restarts + 1, EventAmounts)
         /\ Unrecorded(Durable) \in Lags(restarts + 1, EventAmounts)
<1>1. versions \in Seq(BankVersion) /\ versions # <<>>
  BY DEF LastingOK
<1> QED
  BY <1>1, LastVersion DEF LastingOK

LEMMA LastingKept ==
  ASSUME LastingOK, UNCHANGED <<scenario, restarts>>, NEW w \in BankVersion, Write(w),
         Unrecorded(w) \in Lags(restarts + 1, EventAmounts)
  PROVE  LastingOK' /\ Cached' = w
<1> DEFINE Good(v) == Unrecorded(v) \in Lags(restarts + 1, EventAmounts)
<1>1. versions \in Seq(BankVersion) /\ versions # <<>> /\ \A i \in 1 .. Len(versions) : Good(versions[i])
  BY DEF LastingOK
<1>2. /\ versions' \in Seq(BankVersion) /\ versions' # <<>> /\ Cached' = w /\ Len(versions) \in Nat
      /\ Len(versions') = Len(versions) + 1 /\ versions'[Len(versions) + 1] = w
      /\ \A i \in 1 .. Len(versions) : versions'[i] = versions[i]
  BY <1>1, Appended, LastVersion
<1>3. Good(w)
  OBVIOUS
<1> HIDE DEF Good
<1>4. \A i \in 1 .. Len(versions) + 1 : i \in 1 .. Len(versions) \/ i = Len(versions) + 1
  BY <1>2
<1>5. \A i \in 1 .. Len(versions') : Good(versions'[i])
  BY <1>1, <1>2, <1>3, <1>4
<1> QED
  BY <1>2, <1>5, SameAmounts DEF LastingOK, Good

\* a step of the handler of r: what the others hold of the invariant stays
LEMMA BankMoves ==
  ASSUME Class = "bank", Common, BankBooks, UNCHANGED <<scenario, stage, restarts>>,
         NEW r \in Requests, NEW pc, pc # "unsent", Moves(r, pc),
         Delivered(r) \/ request[r].pc \notin AtRest,
         LastingOK',
         BankReads(pc, request'[r].local, request[r].call, Cached', restarts, EventAmounts),
         pc \notin {"stored", "history"} => Unrecorded(Cached') \in Lags(restarts, EventAmounts)
  PROVE  Common' /\ BankBooks'
<1>1. Common' /\ \A q \in Requests : q # r => request[q].pc \in AtRest /\ request'[q] = request[q]
  BY MovesKeepCommon
<1>2. EventAmounts' = EventAmounts /\ CallsOf(scenario)' = CallsOf(scenario) /\ restarts' = restarts
  BY SameAmounts, SameSale
<1>3. request'[r].pc = pc /\ request'[r].call = request[r].call
  BY DEF Moves
<1>4. BankHandled'
  <2>1. ASSUME NEW q \in Requests
        PROVE  BankReads(request'[q].pc, request'[q].local, request'[q].call, Cached', restarts, EventAmounts)
    BY <1>1, <1>3, BankRest
  <2> QED
    BY <1>2, <2>1 DEF BankHandled
<1>5. BankSettled'
  BY <1>2, <1>3 DEF BankSettled
<1>6. AskedHere'
  <2>1. request[r].pc # "unsent"
    BY DEF Delivered, AtRest
  <2> QED
    BY <1>1, <1>2, <1>3, <2>1 DEF AskedHere, BankBooks
<1> QED
  BY <1>1, <1>2, <1>4, <1>5, <1>6 DEF BankBooks

LEMMA BankKeeps ==
  ASSUME Class = "bank", Common, BankBooks, UNCHANGED <<restarts, scenario, stage>>, NEW r \in Requests, BankDO(r)
  PROVE  Common' /\ BankBooks'
<1> DEFINE call == request[r].call
           local == request[r].local
           n == restarts
           A == EventAmounts
<1>1. /\ Cached \in BankVersion /\ n \in Nat /\ LastingOK
      /\ Cached.balance \in Int /\ Unrecorded(Cached) = Cached.balance - Replayed(Cached.history)
      /\ Replayed(Cached.history) \in Int
      /\ Unrecorded(Cached) \in Lags(n + 1, A)
  BY BankListed, UnrecordedTyped DEF BankBooks
<1>2. A \subseteq Int /\ 0 \in A /\ Lags(n, A) \subseteq Lags(n + 1, A) /\ Lags(n, A) \subseteq Int
  BY <1>1, AmountsTyped, LagsGrow, LagsTyped
<1>3. Shaped /\ BankReads(request[r].pc, local, call, Cached, n, A)
  BY DEF Common, BankBooks, BankHandled
<1>4. NoWrite => Cached' = Cached /\ LastingOK'
  BY <1>1, SameAmounts DEF NoWrite, LastingOK, Cached
<1>5. request[r].pc # "unsent" => call \in CallsOf(scenario)
  BY DEF BankBooks, AskedHere
\* with nobody between the puts nothing more is missing
<1>6. Delivered(r) \/ At(r, "balance") => Unrecorded(Cached) \in Lags(n, A)
  <2>1. Delivered(r) => \A q \in Requests : request[q].pc \notin {"stored", "history"}
    BY DEF Delivered, InputGateOpen, AtRest
  <2>2. At(r, "balance") => \A q \in Requests : request[q].pc \notin {"stored", "history"}
    BY DEF At, AtRest, Common, OneInside
  <2> QED
    BY <2>1, <2>2 DEF BankBooks, BankSettled
<1>7. CASE BankFetch(r)
  <2> DEFINE l == [balance |-> Cached.balance]
  <2>1. Delivered(r) /\ NoWrite /\ Suspend(r, "balance", l)
    BY <1>7 DEF BankFetch
  <2>2. Moves(r, "balance") /\ request'[r].local = l
    BY <1>3, <2>1, SuspendMoves
  <2>3. BankReads("balance", request'[r].local, call, Cached', n, A)
    BY <1>4, <2>1, <2>2 DEF BankReads
  <2> QED
    BY <1>4, <1>6, <2>1, <2>2, <2>3, BankMoves
<1>8. CASE BankStep(r)
  <2> DEFINE done == HandleCall(Local(r).balance, call.op, call.amount)
             e == EntryOf(call, done.reply)
             w == [Cached EXCEPT !.balance = done.balance]
  <2>1. At(r, "balance") /\ Write(w) /\ Suspend(r, "stored", done) /\ request[r].pc \notin AtRest
    BY <1>8 DEF BankStep, Asked, At, AtRest
  <2>2. local.balance = Cached.balance /\ call \in CallsOf(scenario)
    BY <1>3, <1>5, <2>1 DEF BankReads, At, AtRest
  <2>3. /\ e \in BankEntry /\ Signed(e) \in A /\ done.balance \in Int
        /\ done.balance - Signed(e) = Cached.balance
    BY <1>1, <2>2, HandledCall DEF Local
  <2> HIDE DEF done
  <2>4. w \in BankVersion /\ w.history = Cached.history /\ w.balance = done.balance
    BY <1>1, <2>3, BalancePut
  <2> HIDE DEF w, e
  <2>5. Unrecorded(w) = done.balance - Replayed(Cached.history) /\ Signed(e) \in Int
    BY <1>2, <2>3, <2>4, UnrecordedTyped
  <2>6. Unrecorded(w) - Signed(e) = Unrecorded(Cached) /\ Unrecorded(w) = Unrecorded(Cached) + Signed(e)
    BY <1>1, <2>3, <2>5
  <2>7. Unrecorded(Cached) \in Lags(n, A)
    BY <1>6, <2>1
  <2>8. Unrecorded(w) \in Lags(n + 1, A)
    BY <1>1, <1>2, <2>3, <2>6, <2>7, LagsMore
  <2>9. LastingOK' /\ Cached' = w
    BY <1>1, <2>1, <2>4, <2>8, LastingKept
  <2>10. Moves(r, "stored") /\ request'[r].local = done
    BY <1>3, <2>1, SuspendMoves
  <2>11. BankReads("stored", request'[r].local, call, Cached', n, A)
    BY <2>3, <2>6, <2>7, <2>9, <2>10 DEF BankReads, ToRecord, e
  <2> QED
    BY <2>1, <2>9, <2>10, <2>11, BankMoves
<1>9. CASE BankReadHistory(r)
  <2> DEFINE l == [done |-> Local(r), history |-> Cached.history]
  <2>1. At(r, "stored") /\ NoWrite /\ Suspend(r, "history", l) /\ request[r].pc \notin AtRest
    BY <1>9 DEF BankReadHistory, At, AtRest
  <2>2. Moves(r, "history") /\ request'[r].local = l
    BY <1>3, <2>1, SuspendMoves
  <2>3. l.done = local /\ l.history = Cached.history
    BY DEF Local
  <2> HIDE DEF l
  <2>4. BankReads("history", request'[r].local, call, Cached', n, A)
    BY <1>3, <1>4, <2>1, <2>2, <2>3 DEF BankReads, At
  <2> QED
    BY <1>4, <2>1, <2>2, <2>4, BankMoves
<1>10. CASE BankRecord(r)
  <2> DEFINE e == EntryOf(call, local.done.reply)
             w == [Cached EXCEPT !.history = Append(Cached.history, e)]
             result == [ok |-> TRUE, balance |-> local.done.balance]
  <2>1. /\ ToRecord(call, local.done.reply, Cached, n, A) /\ local.history = Cached.history
        /\ request[r].pc \notin AtRest
    BY <1>3, <1>10 DEF BankRecord, BankReads, At, AtRest
  <2>2. WriteAndRespond(r, w, result)
    BY <1>10, <2>1 DEF BankRecord, EntryOf, Asked, Local
  <2>3. Write(w) /\ Leave(r, "responding", result, 1)
    BY <2>2 DEF WriteAndRespond
  <2>4. e \in BankEntry /\ Unrecorded(Cached) - Signed(e) \in Lags(n, A)
    BY <2>1 DEF ToRecord
  <2>5. w \in BankVersion /\ Unrecorded(w) \in Lags(n, A)
    <3> HIDE DEF e
    <3>1. w \in BankVersion /\ Unrecorded(w) = Unrecorded(Cached) - Signed(e)
      BY <1>1, <2>4, HistoryPut
    <3> QED
      BY <2>4, <3>1
  <2> HIDE DEF w, result
  <2>6. LastingOK' /\ Cached' = w
    BY <1>1, <1>2, <2>3, <2>5, LastingKept
  <2>7. Moves(r, "responding")
    BY <1>3, <2>3, LeaveMoves
  <2>8. BankReads("responding", request'[r].local, call, Cached', n, A)
    BY BankRest DEF AtRest
  <2> QED
    BY <2>1, <2>5, <2>6, <2>7, <2>8, BankMoves
<1> QED
  BY <1>7, <1>8, <1>9, <1>10 DEF BankDO

LEMMA BankStart == ASSUME Init PROVE BankInv
<1> SUFFICES ASSUME Class = "bank" PROVE Common /\ BankBooks
  BY DEF BankInv
<1>1. Common
  BY CommonInit
<1>2. /\ versions = <<EmptyStorage>> /\ restarts = 0 /\ request = [r \in Requests |-> Unsent]
      /\ Unsent.pc = "unsent"
  BY DEF Init, StorageInit, Unsent
<1>3. /\ EmptyStorage.history = <<>> /\ EmptyStorage.balance = InitialBalance
      /\ EmptyStorage \in BankVersion
  BY DEF EmptyStorage, BankVersion, InitialBalance
<1> HIDE DEF EmptyStorage
<1>4. Unrecorded(EmptyStorage) = 0
  <2> DEFINE m == [i \in DOMAIN <<>> |-> Signed(<<>>[i])]
  <2>1. DOMAIN m = {} /\ IsFiniteSet(DOMAIN m)
    BY FS_EmptySet
  <2> HIDE DEF m
  <2>2. PICK f : Sum(m) = f[DOMAIN m] /\ Totals(f, DOMAIN m, m)
    BY <2>1, SumTotals
  <2>3. Sum(m) = 0
    BY <2>1, <2>2 DEF Totals
  <2>4. Replayed(<<>>) = InitialBalance + Sum(m)
    BY DEF Replayed, m
  <2> QED
    BY <1>3, <2>3, <2>4 DEF Unrecorded, InitialBalance
<1>5. 0 \in Lags(0, EventAmounts) /\ 0 \in Lags(1, EventAmounts)
  BY <1>1, AmountsTyped, LagsZero, LagsGrow
<1>6. LastingOK
  <2>1. versions \in Seq(BankVersion) /\ versions # <<>> /\ Len(versions) = 1 /\ versions[1] = EmptyStorage
    BY <1>2, <1>3
  <2> QED
    BY <1>2, <1>4, <1>5, <2>1 DEF LastingOK
<1>7. Cached = EmptyStorage
  BY <1>2 DEF Cached, Last
<1>8. \A r \in Requests : request[r].pc = "unsent"
  BY <1>2
<1>9. BankHandled
  BY <1>8, BankRest DEF BankHandled, AtRest
<1> QED
  BY <1>1, <1>2, <1>4, <1>5, <1>6, <1>7, <1>8, <1>9 DEF BankBooks, BankSettled, AskedHere

\* nothing is written and nobody inside goes on
\* nobody inside goes on, and what is read stays
LEMMA BankQuiet ==
  ASSUME BankBooks, UNCHANGED <<scenario, restarts>>, Cached' = Cached, AskedHere', Undisturbed,
         versions' \in Seq(BankVersion), versions' # <<>>,
         \A i \in 1 .. Len(versions') : \E j \in 1 .. Len(versions) : versions'[i] = versions[j]
  PROVE  BankBooks'
<1>1. EventAmounts' = EventAmounts /\ restarts' = restarts
  BY SameAmounts
<1>2. LastingOK'
  BY <1>1 DEF BankBooks, LastingOK
<1>3. BankHandled'
  <2>1. ASSUME NEW q \in Requests
        PROVE  BankReads(request'[q].pc, request'[q].local, request'[q].call, Cached, restarts, EventAmounts)
    BY BankRest DEF BankBooks, BankHandled, Undisturbed
  <2> QED
    BY <1>1, <2>1 DEF BankHandled
<1>4. BankSettled'
  BY <1>1 DEF BankBooks, BankSettled, AtRest, Undisturbed
<1> QED
  BY <1>1, <1>2, <1>3, <1>4 DEF BankBooks

LEMMA BankPlatform ==
  ASSUME Common, BankBooks, Platform
  PROVE  BankBooks'
<1>1. UNCHANGED scenario /\ restarts \in Nat /\ LastingOK /\ EventAmounts \subseteq Int /\ 0 \in EventAmounts
  BY AmountsTyped DEF Platform, BankBooks
<1>2. versions \in Seq(BankVersion) /\ versions # <<>>
  BY <1>1 DEF LastingOK
<1>3. AskedHere'
  <2>1. \A r \in Requests : /\ request'[r].call = request[r].call
                            /\ request'[r].pc # "unsent" => request[r].pc # "unsent"
    BY PlatformKeepsCommon
  <2>2. CallsOf(scenario)' = CallsOf(scenario)
    BY <1>1, SameSale
  <2> QED
    BY <2>1, <2>2 DEF AskedHere, BankBooks
<1>4. CASE UNCHANGED versions /\ UNCHANGED restarts /\ Undisturbed
  <2>1. Cached' = Cached /\ \A i \in 1 .. Len(versions') : \E j \in 1 .. Len(versions) : versions'[i] = versions[j]
    BY <1>4 DEF Cached
  <2> QED
    BY <1>1, <1>2, <1>3, <1>4, <2>1, BankQuiet
<1>5. CASE Len(versions) > 1 /\ versions' = Tail(versions) /\ UNCHANGED restarts /\ Undisturbed
  <2>1. /\ versions' \in Seq(BankVersion) /\ versions' # <<>> /\ Cached' = Cached /\ Len(versions) \in Nat
        /\ Len(versions') = Len(versions) - 1
        /\ \A i \in 1 .. Len(versions') : versions'[i] = versions[i + 1]
    BY <1>2, <1>5, Flushed, LastVersion
  <2>2. \A i \in 1 .. Len(versions') : \E j \in 1 .. Len(versions) : versions'[i] = versions[j]
    <3>1. \A i \in 1 .. Len(versions') : i + 1 \in 1 .. Len(versions)
      BY <1>5, <2>1
    <3> QED
      BY <2>1, <3>1
  <2> QED
    BY <1>1, <1>3, <1>5, <2>1, <2>2, BankQuiet
<1>6. CASE versions' = <<Durable>> /\ restarts' = restarts + 1 /\ \A r \in Requests : request'[r].pc \in AtRest
  <2>1. EventAmounts' = EventAmounts
    BY <1>1, SameAmounts
  <2>2. Unrecorded(Durable) \in Lags(restarts + 1, EventAmounts) /\ Durable \in BankVersion
    BY <1>1, BankListed
  <2>3. Unrecorded(Durable) \in Lags(restarts + 1 + 1, EventAmounts)
    <3>1. restarts + 1 \in Nat
      BY <1>1
    <3>2. Lags(restarts + 1, EventAmounts) \subseteq Lags(restarts + 1 + 1, EventAmounts)
      BY <1>1, <3>1, LagsGrow
    <3> QED
      BY <2>2, <3>2
  <2>4. /\ versions' \in Seq(BankVersion) /\ versions' # <<>> /\ Len(versions') = 1 /\ Cached' = Durable
        /\ versions'[1] = Durable
    BY <1>2, <1>6, Restarted, LastVersion
  <2>5. LastingOK'
    BY <1>6, <2>1, <2>3, <2>4 DEF LastingOK
  <2>6. BankHandled'
    BY <1>6, BankRest DEF BankHandled
  <2>7. BankSettled'
    BY <1>6, <2>1, <2>2, <2>4 DEF BankSettled
  <2> QED
    BY <1>1, <1>3, <1>6, <2>5, <2>6, <2>7 DEF BankBooks
<1> QED
  BY <1>4, <1>5, <1>6, PlatformKeepsCommon

LEMMA BankNext ==
  ASSUME BankInv, [Next]_vars
  PROVE  BankInv'
<1>0. Class' = Class /\ UNCHANGED scenario
  BY DEF Class, Next, vars, NextStage, Retry, Handler, Platform
<1> SUFFICES ASSUME Class = "bank" PROVE Common' /\ BankBooks'
  BY <1>0 DEF BankInv
<1>1. Common /\ BankBooks /\ AskedHere /\ versions \in Seq(BankVersion) /\ versions # <<>>
  BY DEF BankInv, BankBooks, LastingOK
<1>s. CallsOf(scenario)' = CallsOf(scenario)
  BY <1>0, SameSale
<1>q. ASSUME UNCHANGED <<versions, restarts>>, AskedHere', Undisturbed PROVE BankBooks'
  <2>1. Cached' = Cached /\ \A i \in 1 .. Len(versions') : \E j \in 1 .. Len(versions) : versions'[i] = versions[j]
    BY <1>q DEF Cached
  <2> QED
    BY <1>0, <1>1, <1>q, <2>1, BankQuiet
<1>2. CASE NextStage
  <2>1. Common' /\ \A r \in Requests : request'[r].pc \in AtRest
    BY <1>1, <1>2, NextStageKeepsCommon
  <2>2. \A r \in Requests : request[r].pc \in AtRest
    BY <1>2 DEF NextStage, AllSettled, Settled, AtRest
  <2>3. AskedHere'
    BY <1>1, <1>2, StageAsks
  <2> QED
    BY <1>2, <1>q, <2>1, <2>2, <2>3 DEF NextStage, Undisturbed
<1>3. CASE \E r \in Requests : Retry(r)
  <2> PICK r \in Requests : Retry(r)
    BY <1>3
  <2>1. /\ request'[r].pc = "sent" /\ request'[r].call = request[r].call
        /\ \A q \in Requests : q # r => request'[q] = request[q]
        /\ UNCHANGED <<versions, restarts>> /\ request[r].pc = "threw"
    BY <1>1, RetriedNow DEF Retry
  <2>2. AskedHere'
    BY <1>1, <1>s, <2>1 DEF AskedHere
  <2>3. Undisturbed
    BY <2>1 DEF Undisturbed, AtRest
  <2> QED
    BY <1>1, <1>q, <2>1, <2>2, <2>3, RetryKeepsCommon
<1>4. CASE \E r \in Requests : Handler(r)
  <2> PICK r \in Requests : Handler(r)
    BY <1>4
  <2>1. BankDO(r) /\ UNCHANGED <<restarts, scenario, stage>>
    BY DEF Handler
  <2> QED
    BY <1>1, <2>1, BankKeeps
<1>5. CASE Platform
  BY <1>1, <1>5, PlatformKeepsCommon, BankPlatform
<1>6. CASE UNCHANGED vars
  <2>1. Common' /\ AskedHere' /\ Undisturbed
    BY <1>1, <1>6, <1>s DEF vars, Common, Shaped, OneInside, AskedOK, AskedHere, Undisturbed
  <2> QED
    BY <1>6, <1>q, <2>1 DEF vars
<1> QED
  BY <1>2, <1>3, <1>4, <1>5, <1>6 DEF Next

\* Whatever restarts a BankDO goes through and wherever they cut its calls off, what
\* its balance has and its history has not is at most one deposit or withdrawal
\* for each of them and for the call between its two puts (worker.js:24-36).
THEOREM BankLagsByRestarts == Spec => []BankHistoryLags
<1>1. BankInv => BankHistoryLags
  <2> SUFFICES ASSUME Common, BankBooks
               PROVE  \E lost \in [1 .. restarts + Cardinality(BetweenPuts) -> EventAmounts] :
                          Unrecorded(Cached) = Sum(lost)
    BY DEF BankInv, BankHistoryLags
  <2>1. Unrecorded(Cached) \in Lags(restarts + Cardinality(BetweenPuts), EventAmounts)
    <3>0. restarts \in Nat /\ LastingOK
      BY DEF BankBooks
    <3>1. CASE BetweenPuts = {}
      <4>1. Cardinality(BetweenPuts) = 0
        BY <3>1, FS_EmptySet
      <4>2. Unrecorded(Cached) \in Lags(restarts, EventAmounts)
        BY <3>1 DEF BankBooks, BankSettled, BetweenPuts
      <4> QED
        BY <3>0, <4>1, <4>2
    <3>2. CASE BetweenPuts # {}
      <4>1. PICK r : r \in BetweenPuts
        BY <3>2
      <4>2. BetweenPuts = {r}
        BY <4>1 DEF BetweenPuts, Common, OneInside, AtRest
      <4>3. Cardinality(BetweenPuts) = 1
        BY <4>2, FS_Singleton
      <4> QED
        BY <3>0, <4>3, BankListed
    <3> QED
      BY <3>1, <3>2
  <2> QED
    BY <2>1 DEF Lags
<1> QED
  BY <1>1, BankStart, BankNext, PTL DEF Spec
-----------------------------------------------------------------------------
(* The scenarios of the harness: what is asked at which stage.             *)
Names == {"happy", "retry", "concurrent", "crash", "invalid"}
InHarness == scenario \in Harness
Invalid == scenario.name = "invalid"

\* a call of the trial s, made at its stage i
Places(s, i, c) ==
  /\ c.op \in {"authorize", "capture", "refund", "read"} /\ c.key = Key1 /\ c.amount = AMT
  /\ c.op = "authorize" <=> i = 1
  /\ c.op = "read" <=> i = Len(s.stages)
  /\ c.op = "refund" => s.name = "invalid"
  /\ c.op = "capture" => s.name # "invalid"
  /\ c.crash => c.op = "capture" /\ i < Len(s.stages) - 1 /\ s.name = "crash"

LEMMA Joined ==
  ASSUME NEW a, NEW x, NEW y, NEW z
  PROVE  /\ LET s == <<a>> \o <<x>> \o <<z>> IN
            Len(s) = 3 /\ DOMAIN s = 1 .. 3 /\ s[1] = a /\ s[2] = x /\ s[3] = z
         /\ LET s == <<a>> \o <<x, y>> \o <<z>> IN
            Len(s) = 4 /\ DOMAIN s = 1 .. 4 /\ s[1] = a /\ s[2] = x /\ s[3] = y /\ s[4] = z
<1> DEFINE V == {a, x, y, z}
           A == <<a>>  X == <<x>>  Y == <<x, y>>  Z == <<z>>
           p == A \o X  q == A \o Y  P == p \o Z  Q == q \o Z
<1>1. /\ A \in Seq(V) /\ X \in Seq(V) /\ Y \in Seq(V) /\ Z \in Seq(V)
      /\ Len(A) = 1 /\ A[1] = a /\ Len(X) = 1 /\ X[1] = x /\ Len(Z) = 1 /\ Z[1] = z
      /\ Len(Y) = 2 /\ Y[1] = x /\ Y[2] = y
  OBVIOUS
<1> HIDE DEF V, A, X, Y, Z
<1>2. p \in Seq(V) /\ Len(p) = 2 /\ p[1] = a /\ p[2] = x
  <2>1. A \in Seq(V) /\ X \in Seq(V)
    BY <1>1
  <2>2. /\ p \in Seq(V)
        /\ Len(p) = Len(A) + Len(X)
        /\ \A i \in 1 .. Len(A) + Len(X) : p[i] = IF i <= Len(A) THEN A[i] ELSE X[i - Len(A)]
    BY <2>1, ConcatProperties, Zenon
  <2> HIDE DEF p
  <2> QED
    BY <1>1, <2>2
<1>3. q \in Seq(V) /\ Len(q) = 3 /\ q[1] = a /\ q[2] = x /\ q[3] = y
  <2>1. A \in Seq(V) /\ Y \in Seq(V)
    BY <1>1
  <2>2. /\ q \in Seq(V)
        /\ Len(q) = Len(A) + Len(Y)
        /\ \A i \in 1 .. Len(A) + Len(Y) : q[i] = IF i <= Len(A) THEN A[i] ELSE Y[i - Len(A)]
    BY <2>1, ConcatProperties, Zenon
  <2> HIDE DEF q
  <2> QED
    BY <1>1, <2>2
<1> HIDE DEF p, q
<1>4. P \in Seq(V) /\ Len(P) = 3 /\ P[1] = a /\ P[2] = x /\ P[3] = z
  <2>1. p \in Seq(V) /\ Z \in Seq(V)
    BY <1>1, <1>2
  <2>2. /\ P \in Seq(V)
        /\ Len(P) = Len(p) + Len(Z)
        /\ \A i \in 1 .. Len(p) + Len(Z) : P[i] = IF i <= Len(p) THEN p[i] ELSE Z[i - Len(p)]
    BY <2>1, ConcatProperties, Zenon
  <2> HIDE DEF P
  <2> QED
    BY <1>1, <1>2, <2>2
<1>5. Q \in Seq(V) /\ Len(Q) = 4 /\ Q[1] = a /\ Q[2] = x /\ Q[3] = y /\ Q[4] = z
  <2>1. q \in Seq(V) /\ Z \in Seq(V)
    BY <1>1, <1>3
  <2>2. /\ Q \in Seq(V)
        /\ Len(Q) = Len(q) + Len(Z)
        /\ \A i \in 1 .. Len(q) + Len(Z) : Q[i] = IF i <= Len(q) THEN q[i] ELSE Z[i - Len(q)]
    BY <2>1, ConcatProperties, Zenon
  <2> HIDE DEF Q
  <2> QED
    BY <1>1, <1>3, <2>2
<1> HIDE DEF P, Q
<1>6. DOMAIN P = 1 .. 3 /\ DOMAIN Q = 1 .. 4
  BY <1>4, <1>5
<1> QED
  BY <1>4, <1>5, <1>6, Zenon DEF P, Q, p, q, A, X, Y, Z

LEMMA CallIs ==
  /\ \A op : LET c == Calling(op, FALSE) IN c.op = op /\ c.key = Key1 /\ c.amount = AMT /\ ~c.crash
  /\ \A op : LET c == Calling(op, TRUE) IN c.op = op /\ c.key = Key1 /\ c.amount = AMT
BY DEF Calling

LEMMA TrialAsks ==
  ASSUME NEW class, NEW name \in Names, 1 \in Requests
  PROVE  LET s == Trial(class, name) IN
         /\ s.class = class /\ s.name = name
         /\ s.expected = IF name = "invalid" THEN 0 ELSE AMT
         /\ Len(s.stages) \in {3, 4} /\ DOMAIN s.stages = 1 .. Len(s.stages)
         /\ \A i \in 1 .. Len(s.stages) :
              1 \in DOMAIN s.stages[i] /\ \A j \in DOMAIN s.stages[i] : Places(s, i, s.stages[i][j])
<1> DEFINE s == Trial(class, name)
           A == <<Calling("authorize", FALSE)>>
<1>1. /\ s.class = class /\ s.name = name
      /\ s.expected = IF name = "invalid" THEN 0 ELSE AMT
      /\ s.stages = <<A>> \o Trials(name) \o <<Reading>>
  BY DEF Trial
<1> HIDE DEF s
<1>2. DOMAIN A = {1} /\ A[1] = Calling("authorize", FALSE)
  OBVIOUS
<1>3. DOMAIN Reading = {1} /\ Reading[1] = Calling("read", FALSE)
  BY DEF Reading
<1> HIDE DEF A
<1> DEFINE Asks(X, i) == 1 \in DOMAIN X /\ \A j \in DOMAIN X : Places(s, i, X[j])
           T == s.stages
           Right == /\ Len(T) \in {3, 4} /\ DOMAIN T = 1 .. Len(T)
                    /\ \A i \in 1 .. Len(T) : Asks(T[i], i)
           Mid(X, i) == /\ 1 \in DOMAIN X
                        /\ \A j \in DOMAIN X :
                             /\ X[j].op \in {"capture", "refund"} /\ X[j].key = Key1 /\ X[j].amount = AMT
                             /\ X[j].op = "refund" <=> name = "invalid"
                             /\ X[j].crash => X[j].op = "capture" /\ i < Len(T) - 1 /\ name = "crash"
<1>4. Len(T) \in {3, 4} => Asks(A, 1) /\ Asks(Reading, Len(T))
  <2>1. LET c == A[1] IN c.op = "authorize" /\ c.key = Key1 /\ c.amount = AMT /\ ~c.crash
    BY <1>2, CallIs
  <2>2. LET c == Reading[1] IN c.op = "read" /\ c.key = Key1 /\ c.amount = AMT /\ ~c.crash
    BY <1>3, CallIs
  <2>3. \A j \in {1} : j = 1
    OBVIOUS
  <2> HIDE DEF T
  <2>4. Len(T) \in {3, 4} => Places(s, 1, A[1])
    BY <2>1 DEF Places, T
  <2>5. Len(T) \in {3, 4} => Places(s, Len(T), Reading[1])
    BY <2>2 DEF Places, T
  <2> QED
    BY <1>2, <1>3, <2>4, <2>5
<1>5. ASSUME NEW X, NEW i \in Nat, i # 1, i # Len(T), Mid(X, i) PROVE Asks(X, i)
  BY <1>1, <1>5 DEF Places
<1>6. ASSUME NEW X, T = <<A>> \o <<X>> \o <<Reading>>, Mid(X, 2)
      PROVE  Right
  <2>1. /\ Len(T) = 3 /\ DOMAIN T = 1 .. 3
        /\ T[1] = A /\ T[2] = X /\ T[3] = Reading
    BY <1>6, Joined
  <2>2. \A i \in 1 .. 3 : i = 1 \/ i = 2 \/ i = 3
    OBVIOUS
  <2> HIDE DEF T, Asks, Mid
  <2>3. Asks(T[1], 1) /\ Asks(T[2], 2) /\ Asks(T[3], 3)
    BY <1>4, <1>5, <1>6, <2>1
  <2> QED
    BY <2>1, <2>2, <2>3
<1>7. ASSUME NEW X, NEW Y, T = <<A>> \o <<X, Y>> \o <<Reading>>, Len(T) = 4 => Mid(X, 2) /\ Mid(Y, 3)
      PROVE  Right
  <2>1. /\ Len(T) = 4 /\ DOMAIN T = 1 .. 4
        /\ T[1] = A /\ T[2] = X /\ T[3] = Y /\ T[4] = Reading
    BY <1>7, Joined
  <2>2. \A i \in 1 .. 4 : i = 1 \/ i = 2 \/ i = 3 \/ i = 4
    OBVIOUS
  <2> HIDE DEF T, Asks, Mid
  <2>3. Asks(T[1], 1) /\ Asks(T[2], 2) /\ Asks(T[3], 3) /\ Asks(T[4], 4)
    BY <1>4, <1>5, <1>7, <2>1
  <2> QED
    BY <2>1, <2>2, <2>3
<1>8. Right
  <2> DEFINE C(crash) == Calling("capture", crash)
             One(c) == <<c>>
  <2>0. \A c : DOMAIN One(c) = {1} /\ One(c)[1] = c
    OBVIOUS
  <2>1. \A X, i : 1 \in DOMAIN X /\ (\A j \in DOMAIN X : X[j] = Capture) /\ name # "invalid" => Mid(X, i)
    BY CallIs DEF Capture
  <2>2. CASE name = "happy"
    <3>1. T = <<A>> \o <<One(Capture)>> \o <<Reading>>
      BY <1>1, <2>2 DEF Trials
    <3> HIDE DEF One, Right, Mid, T
    <3>2. Mid(One(Capture), 2)
      BY <2>0, <2>1, <2>2
    <3> QED
      BY <1>6, <3>1, <3>2
  <2>3. CASE name = "retry"
    <3>1. T = <<A>> \o <<One(Capture), One(Capture)>> \o <<Reading>>
      BY <1>1, <2>3 DEF Trials
    <3> HIDE DEF One, Right, Mid, T
    <3>2. Mid(One(Capture), 2) /\ Mid(One(Capture), 3)
      BY <2>0, <2>1, <2>3
    <3> QED
      BY <1>7, <3>1, <3>2
  <2>4. CASE name = "concurrent"
    <3> DEFINE X == [r \in Requests |-> Capture]
    <3>1. T = <<A>> \o <<X>> \o <<Reading>>
      BY <1>1, <2>4 DEF Trials
    <3>2. 1 \in DOMAIN X /\ \A j \in DOMAIN X : X[j] = Capture
      OBVIOUS
    <3> HIDE DEF X, Right, Mid, T
    <3>3. Mid(X, 2)
      BY <2>1, <2>4, <3>2
    <3> QED
      BY <1>6, <3>1, <3>3
  <2>5. CASE name = "crash"
    <3>1. T = <<A>> \o <<One(C(TRUE)), One(Capture)>> \o <<Reading>>
      BY <1>1, <2>5 DEF Trials
    <3>2. Len(T) = 4 => Mid(One(C(TRUE)), 2)
      <4> DEFINE X == One(C(TRUE))
      <4>1. LET c == X[1] IN c.op = "capture" /\ c.key = Key1 /\ c.amount = AMT
        BY <2>0, CallIs
      <4>2. DOMAIN X = {1}
        BY <2>0
      <4> HIDE DEF X, T
      <4>3. Len(T) = 4 => Mid(X, 2)
        BY <2>5, <4>1, <4>2
      <4> QED
        BY <4>3 DEF X
    <3> HIDE DEF One, Right, Mid, T, C
    <3>3. Mid(One(Capture), 3)
      BY <2>0, <2>1, <2>5
    <3> QED
      BY <1>7, <3>1, <3>2, <3>3
  <2>6. CASE name = "invalid"
    <3> DEFINE X == One(Calling("refund", FALSE))
    <3>1. T = <<A>> \o <<X>> \o <<Reading>>
      BY <1>1, <2>6 DEF Trials
    <3>2. Mid(X, 2)
      <4>1. LET c == X[1] IN c.op = "refund" /\ c.key = Key1 /\ c.amount = AMT /\ ~c.crash
        BY <2>0, CallIs
      <4>2. DOMAIN X = {1}
        BY <2>0
      <4> HIDE DEF X, T
      <4> QED
        BY <2>6, <4>1, <4>2
    <3> HIDE DEF X, Right, Mid, T
    <3> QED
      BY <1>6, <3>1, <3>2
  <2> HIDE DEF Right
  <2> QED
    BY <2>2, <2>3, <2>4, <2>5, <2>6 DEF Names
<1> QED
  BY <1>1, <1>8 DEF s

LEMMA HarnessAsks ==
  ASSUME InHarness, 1 \in Requests
  PROVE  /\ Class \in {"naive", "statem"} /\ scenario.name \in Names
         /\ scenario.expected = IF Invalid THEN 0 ELSE AMT
         /\ Len(Stages) \in {3, 4} /\ DOMAIN Stages = 1 .. Len(Stages)
         /\ \A i \in 1 .. Len(Stages) :
              1 \in DOMAIN Stages[i] /\ \A j \in DOMAIN Stages[i] : Places(scenario, i, Stages[i][j])
<1>1. PICK class \in {"naive", "statem"}, name \in Names : scenario = Trial(class, name)
  BY DEF InHarness, Harness, Names
<1> QED
  BY <1>1, TrialAsks DEF Class, Stages, Invalid

-----------------------------------------------------------------------------
(* What both orders have in common in a scenario of the harness: everyone  *)
(* asks what the stage says, and a handler is where its call takes it.     *)
Stated ==
  /\ restarts \in Nat /\ stage <= Len(Stages)
  /\ \A r \in Requests : request[r].pc # "unsent" <=> stage # 0 /\ r \in DOMAIN Stages[stage]
  /\ \A r \in Requests : request[r].pc # "unsent" => request[r].call = Stages[stage][r]

HarnessInv == InHarness => Common /\ Labelled /\ Stated

\* where a step of a handler ends
LEMMA OrderSteps ==
  ASSUME Shaped, NEW r \in Requests, Labels(request[r].pc, request[r].call.op),
         NaiveOrder(r) \/ StatemOrder(r)
  PROVE  /\ Delivered(r) \/ request[r].pc \notin AtRest
         /\ request[r].pc # "unsent"
         /\ \E pc : Moves(r, pc) /\ Labels(pc, request[r].call.op) /\ pc # "unsent"
<1> DEFINE op == request[r].call.op
           Inside == Delivered(r) \/ (request[r].pc \notin AtRest /\ request[r].pc # "unsent")
           Goes == \E pc : Moves(r, pc) /\ Labels(pc, op) /\ pc # "unsent"
<1>1. ASSUME NEW pc, NEW local, Suspend(r, pc, local), Labels(pc, op), pc # "unsent"
      PROVE  Goes
  BY <1>1, SuspendMoves
<1>2. ASSUME NEW result, NEW written, Leave(r, "responding", result, written)
      PROVE  Goes
  <2>1. Moves(r, "responding")
    BY <1>2, LeaveMoves
  <2> QED
    BY <2>1 DEF Labels
<1>3. ASSUME NEW local, Throw(r)
      PROVE  Goes
  BY <1>1, <1>3 DEF Throw, Labels
<1>4. ASSUME NEW result, Respond(r, result) \/ \E v : WriteAndRespond(r, v, result)
      PROVE  Goes
  BY <1>2, <1>4 DEF Respond, WriteAndRespond
<1>5. Delivered(r) => request[r].pc # "unsent"
  BY DEF Delivered
<1>6. CASE ReadModel(r) \/ Authorize(r)
  BY <1>1, <1>4, <1>5, <1>6 DEF ReadModel, ReadState, Authorize, At, AtRest, Op, Call, Labels
<1>7. CASE Delivered(r) /\ Op(r, "capture") /\ ReadState(r, "capture")
  BY <1>1, <1>5, <1>7 DEF ReadState, Op, Call, Labels
<1>8. CASE Delivered(r) /\ Op(r, "refund") /\ ReadState(r, "refund")
  BY <1>1, <1>5, <1>8 DEF ReadState, Op, Call, Labels
<1>9. CASE NaiveCharge(r) \/ NaiveCommit(r)
  BY <1>1, <1>3, <1>4, <1>9 DEF NaiveCharge, NaiveCommit, At, AtRest, Labels
<1>10. CASE NaiveRefund(r)
  BY <1>1, <1>4, <1>5, <1>10 DEF NaiveRefund, At, AtRest, Op, Call, Labels
<1>11. CASE StatemCharge(r) \/ StatemCommit(r)
  BY <1>1, <1>3, <1>4, <1>11 DEF StatemCharge, StatemCommit, At, AtRest, Labels
<1>12. CASE StatemRefund(r) \/ StatemRefundCommit(r)
  BY <1>1, <1>4, <1>12 DEF StatemRefund, StatemRefundCommit, At, AtRest, Labels
<1> QED
  BY <1>6, <1>7, <1>8, <1>9, <1>10, <1>11, <1>12 DEF NaiveOrder, StatemOrder

\* A step that lets the calls be.
LEMMA StatedKept ==
  ASSUME Stated, UNCHANGED <<scenario, stage>>, restarts' \in Nat,
         \A r \in Requests : /\ request'[r].call = request[r].call
                             /\ request'[r].pc = "unsent" <=> request[r].pc = "unsent"
  PROVE  Stated'
BY DEF Stated, Stages

LEMMA HarnessStart == ASSUME Init, 1 \in Requests PROVE HarnessInv
<1> SUFFICES ASSUME InHarness PROVE Labelled /\ Stated
  BY CommonInit DEF HarnessInv
<1>1. \A r \in Requests : request[r] = Unsent
  BY DEF Init, StorageInit
<1>2. Unsent.pc = "unsent"
  BY DEF Unsent
<1>3. restarts = 0 /\ stage = 0 /\ Len(Stages) \in {3, 4}
  BY HarnessAsks DEF Init, StorageInit
<1>4. Stated
  BY <1>1, <1>2, <1>3 DEF Stated
<1> QED
  BY <1>1, <1>2, <1>4 DEF Labelled, Labels

LEMMA PlatformRests ==
  ASSUME Common, Platform, NEW r \in Requests
  PROVE  /\ request'[r].pc = "unsent" <=> request[r].pc = "unsent"
         /\ request'[r].pc = "threw" /\ restarts' = restarts /\ restarts \in Nat => request[r].pc = "threw"
         /\ request'[r].pc \in {"responding", "answered"} =>
               request[r].pc \in {"responding", "answered"} /\ request'[r].result = request[r].result
<1>1. PICK C, P, L, R, H : request \in [Requests -> Calls(C, P, L, R, H)]
  BY DEF Common, Shaped
<1>2. request[r] \in Calls(C, P, L, R, H)
  BY <1>1
<1>3. CASE Flush
  <2> DEFINE h(q) == IF request[q].holds > 0 THEN request[q].holds - 1 ELSE 0
             x(q) == [request[q] EXCEPT !.holds = h(q)]
  <2>1. request' = [q \in Requests |-> x(q)]
    BY <1>3 DEF Flush
  <2>2. x(r).pc = request[r].pc /\ x(r).result = request[r].result
    BY <1>2 DEF Calls
  <2> HIDE DEF x
  <2> QED
    BY <2>1, <2>2
<1>4. CASE Restart
  <2> DEFINE y(q) == [request[q] EXCEPT !.pc = "threw", !.local = <<>>, !.result = NoResult, !.holds = 0]
             x(q) == IF request[q].pc \in {"unsent", "answered", "threw"} THEN request[q] ELSE y(q)
  <2>1. request' = [q \in Requests |-> x(q)] /\ restarts' = restarts + 1
    BY <1>4 DEF Restart
  <2>2. y(r).pc = "threw"
    BY <1>2 DEF Calls
  <2> HIDE DEF y
  <2> QED
    BY <2>1, <2>2
<1>5. CASE \E q \in Requests : OutputGateOpens(q)
  <2> PICK q \in Requests : OutputGateOpens(q)
    BY <1>5
  <2> DEFINE x == [request[q] EXCEPT !.pc = "answered"]
  <2>1. request' = [request EXCEPT ![q] = x] /\ request[q].pc = "responding"
    BY DEF OutputGateOpens, At
  <2>2. x.pc = "answered" /\ x.result = request[q].result
    BY <1>1 DEF Calls
  <2> HIDE DEF x
  <2>3. request'[q] = x /\ (r # q => request'[r] = request[r])
    BY <1>1, <2>1
  <2> QED
    BY <2>1, <2>2, <2>3
<1> QED
  BY <1>3, <1>4, <1>5 DEF Platform, PlatformStep

LEMMA HarnessNext ==
  ASSUME 1 \in Requests, HarnessInv, [Next]_vars
  PROVE  HarnessInv'
<1>0. UNCHANGED scenario
  BY DEF Next, vars, NextStage, Retry, Handler, Platform
<1> SUFFICES ASSUME InHarness PROVE Common' /\ Labelled' /\ Stated'
  BY <1>0 DEF HarnessInv, InHarness
<1>1. Common /\ Shaped /\ Labelled /\ Stated /\ restarts \in Nat
  BY DEF HarnessInv, Stated, Common
<1>h. Class \in {"naive", "statem"} /\ Len(Stages) \in {3, 4} /\ stage \in Nat
  BY <1>1, HarnessAsks DEF Common
<1>2. CASE NextStage
  <2>1. Common' /\ Labelled'
    BY <1>1, <1>2, NextStageKeepsCommon, SentNow DEF Labelled, Labels
  <2> DEFINE calls == Stages[stage + 1]
  <2>2. \A r \in Requests : request'[r] = IF r \in DOMAIN calls THEN Sent(calls[r]) ELSE Unsent
    BY <1>2 DEF NextStage
  <2>3. Unsent.pc = "unsent" /\ \A c : Sent(c).pc = "sent" /\ Sent(c).call = c
    BY DEF Unsent, Sent
  <2>4. stage' = stage + 1 /\ stage < Len(Stages) /\ Stages' = Stages /\ restarts' \in Nat /\ calls = Stages[stage']
    BY <1>0, <1>1, <1>2 DEF NextStage, Stages
  <2> HIDE DEF calls
  <2>5. \A r \in Requests : /\ request'[r].pc # "unsent" <=> r \in DOMAIN calls
                            /\ request'[r].pc # "unsent" => request'[r].call = calls[r]
    BY <2>2, <2>3
  <2>6. stage' # 0 /\ stage' <= Len(Stages)
    BY <1>h, <2>4
  <2>7. Stated'
    BY <2>4, <2>5, <2>6 DEF Stated
  <2> QED
    BY <2>1, <2>7
<1>3. CASE \E r \in Requests : Retry(r)
  <2> PICK r \in Requests : Retry(r)
    BY <1>3
  <2>1. Common'
    BY <1>1, RetryKeepsCommon
  <2>2. /\ request'[r].pc = "sent" /\ request'[r].call = request[r].call /\ request[r].pc = "threw"
        /\ \A q \in Requests : q # r => request'[q] = request[q]
        /\ UNCHANGED <<scenario, stage, restarts>>
    BY <1>1, RetriedNow DEF Retry
  <2>3. Labelled'
    BY <1>1, <2>2 DEF Labelled, Labels
  <2>4. Stated'
    BY <1>1, <2>2, StatedKept
  <2> QED
    BY <2>1, <2>3, <2>4
<1>4. CASE \E r \in Requests : Handler(r)
  <2> PICK r \in Requests : Handler(r)
    BY <1>4
  <2>1. (NaiveOrder(r) \/ StatemOrder(r)) /\ UNCHANGED <<restarts, scenario, stage>>
    BY <1>h DEF Handler
  <2>2. Labels(request[r].pc, request[r].call.op)
    BY <1>1 DEF Labelled
  <2>3. /\ Delivered(r) \/ request[r].pc \notin AtRest
        /\ request[r].pc # "unsent"
        /\ \E pc : Moves(r, pc) /\ Labels(pc, request[r].call.op) /\ pc # "unsent"
    BY <1>1, <2>1, <2>2, OrderSteps
  <2>4. PICK pc : Moves(r, pc) /\ Labels(pc, request[r].call.op) /\ pc # "unsent"
    BY <2>3
  <2>5. Common'
    BY <1>1, <2>1, <2>3, <2>4, MovesKeepCommon
  <2>6. Labelled'
    BY <1>1, <2>4 DEF Labelled, Moves
  <2>7. \A q \in Requests : /\ request'[q].call = request[q].call
                            /\ request'[q].pc = "unsent" <=> request[q].pc = "unsent"
    BY <2>3, <2>4 DEF Moves
  <2>8. Stated'
    BY <1>1, <2>1, <2>7, StatedKept
  <2> QED
    BY <2>5, <2>6, <2>8
<1>5. CASE Platform
  <2>1. /\ Common' /\ UNCHANGED <<scenario, stage>>
        /\ restarts' = restarts \/ restarts' = restarts + 1
        /\ \A r \in Requests : /\ request'[r].call = request[r].call
                               /\ request'[r].pc \in AtRest \/ request'[r].pc = request[r].pc
    BY <1>1, <1>5, PlatformKeepsCommon DEF Platform
  <2>2. Labelled'
    BY <1>1, <2>1 DEF Labelled, Labels, AtRest
  <2>3. Stated'
    BY <1>1, <1>5, <2>1, PlatformRests, StatedKept
  <2> QED
    BY <2>1, <2>2, <2>3
<1>6. CASE UNCHANGED vars
  BY <1>1, <1>6 DEF vars, Common, Shaped, OneInside, AskedOK, Labelled, Stated, Stages
<1> QED
  BY <1>2, <1>3, <1>4, <1>5, <1>6 DEF Next

\* What a call tells of the stage.
LEMMA StageTells ==
  ASSUME 1 \in Requests, InHarness, HarnessInv, NEW r \in Requests, request[r].pc # "unsent"
  PROVE  /\ Places(scenario, stage, request[r].call) /\ stage \in 1 .. Len(Stages)
         /\ \A q \in Requests : request[q].pc # "unsent" => Places(scenario, stage, request[q].call)
<1>1. Stated /\ stage \in Nat
  BY DEF HarnessInv, Common
<1>2. stage \in 1 .. Len(Stages) /\ Len(Stages) \in {3, 4}
  BY <1>1, HarnessAsks DEF Stated
<1>3. ASSUME NEW q \in Requests, request[q].pc # "unsent" PROVE Places(scenario, stage, request[q].call)
  BY <1>1, <1>2, <1>3, HarnessAsks DEF Stated
<1> QED
  BY <1>2, <1>3

-----------------------------------------------------------------------------
(* What a scenario may leave in the storage: one charge at most, under one id. *)
CapturedOrder(key) == [status |-> "captured", amount |-> AMT, captureKey |-> key]
AuthorizedOrder == [status |-> "authorized", amount |-> AMT, captureKey |-> NoKey]
Charge(id) == [i \in {id} |-> AMT]
TrialRecords(key, id) ==
    [state : {NewOrder, AuthorizedOrder, CapturedOrder(key)}, ledger : {<<>>, Charge(id)},
     status : {Open}, history : {<<>>}, table : {NoEntries}, balance : {0}]
TrialVersions(key, id) ==
    {v \in TrialRecords(key, id) : v.state.status = "captured" => v.ledger = Charge(id)}

LEMMA ChargeIs ==
  ASSUME NEW id
  PROVE  /\ Sum(<<>>) = 0 /\ Sum(Charge(id)) = AMT
         /\ DOMAIN <<>> = {} /\ DOMAIN Charge(id) = {id} /\ Charge(id) # <<>>
<1> DEFINE w == Charge(id)  e == <<>>
<1>1. DOMAIN w = {id} /\ w[id] = AMT /\ DOMAIN e = {} /\ AMT \in Int /\ AMT = 100
  BY DEF Charge, AMT
<1>2. w # e
  BY <1>1
<1> HIDE DEF w, e
<1>4. Sum(e) = 0
  <2>1. IsFiniteSet(DOMAIN e) /\ Cardinality({}) = 0
    BY <1>1, FS_EmptySet
  <2>2. Sum(e) = (Cardinality({}) - Cardinality({})) * AMT
    BY <1>1, <2>1, SumCounts
  <2> QED
    BY <1>1, <2>1, <2>2
<1>5. Sum(w) = AMT
  <2>1. IsFiniteSet(DOMAIN w) /\ Cardinality({}) = 0 /\ Cardinality({id}) = 1
    <3>1. IsFiniteSet({id}) /\ Cardinality({id}) = 1
      BY FS_Singleton, Zenon
    <3> QED
      BY <1>1, <3>1, FS_EmptySet
  <2>2. Sum(w) = (Cardinality({id}) - Cardinality({})) * AMT
    <3>1. DOMAIN w = {id} \cup {} /\ {id} \cap {} = {} /\ \A x \in {id} : w[x] = AMT
      BY <1>1
    <3> QED
      BY <1>1, <2>1, <3>1, SumCounts
  <2> QED
    BY <1>1, <2>1, <2>2
<1> QED
  BY <1>1, <1>2, <1>4, <1>5 DEF w, e

\* the statuses of a scenario
LEMMA TrialStates ==
  ASSUME NEW key, NEW id, NEW v \in TrialVersions(key, id)
  PROVE  /\ v.state.status \in {"new", "authorized", "captured"}
         /\ v.state.status = "new" => v.state = NewOrder
         /\ v.state.status = "authorized" => v.state = AuthorizedOrder
         /\ v.state.status = "captured" => v.state = CapturedOrder(key) /\ v.ledger = Charge(id)
         /\ v.state.captureKey \in {NoKey, key}
         /\ v.state.status # "captured" => v.state.captureKey = NoKey
         /\ v.state.status # "new" => v.state.amount = AMT
         /\ v.ledger \in {<<>>, Charge(id)}
BY DEF TrialVersions, TrialRecords, NewOrder, AuthorizedOrder, CapturedOrder

\* the writes of a scenario
TheStates(key) == {NewOrder, AuthorizedOrder, CapturedOrder(key)}

LEMMA TrialState ==
  ASSUME NEW key, NEW id, NEW v \in TrialVersions(key, id), NEW s \in TheStates(key),
         s.status # "captured" \/ v.ledger = Charge(id), NEW w, w = [v EXCEPT !.state = s]
  PROVE  w \in TrialVersions(key, id) /\ w.state = s /\ w.ledger = v.ledger
<1>1. v \in [state : TheStates(key), ledger : {<<>>, Charge(id)},
             status : {Open}, history : {<<>>}, table : {NoEntries}, balance : {0}]
  BY DEF TrialVersions, TrialRecords, TheStates
<1>2. [v EXCEPT !.state = s] \in [state : TheStates(key), ledger : {<<>>, Charge(id)},
             status : {Open}, history : {<<>>}, table : {NoEntries}, balance : {0}]
  BY <1>1, Zenon
<1>3. w.state = s /\ w.ledger = v.ledger
  BY <1>1
<1>4. w \in TrialRecords(key, id)
  BY <1>2 DEF TrialRecords, TheStates
<1> QED
  BY <1>3, <1>4 DEF TrialVersions

LEMMA AuthorizedIs == [NewOrder EXCEPT !.status = "authorized", !.amount = AMT] = AuthorizedOrder
<1> DEFINE O == [status : {"new", "authorized"}, amount : {0, AMT}, captureKey : {NoKey}]
           s == [NewOrder EXCEPT !.status = "authorized", !.amount = AMT]
<1>1. NewOrder \in O
  BY DEF NewOrder
<1>2. s \in O
  BY <1>1, Zenon
<1>3. s.status = "authorized" /\ s.amount = AMT
  BY <1>1
<1> HIDE DEF s
<1>4. s = AuthorizedOrder
  BY <1>2, <1>3 DEF AuthorizedOrder
<1> QED
  BY <1>4 DEF s

LEMMA TrialAuthorizes ==
  ASSUME NEW key, NEW id, NEW v \in TrialVersions(key, id)
  PROVE  LET w == [v EXCEPT !.state = AuthorizedOrder] IN
         w \in TrialVersions(key, id) /\ w.state.status = "authorized" /\ w.ledger = v.ledger
<1> DEFINE w == [v EXCEPT !.state = AuthorizedOrder]
<1>1. AuthorizedOrder \in TheStates(key) /\ AuthorizedOrder.status = "authorized"
  BY DEF TheStates, AuthorizedOrder
<1>2. w \in TrialVersions(key, id) /\ w.state = AuthorizedOrder /\ w.ledger = v.ledger
  BY <1>1, TrialState
<1> QED
  BY <1>1, <1>2

LEMMA TrialCharges ==
  ASSUME NEW key, NEW id, NEW v \in TrialVersions(key, id), NEW amount, amount = AMT,
         NEW w, w = Charged(v, id, amount)
  PROVE  w \in TrialVersions(key, id) /\ w.state = v.state /\ w.ledger = Charge(id)
<1> DEFINE u == [v EXCEPT !.ledger = Charge(id)]
<1>1. w = u
  <2>1. v.ledger \in {<<>>, Charge(id)}
    BY DEF TrialVersions, TrialRecords
  <2>2. [i \in {id} \cup DOMAIN v.ledger |-> IF i = id THEN amount ELSE v.ledger[i]] = Charge(id)
    <3>1. CASE v.ledger = <<>>
      <4>1. DOMAIN v.ledger = {}
        BY <3>1, ChargeIs
      <4> QED
        BY <4>1 DEF Charge
    <3>2. CASE v.ledger = Charge(id)
      BY <3>2 DEF Charge
    <3> QED
      BY <2>1, <3>1, <3>2
  <2> QED
    BY <2>2 DEF Charged
<1>2. v \in [state : TheStates(key), ledger : {<<>>, Charge(id)},
             status : {Open}, history : {<<>>}, table : {NoEntries}, balance : {0}]
  BY DEF TrialVersions, TrialRecords, TheStates
<1>3. u \in [state : TheStates(key), ledger : {<<>>, Charge(id)},
             status : {Open}, history : {<<>>}, table : {NoEntries}, balance : {0}]
  BY <1>2, Zenon
<1>4. u.state = v.state /\ u.ledger = Charge(id)
  BY <1>2
<1> HIDE DEF u
<1>5. u \in TrialVersions(key, id)
  BY <1>3, <1>4 DEF TrialVersions, TrialRecords, TheStates
<1> QED
  BY <1>1, <1>4, <1>5

\* a commit of a StatemOrder, with its key
LEMMA TrialCaptures ==
  ASSUME NEW key, NEW id, NEW v \in TrialVersions(key, id), v.ledger = Charge(id), NEW w,
         v.state.status # "new",
         w = WithStatus(v, [v.state EXCEPT !.captureKey = key], "captured")
  PROVE  w \in TrialVersions(key, id) /\ w.state.status = "captured" /\ w.ledger = v.ledger
<1>1. /\ v.state \in {NewOrder, AuthorizedOrder, CapturedOrder(key)}
      /\ NewOrder.status = "new"
      /\ AuthorizedOrder.status = "authorized"
      /\ CapturedOrder(key).status = "captured"
  BY DEF TrialVersions, TrialRecords, NewOrder, AuthorizedOrder, CapturedOrder
<1> DEFINE K == [status |-> "authorized", amount |-> AMT, captureKey |-> key]
           u == [v.state EXCEPT !.captureKey = key]
<1>2. \A o \in {AuthorizedOrder, CapturedOrder(key)} : [o EXCEPT !.captureKey = key] \in {K, CapturedOrder(key)}
  BY DEF AuthorizedOrder, CapturedOrder
<1>3. \A o \in {K, CapturedOrder(key)} : [o EXCEPT !.status = "captured"] = CapturedOrder(key)
  BY DEF CapturedOrder
<1>4. u \in {K, CapturedOrder(key)} /\ w = [v EXCEPT !.state = [u EXCEPT !.status = "captured"]]
  BY <1>1, <1>2 DEF WithStatus
<1> HIDE DEF u, K
<1>5. w = [v EXCEPT !.state = CapturedOrder(key)]
  BY <1>3, <1>4
<1>6. CapturedOrder(key) \in TheStates(key)
  BY DEF TheStates
<1>7. w \in TrialVersions(key, id) /\ w.state = CapturedOrder(key) /\ w.ledger = v.ledger
  BY <1>5, <1>6, TrialState
<1> QED
  BY <1>1, <1>7

\* and of a NaiveOrder, without
LEMMA TrialCommits ==
  ASSUME NEW id, NEW v \in TrialVersions(NoKey, id), v.ledger = Charge(id), v.state.status = "authorized"
  PROVE  LET w == WithStatus(v, v.state, "captured") IN
         w \in TrialVersions(NoKey, id) /\ w.state.status = "captured" /\ w.ledger = v.ledger
<1> DEFINE s == CapturedOrder(NoKey)
           u == [v EXCEPT !.state = s]
<1>1. [AuthorizedOrder EXCEPT !.status = "captured"] = s /\ s.status = "captured" /\ s \in TheStates(NoKey)
  BY DEF AuthorizedOrder, CapturedOrder, TheStates
<1>2. v.state = AuthorizedOrder
  BY TrialStates
<1>3. WithStatus(v, v.state, "captured") = u
  BY <1>1, <1>2 DEF WithStatus
<1> HIDE DEF s
<1>4. u \in TrialVersions(NoKey, id) /\ u.state = s /\ u.ledger = v.ledger
  BY <1>1, TrialState
<1> HIDE DEF u
<1> QED
  BY <1>1, <1>3, <1>4

LEMMA Everywhere ==
  ASSUME NEW V, NEW W, NEW s \in Seq(V), \A i \in 1 .. Len(s) : s[i] \in W
  PROVE  s \in Seq(W)
<1>1. s \in [1 .. Len(s) -> W] /\ Len(s) \in Nat
  OBVIOUS
<1> QED
  BY <1>1

-----------------------------------------------------------------------------
(* A StatemOrder in the harness.                                           *)
TheCharge == Charge(CaptureId(Key1))

\* what the stage makes of the storage, on disk and in every later version
AsStage(v) ==
  /\ Invalid => v.ledger = <<>>
  /\ stage >= 2 => v.state.status # "new"
  /\ stage = Len(Stages) /\ ~Invalid => v.state.status = "captured"
RightVersions == {v \in TrialVersions(Key1, CaptureId(Key1)) : AsStage(v)}

\* the answers there may be
Told(x, expected) ==
  x.pc \in {"responding", "answered"} =>
    /\ x.call.op \in {"capture", "authorize"} => x.result.ok
    /\ x.call.op = "read" => x.result.charged = expected
Replied == \A r \in Requests : Told(request[r], scenario.expected)

TrialOK == versions \in Seq(RightVersions) /\ versions # <<>> /\ Replied
TrialInv == InHarness /\ Class = "statem" => TrialOK

LEMMA SameRight == ASSUME UNCHANGED <<scenario, stage>> PROVE RightVersions' = RightVersions
BY DEF RightVersions, AsStage, Invalid, Stages

LEMMA RightCached ==
  ASSUME TrialOK
  PROVE  /\ Cached \in RightVersions /\ Cached \in TrialVersions(Key1, CaptureId(Key1)) /\ AsStage(Cached)
         /\ Invalid => Cached.state.status # "captured" /\ Sum(Cached.ledger) = 0
         /\ stage = Len(Stages) => Sum(Cached.ledger) = IF Invalid THEN 0 ELSE AMT
<1>1. Cached \in RightVersions
  BY LastVersion DEF TrialOK
<1>2. Cached \in TrialVersions(Key1, CaptureId(Key1)) /\ AsStage(Cached)
  BY <1>1 DEF RightVersions
<1>3. Sum(<<>>) = 0 /\ Sum(TheCharge) = AMT /\ TheCharge # <<>>
  BY ChargeIs, Zenon DEF TheCharge
<1>4. Cached.state.status = "captured" => Cached.ledger = TheCharge
  BY <1>2, TrialStates DEF TheCharge
<1> QED
  BY <1>1, <1>2, <1>3, <1>4 DEF AsStage

LEMMA TrialKey ==
  ASSUME NEW key, NEW id, NEW v \in TrialVersions(key, id), v.state.status = "captured"
  PROVE  v.state.captureKey = key
<1>1. v.state = CapturedOrder(key)
  BY TrialStates
<1> QED
  BY <1>1 DEF CapturedOrder

LEMMA TrialKeeps ==
  ASSUME 1 \in Requests, InHarness, Class = "statem", HarnessInv, AnswerInv, TrialOK,
         UNCHANGED <<scenario, stage>>, NEW r \in Requests, StatemOrder(r)
  PROVE  TrialOK'
<1> DEFINE call == request[r].call
           pc == request[r].pc
           k1 == CaptureId(Key1)
<1>0. /\ Shaped /\ Labels(pc, call.op) /\ OrderFresh(pc, request[r].local, call.key, Cached) /\ Replied
      /\ RightVersions' = RightVersions
  BY SameRight DEF HarnessInv, Common, Labelled, AnswerInv, OrdersHandled, TrialOK
<1>1. Cached \in TrialVersions(Key1, k1) /\ AsStage(Cached)
  BY RightCached
<1>2. pc # "unsent" /\ Places(scenario, stage, call) /\ Len(Stages) \in {3, 4}
      /\ stage \in 1 .. Len(Stages) /\ scenario.expected = IF Invalid THEN 0 ELSE AMT
  <2>1. pc # "unsent"
    BY <1>0, OrderSteps
  <2> QED
    BY <2>1, StageTells, HarnessAsks
<1>3. /\ call.key = Key1 /\ call.amount = AMT
      /\ call.op = "authorize" => stage = 1
      /\ call.op = "read" => stage = Len(Stages)
      /\ call.op = "refund" => Invalid
      /\ call.op = "capture" => ~Invalid /\ stage >= 2 /\ stage # Len(Stages)
  BY <1>2 DEF Places, Invalid, Stages
<1>4. ASSUME NEW at, at \notin {"responding", "answered"}, Moves(r, at), NoWrite \/ \E w \in RightVersions : Write(w)
      PROVE  TrialOK'
  <2>1. Replied'
    BY <1>0, <1>4 DEF Moves, Replied, Told
  <2>2. versions' \in Seq(RightVersions) /\ versions' # <<>>
    BY <1>4, Appended DEF NoWrite, TrialOK
  <2> QED
    BY <1>0, <2>1, <2>2 DEF TrialOK
<1>5. ASSUME NEW result, NEW written, Leave(r, "responding", result, written),
             NoWrite \/ \E w \in RightVersions : Write(w),
             call.op \in {"capture", "authorize"} => result.ok,
             call.op = "read" => result.charged = scenario.expected
      PROVE  TrialOK'
  <2>1. request'[r].result = result /\ request'[r].call = call /\ Moves(r, "responding")
    BY <1>0, <1>5, LeaveIs, LeaveMoves
  <2>2. \A q \in Requests : Told(request'[q], scenario.expected)
    <3> TAKE q \in Requests
    <3>1. CASE q = r
      BY <1>5, <2>1, <3>1 DEF Told
    <3>2. CASE q # r
      BY <1>0, <2>1, <3>2 DEF Moves, Replied
    <3> QED
      BY <3>1, <3>2
  <2>3. Replied'
    BY <2>2 DEF Replied
  <2>4. versions' \in Seq(RightVersions) /\ versions' # <<>>
    BY <1>5, Appended DEF NoWrite, TrialOK
  <2> QED
    BY <1>0, <2>3, <2>4 DEF TrialOK
<1>6. ASSUME NEW at \in {"list", "capture", "refund", "threw", "commit"}, NEW local, Suspend(r, at, local),
             NoWrite \/ \E w \in RightVersions : Write(w)
      PROVE  TrialOK'
  BY <1>0, <1>4, <1>6, SuspendMoves
<1>7. Ok.ok /\ Already.ok
  BY DEF Ok, Already
<1>8. CASE ReadModel(r)
  <2>1. CASE Delivered(r) /\ Op(r, "read") /\ ReadState(r, "list")
    BY <1>6, <2>1 DEF ReadState
  <2>2. CASE At(r, "list") /\ NoWrite
              /\ Respond(r, [ok |-> TRUE, status |-> LocalState(r).status, charged |-> Sum(Cached.ledger)])
    <3> DEFINE result == [ok |-> TRUE, status |-> LocalState(r).status, charged |-> Sum(Cached.ledger)]
    <3>1. call.op = "read"
      BY <1>0, <2>2 DEF At, Labels
    <3>2. Sum(Cached.ledger) = scenario.expected
      BY <1>2, <1>3, <3>1, RightCached
    <3>3. result.charged = scenario.expected
      BY <3>2
    <3>4. Leave(r, "responding", result, 0) /\ NoWrite
      BY <2>2 DEF Respond
    <3> HIDE DEF result
    <3> QED
      BY <1>5, <3>1, <3>3, <3>4
  <2> QED
    BY <1>8, <2>1, <2>2 DEF ReadModel
<1>9. CASE Authorize(r)
  <2> DEFINE w == [Cached EXCEPT !.state = AuthorizedOrder]
  <2>1. WriteAndRespond(r, w, Ok) /\ call.op = "authorize"
    <3>1. [NewOrder EXCEPT !.status = "authorized", !.amount = call.amount] = AuthorizedOrder
      BY <1>3, AuthorizedIs
    <3> QED
      BY <1>9, <3>1 DEF Authorize, Op, Call
  <2>2. w \in TrialVersions(Key1, k1) /\ w.state.status = "authorized" /\ w.ledger = Cached.ledger
    BY <1>1, TrialAuthorizes
  <2> HIDE DEF w
  <2>3. stage = 1 /\ stage # Len(Stages)
    BY <1>2, <1>3, <2>1
  <2>6. AsStage(w)
    BY <1>1, <2>2, <2>3 DEF AsStage
  <2>4. w \in RightVersions
    BY <2>2, <2>6 DEF RightVersions
  <2>5. Leave(r, "responding", Ok, 1) /\ Write(w)
    BY <2>1 DEF WriteAndRespond
  <2> QED
    BY <1>5, <1>7, <2>1, <2>4, <2>5
<1>10. CASE \/ Delivered(r) /\ Op(r, "capture") /\ ReadState(r, "capture")
            \/ Delivered(r) /\ Op(r, "refund") /\ ReadState(r, "refund")
  BY <1>6, <1>10 DEF ReadState
<1>11. CASE StatemCharge(r)
  <2>1. pc = "capture" /\ LocalState(r) = Cached.state /\ call.op = "capture"
    BY <1>0, <1>11 DEF StatemCharge, At, AtRest, LocalState, OrderFresh, Labels
  <2>2. Cached.state.status # "new" /\ ~Invalid /\ stage # Len(Stages)
    BY <1>1, <1>3, <2>1 DEF AsStage
  <2>3. CASE NoWrite /\ Respond(r, Already)
    BY <1>5, <1>7, <2>1, <2>3 DEF Respond
  <2>4. CASE Cached.state.captureKey # call.key /\ Cached.state.status = "captured"
    <3>1. Cached.state.captureKey = Key1
      BY <1>1, <2>4, TrialKey
    <3> QED
      BY <1>3, <2>4, <3>1
  <2>5. CASE Cached.state.status \notin {"captured", "authorized"}
    BY <1>1, <2>2, <2>5, TrialStates
  <2>6. CASE Write(Charged(Cached, CaptureId(call.key), Cached.state.amount)) /\ Suspend(r, "commit", Cached.state)
    <3> DEFINE w == Charged(Cached, k1, Cached.state.amount)
    <3>1. Cached.state.amount = AMT
      BY <1>1, <2>2, TrialStates
    <3>2. Write(w)
      BY <1>3, <2>6
    <3>3. w \in TrialVersions(Key1, k1) /\ w.state = Cached.state
      BY <1>1, <3>1, TrialCharges
    <3> HIDE DEF w
    <3>4. w \in RightVersions
      BY <2>2, <3>3 DEF RightVersions, AsStage
    <3> QED
      BY <1>6, <2>6, <3>2, <3>4
  <2> QED
    BY <1>11, <2>1, <2>3, <2>4, <2>5, <2>6 DEF StatemCharge, Call
<1>12. CASE StatemCommit(r)
  <2>1. pc = "commit" /\ LocalState(r) = Cached.state /\ call.op = "capture" /\ CaptureId(call.key) \in DOMAIN Cached.ledger
    BY <1>0, <1>12 DEF StatemCommit, At, AtRest, LocalState, OrderFresh, Labels
  <2>2. Cached.state.status # "new" /\ ~Invalid
    BY <1>1, <1>3, <2>1 DEF AsStage
  <2>3. Cached.ledger = Charge(k1)
    BY <1>1, <2>1, TrialStates, ChargeIs
  <2>4. CASE NoWrite /\ Throw(r)
    BY <1>6, <2>4 DEF Throw
  <2>5. CASE WriteAndRespond(r, WithStatus(Cached, [Cached.state EXCEPT !.captureKey = call.key], "captured"), Ok)
    <3> DEFINE w == WithStatus(Cached, [Cached.state EXCEPT !.captureKey = Key1], "captured")
    <3>1. w \in TrialVersions(Key1, k1) /\ w.state.status = "captured"
      BY <1>1, <2>2, <2>3, TrialCaptures
    <3>2. Leave(r, "responding", Ok, 1) /\ Write(w)
      BY <1>3, <2>5 DEF WriteAndRespond
    <3> HIDE DEF w
    <3>3. w \in RightVersions
      BY <2>2, <3>1 DEF RightVersions, AsStage
    <3> QED
      BY <1>5, <1>7, <2>1, <3>2, <3>3
  <2> QED
    BY <1>12, <2>1, <2>4, <2>5 DEF StatemCommit, Call
<1>13. CASE StatemRefund(r)
  <2>1. LocalState(r) = Cached.state /\ call.op = "refund"
    BY <1>0, <1>13 DEF StatemRefund, At, AtRest, LocalState, OrderFresh, Labels
  <2>2. Cached.state.status # "captured"
    BY <1>3, <2>1, RightCached
  <2>3. NoWrite /\ Leave(r, "responding", InvalidTransition, 0)
    BY <1>13, <2>1, <2>2 DEF StatemRefund, Respond
  <2> QED
    BY <1>5, <2>1, <2>3
<1>14. CASE StatemRefundCommit(r)
  <2>1. call.op = "refund" /\ Cached.state.status = "captured"
    BY <1>0, <1>14 DEF StatemRefundCommit, At, AtRest, OrderFresh, Labels
  <2> QED
    BY <1>3, <2>1, RightCached
<1> QED
  BY <1>8, <1>9, <1>10, <1>11, <1>12, <1>13, <1>14 DEF StatemOrder

\* Who has settled without a crash was answered.
LEMMA StageAnswered ==
  ASSUME 1 \in Requests, InHarness, HarnessInv, AllSettled, stage # 0
  PROVE  /\ request[1].pc # "unsent" /\ Places(scenario, stage, request[1].call)
         /\ ~request[1].call.crash => request[1].pc = "answered"
<1>1. stage \in 1 .. Len(Stages) /\ Len(Stages) \in {3, 4}
  BY HarnessAsks DEF HarnessInv, Common, Stated
<1>2. request[1].pc # "unsent"
  BY <1>1, HarnessAsks DEF HarnessInv, Stated
<1> QED
  BY <1>2, StageTells DEF AllSettled, Settled

LEMMA TrialStage ==
  ASSUME 1 \in Requests, InHarness, Class = "statem", HarnessInv, AnswerInv, TrialOK, NextStage
  PROVE  TrialOK'
<1> DEFINE x == request[1]
<1>1. /\ stage' = stage + 1 /\ stage < Len(Stages) /\ AllSettled /\ UNCHANGED <<versions, scenario>>
      /\ Len(Stages) \in {3, 4} /\ stage \in Nat /\ Stages' = Stages /\ Invalid' = Invalid
  BY HarnessAsks DEF NextStage, HarnessInv, Common, Stages, Invalid
<1>2. Replied'
  BY SentNow DEF Replied, Told
<1>3. ASSUME stage # 0, ~x.call.crash, x.call.op \in {"capture", "authorize"}
      PROVE  \A i \in 1 .. Len(versions) : Tells(Class, x.call, x.result, Gone, versions[i])
  <2>1. x.pc = "answered"
    BY <1>1, <1>3, StageAnswered
  <2>2. Responded(x)
    BY <1>3, <2>1 DEF TrialOK, Replied, Told, Responded
  <2>3. StandsFor(Class, x, Gone, versions)
    BY <2>2 DEF AnswerInv, OrderAnswers, Standing
  <2> QED
    BY <2>1, <2>3 DEF StandsFor
<1>4. stage = 1 => \A i \in 1 .. Len(versions) : versions[i].state.status # "new"
  <2> SUFFICES ASSUME stage = 1 PROVE \A i \in 1 .. Len(versions) : versions[i].state.status # "new"
    OBVIOUS
  <2>1. Places(scenario, 1, x.call)
    BY <1>1, StageAnswered
  <2>2. x.call.op = "authorize" /\ ~x.call.crash
    BY <2>1 DEF Places
  <2> QED
    BY <1>3, <2>2 DEF Tells
<1>5. stage + 1 = Len(Stages) /\ ~Invalid => \A i \in 1 .. Len(versions) : CaptureDone(versions[i])
  <2> SUFFICES ASSUME stage + 1 = Len(Stages), ~Invalid PROVE \A i \in 1 .. Len(versions) : CaptureDone(versions[i])
    OBVIOUS
  <2>1. Places(scenario, stage, x.call) /\ stage # 0 /\ stage # 1
    BY <1>1, StageAnswered
  <2>2. x.call.op = "capture" /\ ~x.call.crash
    BY <1>1, <2>1 DEF Places, Invalid, Stages
  <2> QED
    BY <1>3, <2>1, <2>2 DEF Tells
<1>6. \A i \in 1 .. Len(versions) : versions[i] \in RightVersions'
  <2> TAKE i \in 1 .. Len(versions)
  <2> DEFINE v == versions[i]
  <2>1. v \in TrialVersions(Key1, CaptureId(Key1)) /\ AsStage(v)
    BY DEF TrialOK, RightVersions
  <2>2. v.state.status \in {"new", "authorized", "captured"}
    BY <2>1, TrialStates
  <2>3. /\ stage = 1 => v.state.status # "new"
        /\ stage + 1 = Len(Stages) /\ ~Invalid => v.state.status = "captured"
    BY <1>4, <1>5, <2>2 DEF CaptureDone
  <2> HIDE DEF v
  <2>4. /\ Invalid => v.ledger = <<>>
        /\ stage + 1 >= 2 => v.state.status # "new"
        /\ stage + 1 = Len(Stages) /\ ~Invalid => v.state.status = "captured"
    BY <1>1, <2>1, <2>3 DEF AsStage
  <2>5. v \in RightVersions'
    BY <1>1, <2>1, <2>4 DEF RightVersions, AsStage
  <2> QED
    BY <2>5 DEF v
<1>7. versions \in Seq(RightVersions')
  <2> DEFINE W == RightVersions'
  <2>1. \A i \in 1 .. Len(versions) : versions[i] \in W
    BY <1>6
  <2>2. versions \in Seq(RightVersions)
    BY DEF TrialOK
  <2> HIDE DEF W
  <2>3. versions \in Seq(W)
    BY <2>1, <2>2, Everywhere
  <2> QED
    BY <2>3 DEF W
<1> QED
  BY <1>1, <1>2, <1>7 DEF TrialOK

LEMMA TrialStart == ASSUME Init, 1 \in Requests PROVE TrialInv
<1> SUFFICES ASSUME InHarness, Class = "statem" PROVE TrialOK
  BY DEF TrialInv
<1>1. \A r \in Requests : request[r].pc = "unsent"
  BY DEF Init, StorageInit, Unsent
<1>2. versions = <<EmptyStorage>> /\ stage = 0 /\ Len(Stages) \in {3, 4}
  BY HarnessAsks DEF Init, StorageInit
<1>3. NewOrder.status = "new"
  BY DEF NewOrder
<1>4. EmptyStorage \in RightVersions
  BY <1>2, <1>3 DEF EmptyStorage, RightVersions, AsStage, TrialVersions, TrialRecords
<1> HIDE DEF EmptyStorage
<1>5. versions \in Seq(RightVersions) /\ versions # <<>>
  BY <1>2, <1>4
<1> QED
  BY <1>1, <1>5 DEF TrialOK, Replied, Told

LEMMA TrialNext ==
  ASSUME 1 \in Requests, HarnessInv, AnswerInv, TrialInv, [Next]_vars
  PROVE  TrialInv'
<1>0. UNCHANGED scenario
  BY DEF Next, vars, NextStage, Retry, Handler, Platform
<1> SUFFICES ASSUME InHarness, Class = "statem" PROVE TrialOK'
  BY <1>0 DEF TrialInv, InHarness, Class
<1>1. TrialOK /\ Common /\ Stated
  BY DEF TrialInv, HarnessInv
<1>2. CASE NextStage
  BY <1>1, <1>2, TrialStage
<1>3. CASE \E r \in Requests : Retry(r)
  <2> PICK r \in Requests : Retry(r)
    BY <1>3
  <2>1. /\ request'[r].pc = "sent"
        /\ \A q \in Requests : q # r => request'[q] = request[q]
        /\ UNCHANGED <<versions, scenario, stage>>
    BY <1>1, RetriedNow
  <2>2. Replied'
    BY <1>1, <2>1 DEF TrialOK, Replied, Told
  <2> QED
    BY <1>1, <2>1, <2>2, SameRight DEF TrialOK
<1>4. CASE \E r \in Requests : Handler(r)
  <2> PICK r \in Requests : Handler(r)
    BY <1>4
  <2>1. StatemOrder(r) /\ UNCHANGED <<scenario, stage>>
    BY DEF Handler
  <2> QED
    BY <1>1, <2>1, TrialKeeps
<1>5. CASE Platform
  <2>1. UNCHANGED <<scenario, stage>> /\ \A r \in Requests : request'[r].call = request[r].call
    BY <1>1, <1>5, PlatformKeepsCommon DEF Platform
  <2>2. Replied'
    BY <1>1, <1>5, <2>1, PlatformRests DEF TrialOK, Replied, Told
  <2>3. \/ UNCHANGED versions
        \/ Len(versions) > 1 /\ versions' = Tail(versions)
        \/ versions' = <<Durable>>
    BY <1>1, <1>5, PlatformKeepsCommon
  <2>4. versions' \in Seq(RightVersions) /\ versions' # <<>>
    BY <1>1, <2>3, Flushed, Restarted DEF TrialOK
  <2> QED
    BY <2>1, <2>2, <2>4, SameRight DEF TrialOK
<1>6. CASE UNCHANGED vars
  <2>1. UNCHANGED <<scenario, stage, versions, request>>
    BY <1>6 DEF vars
  <2> QED
    BY <1>1, <2>1, SameRight DEF TrialOK, Replied
<1> QED
  BY <1>2, <1>3, <1>4, <1>5, <1>6 DEF Next

-----------------------------------------------------------------------------
(* A NaiveOrder in the harness, while nothing restarts and nobody crashes: *)
(* its charge is under the first fresh id, and what the object reads is    *)
(* what the handlers that came before wrote.                               *)
Undisturbable == InHarness /\ Class = "naive" /\ scenario.name \notin {"crash", "invalid"} /\ restarts = 0

FirstUuid == <<"uuid", 1>>
NaiveVersions == TrialVersions(NoKey, FirstUuid)

\* where the stage has brought the order
NaiveStage(v) ==
  /\ stage <= 1 => v.ledger = <<>>
  /\ stage >= 2 => v.state.status # "new"
  /\ stage = Len(Stages) => v.state.status = "captured"

\* a call, and the contents v that the object reads
NaiveCall(x, v) ==
  /\ x.pc # "threw"
  /\ x.pc \in {"capture", "commit"} => x.local = v.state
  /\ x.pc = "commit" => v.state.status = "authorized" /\ v.ledger = Charge(FirstUuid)
  /\ x.pc \in {"responding", "answered"} =>
       /\ x.call.op = "authorize" => v.state.status # "new"
       /\ x.call.op = "capture" => v.state.status = "captured"
       /\ x.call.op = "read" => x.result.charged = AMT

NaiveOK ==
  /\ versions \in Seq(NaiveVersions) /\ versions # <<>>
  /\ NaiveStage(Cached)
  /\ \A r \in Requests : NaiveCall(request[r], Cached)
  /\ Cached.ledger # <<>> /\ Cached.state.status # "captured" =>
       \E r \in Requests : request[r].pc = "commit"
NaiveInv == Undisturbable => NaiveOK

LEMMA NaiveKeeps ==
  ASSUME 1 \in Requests, Undisturbable, HarnessInv, NaiveOK,
         UNCHANGED <<scenario, stage>>, NEW r \in Requests, NaiveOrder(r)
  PROVE  NaiveOK'
<1> DEFINE call == request[r].call
           pc == request[r].pc
           v == Cached
<1>0. Shaped /\ Labels(pc, call.op) /\ OneInside /\ NaiveCall(request[r], v)
  BY DEF HarnessInv, Common, Labelled, NaiveOK, Undisturbable
<1>1. v \in NaiveVersions /\ NaiveStage(v)
  BY LastVersion DEF NaiveOK
<1>2. /\ Delivered(r) \/ pc \notin AtRest
      /\ pc # "unsent" /\ Places(scenario, stage, call) /\ Len(Stages) \in {3, 4}
      /\ stage \in 1 .. Len(Stages)
      /\ \A q \in Requests : request[q].pc # "unsent" => Places(scenario, stage, request[q].call)
  <2>1. pc # "unsent" /\ (Delivered(r) \/ pc \notin AtRest)
    BY <1>0, OrderSteps
  <2> QED
    BY <2>1, StageTells, HarnessAsks DEF Undisturbable
<1>3. /\ call.amount = AMT /\ ~call.crash /\ call.op # "refund"
      /\ call.op = "authorize" => stage = 1
      /\ call.op = "read" => stage = Len(Stages)
      /\ call.op = "capture" => stage >= 2 /\ stage # Len(Stages)
  BY <1>2 DEF Places, Stages, Undisturbable
<1>a. \A q \in Requests : q # r => request[q].pc \in AtRest
  BY <1>0, <1>2 DEF OneInside, Delivered, InputGateOpen
<1>b. pc # "commit" => (v.ledger # <<>> => v.state.status = "captured")
  <2>1. \A q \in Requests : q # r => request[q].pc # "commit"
    BY <1>a DEF AtRest
  <2> QED
    BY <2>1 DEF NaiveOK
\* the handler goes to at, and what it writes is as it should be
<1>4. ASSUME NEW at, Moves(r, at), NEW w \in NaiveVersions, (NoWrite /\ w = v) \/ Write(w),
             NaiveStage(w), NaiveCall(request'[r], w),
             \A q \in Requests : q # r => NaiveCall(request[q], w),
             w.ledger # <<>> /\ w.state.status # "captured" => at = "commit"
      PROVE  NaiveOK'
  <2>1. versions' \in Seq(NaiveVersions) /\ versions' # <<>> /\ Cached' = w
    BY <1>4, Appended DEF NoWrite, NaiveOK, Cached
  <2>2. NaiveStage(w)'
    BY <1>4 DEF NaiveStage, Stages
  <2>3. \A q \in Requests : NaiveCall(request'[q], w)
    BY <1>4 DEF Moves
  <2>4. w.ledger # <<>> /\ w.state.status # "captured" => \E q \in Requests : request'[q].pc = "commit"
    BY <1>4 DEF Moves
  <2>5. NaiveStage(Cached)'
    BY <1>4, <2>1 DEF NaiveStage, Stages
  <2> QED
    BY <2>1, <2>3, <2>4, <2>5 DEF NaiveOK
<1>5. ASSUME NoWrite, NEW at, Moves(r, at), NaiveCall(request'[r], v), pc # "commit"
      PROVE  NaiveOK'
  <2>1. \A q \in Requests : NaiveCall(request[q], v)
    BY DEF NaiveOK
  <2> HIDE DEF v
  <2> QED
    BY <1>1, <1>4, <1>5, <1>b, <2>1
<1>6. ASSUME NEW result, NEW written, Leave(r, "responding", result, written)
      PROVE  /\ Moves(r, "responding") /\ request'[r].pc = "responding"
             /\ request'[r].call = call /\ request'[r].result = result
  BY <1>0, <1>6, LeaveIs, LeaveMoves
<1>7. ASSUME NoWrite, NEW at \in {"list", "capture"}, Suspend(r, at, v.state), pc # "commit"
      PROVE  NaiveOK'
  <2>1. Moves(r, at) /\ request'[r].local = v.state /\ request'[r].pc = at
    BY <1>0, <1>7, SuspendMoves DEF Moves
  <2> HIDE DEF v
  <2>2. NaiveCall(request'[r], v)
    BY <1>7, <2>1 DEF NaiveCall
  <2> QED
    BY <1>5, <1>7, <2>1, <2>2
<1>8. Sum(Charge(FirstUuid)) = AMT /\ Charge(FirstUuid) # <<>>
  BY ChargeIs, Zenon
<1>9. /\ v.state.status \in {"new", "authorized", "captured"}
      /\ v.state.status = "captured" => v.ledger = Charge(FirstUuid)
      /\ v.state.status # "new" => v.state.amount = AMT
      /\ v.ledger \in {<<>>, Charge(FirstUuid)}
  BY <1>1, TrialStates DEF NaiveVersions
<1>10. CASE ReadModel(r)
  <2>1. CASE Delivered(r) /\ Op(r, "read") /\ ReadState(r, "list")
    BY <1>7, <2>1 DEF ReadState, Delivered
  <2>2. CASE At(r, "list") /\ NoWrite
              /\ Respond(r, [ok |-> TRUE, status |-> LocalState(r).status, charged |-> Sum(v.ledger)])
    <3> DEFINE result == [ok |-> TRUE, status |-> LocalState(r).status, charged |-> Sum(v.ledger)]
    <3>1. call.op = "read" /\ pc = "list"
      BY <1>0, <2>2 DEF At, Labels
    <3>2. v.ledger = Charge(FirstUuid)
      BY <1>1, <1>3, <1>9, <3>1 DEF NaiveStage
    <3>3. result.charged = AMT
      BY <1>8, <3>2
    <3>4. Leave(r, "responding", result, 0) /\ NoWrite
      BY <2>2 DEF Respond
    <3> HIDE DEF result
    <3>5. /\ Moves(r, "responding") /\ request'[r].pc = "responding"
          /\ request'[r].call = call /\ request'[r].result = result
      BY <1>6, <3>4
    <3> HIDE DEF v
    <3>6. NaiveCall(request'[r], v)
      BY <3>1, <3>3, <3>5 DEF NaiveCall
    <3> QED
      BY <1>5, <3>1, <3>4, <3>5, <3>6
  <2> QED
    BY <1>10, <2>1, <2>2 DEF ReadModel
<1>11. CASE Authorize(r)
  <2> DEFINE w == [v EXCEPT !.state = AuthorizedOrder]
  <2>1. WriteAndRespond(r, w, Ok) /\ call.op = "authorize" /\ pc = "sent"
    <3>1. [NewOrder EXCEPT !.status = "authorized", !.amount = call.amount] = AuthorizedOrder
      BY <1>3, AuthorizedIs
    <3> QED
      BY <1>11, <3>1 DEF Authorize, Op, Call, Delivered
  <2>2. w \in NaiveVersions /\ w.state.status = "authorized" /\ w.ledger = v.ledger
    BY <1>1, TrialAuthorizes DEF NaiveVersions
  <2> HIDE DEF w
  <2>3. stage = 1 /\ stage # Len(Stages)
    BY <1>2, <1>3, <2>1
  <2>4. NaiveStage(w) /\ w.ledger = <<>>
    BY <1>1, <2>2, <2>3 DEF NaiveStage
  <2>5. Leave(r, "responding", Ok, 1) /\ Write(w)
    BY <2>1 DEF WriteAndRespond
  <2>6. Moves(r, "responding") /\ request'[r].pc = "responding" /\ request'[r].call = call
    BY <1>6, <2>5
  <2>7. NaiveCall(request'[r], w)
    BY <2>1, <2>2, <2>6 DEF NaiveCall
  <2>8. ASSUME NEW q \in Requests, q # r PROVE NaiveCall(request[q], w)
    <3>1. request[q].pc \in AtRest /\ NaiveCall(request[q], v)
      BY <1>a, <2>8 DEF NaiveOK
    <3>2. request[q].pc # "unsent" => request[q].call.op = "authorize"
      BY <1>2, <2>3 DEF Places
    <3> QED
      BY <2>2, <3>1, <3>2 DEF NaiveCall, AtRest
  <2> QED
    BY <1>4, <2>2, <2>4, <2>5, <2>6, <2>7, <2>8
<1>12. CASE Delivered(r) /\ Op(r, "capture") /\ ReadState(r, "capture")
  BY <1>7, <1>12 DEF ReadState, Delivered
<1>13. CASE NaiveCharge(r)
  <2>1. pc = "capture" /\ LocalState(r) = v.state /\ call.op = "capture"
    BY <1>0, <1>13 DEF NaiveCharge, At, LocalState, NaiveCall, Labels
  <2>2. stage >= 2 /\ stage # Len(Stages) /\ v.state.status \in {"authorized", "captured"}
    BY <1>1, <1>3, <1>9, <2>1 DEF NaiveStage
  <2>3. CASE v.state.status = "captured" /\ NoWrite /\ Respond(r, Already)
    <3>1. Moves(r, "responding") /\ request'[r].pc = "responding" /\ request'[r].call = call
      BY <1>6, <2>3 DEF Respond
    <3>2. NaiveCall(request'[r], v)
      BY <2>1, <2>3, <3>1 DEF NaiveCall
    <3> QED
      BY <1>5, <2>1, <2>3, <3>1, <3>2
  <2>4. CASE v.state.status = "authorized" /\ Write(Charged(v, Uuid, v.state.amount)) /\ Suspend(r, "commit", v.state)
    <3> DEFINE w == Charged(v, FirstUuid, v.state.amount)
    <3>1. v.ledger = <<>>
      BY <1>9, <1>b, <2>1, <2>4
    <3>2. Uuid = FirstUuid
      <4>1. Cardinality(DOMAIN v.ledger) = 0
        BY <3>1, ChargeIs, FS_EmptySet
      <4> QED
        BY <4>1 DEF Uuid, FirstUuid
    <3>3. v.state.amount = AMT
      BY <1>9, <2>4
    <3>4. w \in NaiveVersions /\ w.state = v.state /\ w.ledger = Charge(FirstUuid)
      BY <1>1, <3>3, TrialCharges DEF NaiveVersions
    <3>5. Write(w)
      BY <2>4, <3>2
    <3> HIDE DEF w
    <3>6. Moves(r, "commit") /\ request'[r].local = v.state /\ request'[r].pc = "commit"
      BY <1>0, <2>4, SuspendMoves DEF Moves
    <3>7. NaiveCall(request'[r], w)
      BY <2>4, <3>4, <3>6 DEF NaiveCall
    <3>8. NaiveStage(w)
      BY <1>1, <1>2, <2>2, <3>4 DEF NaiveStage
    <3>9. ASSUME NEW q \in Requests, q # r PROVE NaiveCall(request[q], w)
      <4>1. request[q].pc \in AtRest /\ NaiveCall(request[q], v)
        BY <1>a, <3>9 DEF NaiveOK
      <4> QED
        BY <3>4, <4>1 DEF NaiveCall, AtRest
    <3> QED
      BY <1>4, <3>4, <3>5, <3>6, <3>7, <3>8, <3>9
  <2> QED
    BY <1>13, <2>1, <2>2, <2>3, <2>4 DEF NaiveCharge
<1>14. CASE NaiveCommit(r)
  <2> DEFINE w == WithStatus(v, v.state, "captured")
  <2>1. /\ pc = "commit" /\ LocalState(r) = v.state /\ call.op = "capture"
        /\ v.state.status = "authorized" /\ v.ledger = Charge(FirstUuid)
    BY <1>0, <1>14 DEF NaiveCommit, At, LocalState, NaiveCall, Labels
  <2>2. WriteAndRespond(r, w, Ok)
    BY <1>3, <1>14, <2>1 DEF NaiveCommit, Call
  <2>3. w \in NaiveVersions /\ w.state.status = "captured" /\ w.ledger = v.ledger
    BY <1>1, <2>1, TrialCommits DEF NaiveVersions
  <2> HIDE DEF w
  <2>4. NaiveStage(w)
    BY <1>2, <1>3, <2>1, <2>3 DEF NaiveStage
  <2>5. Leave(r, "responding", Ok, 1) /\ Write(w)
    BY <2>2 DEF WriteAndRespond
  <2>6. Moves(r, "responding") /\ request'[r].pc = "responding" /\ request'[r].call = call
    BY <1>6, <2>5
  <2>7. NaiveCall(request'[r], w)
    BY <2>1, <2>3, <2>6 DEF NaiveCall
  <2>8. ASSUME NEW q \in Requests, q # r PROVE NaiveCall(request[q], w)
    <3>1. request[q].pc \in AtRest /\ NaiveCall(request[q], v)
      BY <1>a, <2>8 DEF NaiveOK
    <3> QED
      BY <2>3, <3>1 DEF NaiveCall, AtRest
  <2> QED
    BY <1>4, <2>3, <2>4, <2>5, <2>6, <2>7, <2>8
<1>15. CASE NaiveRefund(r)
  BY <1>0, <1>3, <1>15 DEF NaiveRefund, At, Op, Call, Labels
<1> QED
  BY <1>10, <1>11, <1>12, <1>13, <1>14, <1>15 DEF NaiveOrder

LEMMA NaiveStart == ASSUME Init, 1 \in Requests PROVE NaiveInv
<1> SUFFICES ASSUME Undisturbable PROVE NaiveOK
  BY DEF NaiveInv
<1>1. \A r \in Requests : request[r].pc = "unsent"
  BY DEF Init, StorageInit, Unsent
<1>2. versions = <<EmptyStorage>> /\ stage = 0 /\ Len(Stages) \in {3, 4} /\ Class = "naive"
  BY HarnessAsks DEF Init, StorageInit, Undisturbable
<1>3. NewOrder.status = "new"
  BY DEF NewOrder
<1>4. EmptyStorage \in NaiveVersions /\ EmptyStorage.ledger = <<>>
  BY <1>2, <1>3 DEF EmptyStorage, NaiveVersions, TrialVersions, TrialRecords
<1> DEFINE e == EmptyStorage
<1> HIDE DEF e
<1>5. versions = <<e>> /\ e \in NaiveVersions /\ e.ledger = <<>>
  BY <1>2, <1>4 DEF e
<1>6. versions \in Seq(NaiveVersions) /\ versions # <<>> /\ versions[Len(versions)] = e
  BY <1>5
<1>7. Cached = e
  BY <1>6, LastVersion
<1> QED
  BY <1>1, <1>2, <1>5, <1>6, <1>7 DEF NaiveOK, NaiveStage, NaiveCall

\* What the object reads when a stage ends.
LEMMA NaiveNextStage ==
  ASSUME 1 \in Requests, Undisturbable, HarnessInv, NaiveOK, NextStage
  PROVE  NaiveOK'
<1> DEFINE x == request[1]
<1>1. /\ stage' = stage + 1 /\ stage < Len(Stages) /\ AllSettled /\ UNCHANGED <<versions, scenario>>
      /\ Len(Stages) \in {3, 4} /\ stage \in Nat /\ Stages' = Stages /\ InHarness
  BY HarnessAsks DEF NextStage, HarnessInv, Common, Stages, Undisturbable
<1>2. \A r \in Requests : request'[r].pc \in {"unsent", "sent"}
  BY <1>1, SentNow
<1>3. Cached' = Cached
  BY <1>1 DEF Cached
<1>4. stage # 0 => /\ x.pc # "unsent" /\ Places(scenario, stage, x.call)
                   /\ ~x.call.crash => x.pc = "answered"
  BY <1>1, StageAnswered
<1>5. stage = 1 => Cached.state.status # "new"
  <2> SUFFICES ASSUME stage = 1 PROVE Cached.state.status # "new"
    OBVIOUS
  <2>1. x.call.op = "authorize" /\ ~x.call.crash
    BY <1>4 DEF Places
  <2> QED
    BY <1>4, <2>1 DEF NaiveOK, NaiveCall
<1>6. stage + 1 = Len(Stages) => Cached.state.status = "captured"
  <2> SUFFICES ASSUME stage + 1 = Len(Stages) PROVE Cached.state.status = "captured"
    OBVIOUS
  <2>1. Places(scenario, stage, x.call) /\ stage # 0 /\ stage # 1 /\ stage # Len(Stages)
    BY <1>1, <1>4
  <2>2. x.call.op = "capture" /\ ~x.call.crash
    BY <2>1 DEF Places, Stages, Undisturbable
  <2> QED
    BY <1>4, <2>1, <2>2 DEF NaiveOK, NaiveCall
<1>7. \A r \in Requests : request[r].pc # "commit"
  BY <1>1 DEF AllSettled, Settled
<1>8. Cached.ledger # <<>> => Cached.state.status = "captured"
  BY <1>7 DEF NaiveOK
<1>9. stage + 1 <= 1 => Cached.ledger = <<>>
  BY <1>1 DEF NaiveOK, NaiveStage
<1>10. /\ stage + 1 >= 2 => Cached.state.status # "new"
       /\ stage + 1 = Len(Stages) => Cached.state.status = "captured"
  BY <1>1, <1>5, <1>6 DEF NaiveOK, NaiveStage
<1>11. NaiveStage(Cached)'
  BY <1>1, <1>3, <1>9, <1>10 DEF NaiveStage
<1>12. \A r \in Requests : NaiveCall(request'[r], Cached')
  BY <1>2 DEF NaiveCall
<1> QED
  BY <1>1, <1>3, <1>8, <1>11, <1>12 DEF NaiveOK

LEMMA NaivePlatform ==
  ASSUME 1 \in Requests, Undisturbable, HarnessInv, NaiveOK, Platform, restarts' = 0
  PROVE  NaiveOK'
<1>1. Common /\ restarts \in Nat /\ restarts = 0
  BY DEF HarnessInv, Stated, Undisturbable
<1>2. /\ UNCHANGED versions \/ (Len(versions) > 1 /\ versions' = Tail(versions))
      /\ Undisturbed /\ UNCHANGED <<scenario, stage>>
      /\ \A r \in Requests : request'[r].call = request[r].call
  <2>1. restarts' # restarts + 1
    BY <1>1
  <2> QED
    BY <1>1, <2>1, PlatformKeepsCommon DEF Platform
<1>3. versions' \in Seq(NaiveVersions) /\ versions' # <<>> /\ Cached' = Cached
  <2>1. CASE UNCHANGED versions
    BY <2>1 DEF NaiveOK, Cached
  <2>2. CASE Len(versions) > 1 /\ versions' = Tail(versions)
    BY <2>2, Flushed DEF NaiveOK
  <2> QED
    BY <1>2, <2>1, <2>2
<1>4. \A r \in Requests :
        /\ request'[r].pc = "threw" => request[r].pc = "threw"
        /\ request'[r].pc \in {"responding", "answered"} =>
              request[r].pc \in {"responding", "answered"} /\ request'[r].result = request[r].result
  BY <1>1, PlatformRests
<1>5. \A r \in Requests : NaiveCall(request'[r], Cached)
  <2> TAKE r \in Requests
  <2>1. NaiveCall(request[r], Cached)
    BY DEF NaiveOK
  <2>2. \/ request[r].pc \in AtRest /\ request'[r].pc \in AtRest
        \/ request'[r].pc = request[r].pc /\ request'[r].local = request[r].local
    BY <1>2 DEF Undisturbed
  <2> QED
    BY <1>2, <1>4, <2>1, <2>2 DEF NaiveCall, AtRest
<1>6. (\E r \in Requests : request[r].pc = "commit") => \E r \in Requests : request'[r].pc = "commit"
  BY <1>2 DEF Undisturbed, AtRest
<1>7. NaiveStage(Cached)'
  BY <1>2, <1>3 DEF NaiveOK, NaiveStage, Stages
<1> QED
  BY <1>3, <1>5, <1>6, <1>7 DEF NaiveOK

LEMMA NaiveNext ==
  ASSUME 1 \in Requests, HarnessInv, NaiveInv, [Next]_vars
  PROVE  NaiveInv'
<1>0. UNCHANGED scenario /\ (restarts' = restarts \/ Platform)
  BY DEF Next, vars, NextStage, Retry, Handler, Platform
<1> SUFFICES ASSUME Undisturbable' PROVE NaiveOK'
  BY DEF NaiveInv
<1>1. InHarness /\ Class = "naive" /\ restarts' = 0
  BY <1>0 DEF Undisturbable, InHarness, Class
<1>2. restarts = 0
  <2>1. restarts \in Nat /\ Common
    BY <1>1 DEF HarnessInv, Stated
  <2>2. CASE Platform
    BY <1>1, <2>1, <2>2, PlatformKeepsCommon
  <2> QED
    BY <1>0, <1>1, <2>2
<1>3. Undisturbable /\ NaiveOK /\ Common
  BY <1>0, <1>1, <1>2 DEF Undisturbable, NaiveInv, HarnessInv
<1>4. CASE NextStage
  BY <1>3, <1>4, NaiveNextStage
<1>5. CASE \E r \in Requests : Retry(r)
  <2> PICK r \in Requests : Retry(r)
    BY <1>5
  <2>1. request[r].pc # "threw"
    BY <1>3 DEF NaiveOK, NaiveCall
  <2> QED
    BY <2>1 DEF Retry
<1>6. CASE \E r \in Requests : Handler(r)
  <2> PICK r \in Requests : Handler(r)
    BY <1>6
  <2>1. NaiveOrder(r) /\ UNCHANGED <<scenario, stage>>
    BY <1>1 DEF Handler
  <2> QED
    BY <1>3, <2>1, NaiveKeeps
<1>7. CASE Platform
  BY <1>1, <1>3, <1>7, NaivePlatform
<1>8. CASE UNCHANGED vars
  BY <1>3, <1>8 DEF vars, NaiveOK, NaiveStage, Stages, Cached
<1> QED
  BY <1>4, <1>5, <1>6, <1>7, <1>8 DEF Next

\* The verdict, once a scenario has ended with its reading: request 1 was answered.
LEMMA VerdictHolds ==
  ASSUME 1 \in Requests, InHarness, HarnessInv, TrialInv, NaiveInv
  PROVE  Verdict
<1> SUFFICES ASSUME Ended,
                    ~(Class = "naive" /\ (restarts > 0 \/ scenario.name \in {"crash", "invalid"}))
             PROVE  request[1].result.charged = scenario.expected
  BY DEF Verdict
<1>1. /\ Class \in {"naive", "statem"} /\ Len(Stages) \in {3, 4} /\ stage = Len(Stages)
      /\ scenario.expected = (IF Invalid THEN 0 ELSE AMT) /\ restarts \in Nat /\ AllSettled
  BY HarnessAsks DEF Ended, HarnessInv, Stated
<1>2. /\ Places(scenario, stage, request[1].call)
      /\ ~request[1].call.crash => request[1].pc = "answered"
  BY <1>1, StageAnswered
<1>3. request[1].call.op = "read" /\ request[1].pc = "answered"
  BY <1>1, <1>2 DEF Places, Stages
<1>4. CASE Class = "statem"
  BY <1>3, <1>4 DEF TrialInv, TrialOK, Replied, Told
<1>5. CASE Class = "naive"
  <2>1. Undisturbable /\ ~Invalid
    BY <1>1, <1>5 DEF Undisturbable, Invalid
  <2> QED
    BY <1>1, <1>3, <2>1 DEF NaiveInv, NaiveOK, NaiveCall
<1> QED
  BY <1>1, <1>4, <1>5

\* The table of attic/spikes/03-durable-statem-eval/README.md:25-31, for any
\* number of concurrent captures: in every scenario of the harness
\* (worker.js:79-107) a StatemOrder (worker.js:48-77) has been charged what is
\* expected once the scenario has ended, wherever the object restarts and
\* however often its calls are made again; and so has a NaiveOrder
\* (worker.js:20-45) of the scenarios "happy", "retry" and "concurrent", if
\* nothing restarted.  Other scenarios may be among those that are run.
THEOREM HarnessVerdict ==
  ASSUME OrdersApart, 1 \in Requests
  PROVE  Spec => [](InHarness => Verdict)
<1>1. Init => AnswerInv /\ HarnessInv /\ TrialInv /\ NaiveInv
  BY AnswerStart, HarnessStart, TrialStart, NaiveStart
<1>2. AnswerInv /\ HarnessInv /\ TrialInv /\ NaiveInv /\ [Next]_vars
        => (AnswerInv /\ HarnessInv /\ TrialInv /\ NaiveInv)'
  BY AnswerNext, HarnessNext, TrialNext, NaiveNext
<1>3. AnswerInv /\ HarnessInv /\ TrialInv /\ NaiveInv => (InHarness => Verdict)
  BY VerdictHolds
<1> QED
  BY <1>1, <1>2, <1>3, PTL DEF Spec
=============================================================================
