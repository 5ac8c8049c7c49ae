------------------------------ MODULE Receive ------------------------------
(***************************************************************************)
(* `receive' as emit.ex compiles it: the opcodes loop_rec, remove_message,  *)
(* loop_rec_end, wait and wait_timeout over the mailbox and the cursor that *)
(* runtime/scheduler.mjs keeps for one process.  The other processes only   *)
(* send to it, and only while it does not execute; the process also sends   *)
(* to itself.                                                              *)
(***************************************************************************)
EXTENDS Integers, Sequences

CONSTANTS
  Msg,          \* message contents, as far as the clauses tell them apart
  Receives,     \* the receive expressions of the program: [accepts, after]
  NoReceive, Expired,
  MaxMail       \* bound: senders stop at this mailbox length

ASSUME ReceiveAssumption ==
  /\ Receives \subseteq [accepts : SUBSET Msg, after : {"infinity", "finite", "zero"}]
  /\ NoReceive \notin Receives /\ Expired \notin Msg
  /\ MaxMail \in Nat

VARIABLES
  mailbox,      \* p.mailbox
  cursor,       \* p.cursor: the messages this scan has passed over
  status,       \* p.status
  timer,        \* p.timer is armed
  timedOut,     \* p.timedOut
  pc,           \* where the compiled code is, or where it is suspended
  receive,      \* the receive being evaluated
  result        \* what the last receive answered

vars == <<mailbox, cursor, status, timer, timedOut, pc, receive, result>>

\* the suspension points: recv_wait, recv_wait_timeout, hibernate's recv_wait, yield
Suspended == {"wait", "wait_timeout", "hibernate", "yield"}

Init ==
  /\ mailbox = <<>> /\ cursor = 0
  /\ status = "running" /\ timer = FALSE /\ timedOut = FALSE
  /\ pc = "body" /\ receive = NoReceive /\ result = Expired

Without(s, i) == [k \in 1 .. Len(s) - 1 |-> s[IF k < i THEN k ELSE k + 1]]

-----------------------------------------------------------------------------
(* The process's own steps, while it executes.                             *)

At(label) == status = "running" /\ pc = label

Enter(r) ==
  /\ At("body")
  /\ receive' = r /\ pc' = "loop_rec"
  /\ UNCHANGED <<mailbox, cursor, status, timer, timedOut, result>>

\* recv_has, then recv_cur
LoopRec ==
  /\ At("loop_rec")
  /\ pc' = IF cursor < Len(mailbox) THEN "match" ELSE "empty"
  /\ UNCHANGED <<mailbox, cursor, status, timer, timedOut, receive, result>>

Accepted == mailbox[cursor + 1] \in receive.accepts

\* mutants: recv_remove that leaves the cursor where it is, or moves it on
RemoveMessageKeepsCursor ==
  /\ At("match") /\ Accepted
  /\ mailbox' = Without(mailbox, cursor + 1)
  /\ result' = mailbox[cursor + 1]
  /\ pc' = "body" /\ receive' = NoReceive
  /\ UNCHANGED <<cursor, status, timer, timedOut>>
RemoveMessageAdvances ==
  /\ At("match") /\ Accepted
  /\ mailbox' = Without(mailbox, cursor + 1) /\ cursor' = cursor + 1
  /\ result' = mailbox[cursor + 1]
  /\ pc' = "body" /\ receive' = NoReceive
  /\ UNCHANGED <<status, timer, timedOut>>
RemoveMessage ==
  /\ At("match") /\ Accepted
  /\ mailbox' = Without(mailbox, cursor + 1) /\ cursor' = 0
  /\ result' = mailbox[cursor + 1]
  /\ pc' = "body" /\ receive' = NoReceive
  /\ UNCHANGED <<status, timer, timedOut>>

LoopRecEnd ==
  /\ At("match") /\ ~Accepted
  /\ cursor' = cursor + 1 /\ pc' = "loop_rec"
  /\ UNCHANGED <<mailbox, status, timer, timedOut, receive, result>>

\* mutant: recv_wait that does not go back to the first message
WaitKeepsCursor ==
  /\ At("empty") /\ receive.after = "infinity"
  /\ status' = "waiting" /\ pc' = "wait"
  /\ UNCHANGED <<mailbox, cursor, timer, timedOut, receive, result>>
Wait ==
  /\ At("empty") /\ receive.after = "infinity"
  /\ status' = "waiting" /\ cursor' = 0 /\ pc' = "wait"
  /\ UNCHANGED <<mailbox, timer, timedOut, receive, result>>

WaitTimeout ==
  /\ At("empty") /\ receive.after = "finite"
  /\ status' = "waiting" /\ cursor' = 0 /\ pc' = "wait_timeout"
  /\ timer' = TRUE /\ timedOut' = FALSE
  /\ UNCHANGED <<mailbox, receive, result>>

\* `after 0' emits no wait: the timeout opcode is a no-op that leaves the cursor
Timeout ==
  /\ At("empty") /\ receive.after = "zero"
  /\ pc' = "body" /\ receive' = NoReceive /\ result' = Expired
  /\ UNCHANGED <<mailbox, cursor, status, timer, timedOut>>

\* the process sends to itself: wake() finds it running
SendSelf(m) ==
  /\ At("body") /\ Len(mailbox) < MaxMail
  /\ mailbox' = Append(mailbox, m)
  /\ UNCHANGED <<cursor, status, timer, timedOut, pc, receive, result>>

\* the reduction budget is only counted at function entries, never in a scan
Yield ==
  /\ At("body")
  /\ status' = "ready" /\ pc' = "yield"
  /\ UNCHANGED <<mailbox, cursor, timer, timedOut, receive, result>>

\* hibernate/3: recv_wait whatever the mailbox holds, then the continuation function
Hibernate ==
  /\ At("body")
  /\ status' = "waiting" /\ cursor' = 0 /\ pc' = "hibernate"
  /\ UNCHANGED <<mailbox, timer, timedOut, receive, result>>

-----------------------------------------------------------------------------
(* The scheduler and the other processes, while it does not.               *)

\* mutant: wake() that leaves the process parked
WakeNever == UNCHANGED <<status, timer>>
Wake ==
  IF status = "waiting" THEN status' = "runnable" /\ timer' = FALSE
                        ELSE UNCHANGED <<status, timer>>

Send(m) ==
  /\ status # "running" /\ Len(mailbox) < MaxMail
  /\ mailbox' = Append(mailbox, m)
  /\ Wake
  /\ UNCHANGED <<cursor, timedOut, pc, receive, result>>

TimerFires ==
  /\ timer /\ status = "waiting"
  /\ status' = "ready" /\ timedOut' = TRUE /\ timer' = FALSE
  /\ UNCHANGED <<mailbox, cursor, pc, receive, result>>

\* p.resolve: recv_wait_timeout answers 0 when the timer fired, and the code falls
\* through to the `after' body; otherwise it jumps back to the scan
Resume ==
  /\ status \in {"runnable", "ready"} /\ status' = "running"
  /\ \/ /\ pc = "wait" \/ (pc = "wait_timeout" /\ ~timedOut)
        /\ pc' = "loop_rec"
        /\ UNCHANGED <<receive, result>>
     \/ /\ pc = "wait_timeout" /\ timedOut
        /\ pc' = "body" /\ receive' = NoReceive /\ result' = Expired
     \/ /\ pc \in {"hibernate", "yield"}
        /\ pc' = "body"
        /\ UNCHANGED <<receive, result>>
  /\ UNCHANGED <<mailbox, cursor, timer, timedOut>>

-----------------------------------------------------------------------------
Execute ==
  \/ \E r \in Receives : Enter(r)
  \/ LoopRec \/ RemoveMessage \/ LoopRecEnd \/ Wait \/ WaitTimeout \/ Timeout
  \/ \E m \in Msg : SendSelf(m)
  \/ Yield \/ Hibernate

Scheduled == Resume \/ TimerFires \/ \E m \in Msg : Send(m)

Next == Execute \/ Scheduled

Spec == Init /\ [][Next]_vars

(* A process that is queued is resumed (EveryJobRuns of Scheduler.tla), and  *)
(* an executing one goes on.  Nothing makes senders send or a timer fire.   *)
FairSpec == Spec /\ WF_vars(Execute) /\ WF_vars(Resume)

-----------------------------------------------------------------------------
(* Properties.                                                             *)

\* The shape of one process's receive state.
TypeOK ==
  /\ mailbox \in Seq(Msg) /\ cursor \in 0 .. Len(mailbox)
  /\ status \in {"running", "waiting", "ready", "runnable"}
  /\ timer \in BOOLEAN /\ timedOut \in BOOLEAN
  /\ pc \in {"body", "loop_rec", "match", "empty"} \cup Suspended
  /\ receive \in Receives \cup {NoReceive}
  /\ result \in Msg \cup {Expired}

\* What a scan has passed over does not match: a match is taken in arrival order,
\* and the end of the mailbox means that nothing in it matches.
Scanning == pc \in {"loop_rec", "match", "empty"}
PassedOver ==
  /\ Scanning => \A i \in 1 .. cursor : mailbox[i] \notin receive.accepts
  /\ pc = "match" => cursor < Len(mailbox)
  /\ pc = "empty" => cursor = Len(mailbox)
  /\ ~Scanning => cursor = 0

\* runtime/README.md:60, "runs synchronously until it parks at recv_wait
\* (empty/no-match mailbox)": a process parked in a receive has nothing it could
\* receive, so no message waits for the next one to wake its receiver.
ParkedMeansNoMatch ==
  status = "waiting" /\ pc # "hibernate" =>
    \A i \in 1 .. Len(mailbox) : mailbox[i] \notin receive.accepts

\* the receive has expired, although its process has not been resumed yet
HasExpired == pc = "wait_timeout" /\ status = "ready"

Promise == INSTANCE Mailbox WITH
  box <- mailbox,
  want <- IF HasExpired THEN NoReceive ELSE receive,
  result <- IF HasExpired THEN Expired ELSE result

\* The compiled receive keeps Mailbox.tla's promise, its liveness included.
KeepsPromise == Promise!Spec
=============================================================================
