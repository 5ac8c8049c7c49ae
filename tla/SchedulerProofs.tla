-------------------------- MODULE SchedulerProofs --------------------------
(***************************************************************************)
(* Theorems about Scheduler.tla for any number of processes, references,    *)
(* names and reasons, any mailbox length and any budget.                    *)
(***************************************************************************)
EXTENDS Scheduler, SequenceTheorems, TLAPS

-----------------------------------------------------------------------------
(* The shape of the state, by the operators the actions are built from.    *)

Status == {"absent", "new", "running", "waiting", "ready", "runnable", "done", "gone"}
Wait == {"none", "wait", "timed", "yield"}

LEMMA MessageType ==
  /\ \A p \in Pid : Data(p) \in Message
  /\ \A p \in Pid, r \in Reasons : Exit(p, r) \in Message
  /\ \A p \in Pid, r \in Reasons, ref \in Ref : Down(ref, p, r) \in Message
BY SMT DEF Message, Data, Exit, Down

LEMMA EnqueueType ==
  ASSUME TypeOK, NEW p \in Pid, NEW kind \in {"start", "resume"}, Enqueue(p, kind)
  PROVE  runq' \in Seq(Job)
<1>1. <<p, kind>> \in Job /\ runq \in Seq(Job)
  BY DEF Job, TypeOK
<1> QED
  BY <1>1, AppendProperties DEF Enqueue

LEMMA WakeType ==
  ASSUME TypeOK, NEW p \in Pid, Wake(p)
  PROVE  /\ status' \in [Pid -> Status] /\ timer' \in SUBSET Pid
         /\ pendingTimers' \in Int /\ runq' \in Seq(Job)
<1>1. CASE status[p] = "waiting"
  <2>1. <<p, "resume">> \in Job
    BY DEF Job
  <2>2. status' \in [Pid -> Status]
    BY <1>1 DEF Wake, TypeOK, Status
  <2>3. timer' \in SUBSET Pid /\ pendingTimers' \in Int
    BY <1>1 DEF Wake, ClearTimer, TypeOK
  <2>4. runq' \in Seq(Job)
    BY <1>1, <2>1, EnqueueType DEF Wake
  <2> QED
    BY <2>2, <2>3, <2>4
<1>2. CASE status[p] # "waiting"
  BY <1>2 DEF Wake, TypeOK, Status
<1> QED
  BY <1>1, <1>2

LEMMA PostType ==
  ASSUME TypeOK, NEW p \in Pid, NEW msg \in Message, Post(p, msg)
  PROVE  /\ mailbox' \in [Pid -> Seq(Message)]
         /\ status' \in [Pid -> Status] /\ timer' \in SUBSET Pid
         /\ pendingTimers' \in Int /\ runq' \in Seq(Job)
<1>1. Append(mailbox[p], msg) \in Seq(Message)
  BY DEF TypeOK
<1>2. mailbox' \in [Pid -> Seq(Message)]
  BY <1>1 DEF TypeOK, Post
<1> QED
  BY <1>2, WakeType DEF Post

LEMMA BeginFinishType ==
  ASSUME TypeOK, NEW p \in Pid, BeginFinish(p)
  PROVE  /\ status' \in [Pid -> Status] /\ timer' \in SUBSET Pid
         /\ pendingTimers' \in Int /\ parked' \in [Pid -> Wait]
         /\ registry' \in [Names -> Pid \cup {NoPid}]
BY DEF BeginFinish, ClearTimer, TypeOK, Status, Wait

LEMMA UnwoundType ==
  ASSUME NEW p \in Pid, NEW tasks \in Seq(Task)
  PROVE  Unwound(p, tasks) \in Seq(Task)
<1>1. <<"unwind", p>> \in Task
  BY DEF Task
<1> QED
  BY <1>1 DEF Unwound

LEMMA StackStopsType ==
  ASSUME TypeOK, NEW settled \in Seq(Task), StackStops(settled)
  PROVE  slice' = NoPid /\ reds' = 0 /\ micro' \in Seq(Task)
<1>1. LoopTask \in Task /\ <<LoopTask>> \in Seq(Task) /\ micro \in Seq(Task)
  BY DEF Task, TypeOK
<1>2. /\ micro \o settled \in Seq(Task)
      /\ (micro \o <<LoopTask>>) \o settled \in Seq(Task)
      /\ (micro \o settled) \o <<LoopTask>> \in Seq(Task)
  BY <1>1, ConcatProperties
<1> QED
  BY <1>2 DEF StackStops

LEMMA ReasonRefType == ASSUME TypeOK, NEW p \in Pid PROVE ReasonRef(p) \in Reasons
BY SchedulerAssumption DEF TypeOK, ReasonRef

LEMMA FrameType ==
  ASSUME NEW p \in Pid, NEW r \in Reasons, NEW b \in BOOLEAN, NEW t \in SUBSET Pid
  PROVE  Frame(p, r, b, t) \in Activation
BY DEF Frame, Activation

LEMMA InitType == Init => TypeOK
<1> SUFFICES ASSUME Init PROVE TypeOK
  OBVIOUS
<1> USE SchedulerAssumption DEF Init
<1>1. Main \in Pid /\ NoReason \in Reasons \cup {NoReason}
  BY DEF Main, Pid
<1>2. runq \in Seq(Job) /\ micro \in Seq(Task) /\ fin \in Seq(Activation)
  OBVIOUS
<1>3. mailbox \in [Pid -> Seq(Message)] /\ links \in [Pid -> SUBSET Pid]
  OBVIOUS
<1>4. reds \in 0 .. Budget /\ nextPid \in 2 .. MaxPid + 1 /\ nextRef \in 1 .. MaxRef + 1
  OBVIOUS
<1>5. mainDone \in BOOLEAN
  OBVIOUS
<1> QED
  BY <1>1, <1>2, <1>3, <1>4, <1>5 DEF TypeOK

LEMMA TailType == ASSUME NEW S, NEW s \in Seq(S), s # <<>>
                  PROVE  Head(s) \in S /\ Tail(s) \in Seq(S)
BY HeadTailProperties

LEMMA SingletonType == ASSUME NEW S, NEW x \in S PROVE <<x>> \in Seq(S)
OBVIOUS

LEMMA FinishType ==
  ASSUME TypeOK, Finish
  PROVE  TypeOK'
<1> USE DEF TypeOK
<1>0. fin # <<>>
  BY DEF Finish, FinishLink, FinishMonitor, FinishDone
<1>1. Top \in Activation /\ Tail(fin) \in Seq(Activation)
  BY <1>0, TailType DEF Top
<1>2. /\ Top.pid \in Pid /\ Top.reason \in Reasons
      /\ Top.abnormal \in BOOLEAN /\ Top.todo \in SUBSET Pid
  BY <1>1 DEF Activation
<1>3. CASE FinishLink
  <2> PICK q \in Top.todo :
        LET rest == <<[Top EXCEPT !.todo = @ \ {q}]>> \o Tail(fin)
        IN \/ /\ ~Alive(q)
              /\ fin' = rest
              /\ UNCHANGED <<status, mailbox, links, timer, pendingTimers, parked,
                             runq, micro, registry>>
           \/ /\ Alive(q)
              /\ links' = Unlinked(q, Top.pid)
              /\ \/ /\ q \in trapExit
                    /\ Post(q, Exit(Top.pid, Top.reason))
                    /\ fin' = rest
                    /\ UNCHANGED <<parked, micro, registry>>
                 \/ /\ Kills(q)
                    /\ BeginFinish(q)
                    /\ micro' = Unwound(q, micro)
                    /\ fin' = <<Frame(q, Top.reason, TRUE, links[q] \ {Top.pid})>> \o rest
                    /\ UNCHANGED <<mailbox, runq>>
                 \/ /\ q \notin trapExit /\ ~Top.abnormal
                    /\ fin' = rest
                    /\ UNCHANGED <<status, mailbox, timer, pendingTimers, parked,
                                   runq, micro, registry>>
    BY <1>3 DEF FinishLink
  <2> DEFINE rest == <<[Top EXCEPT !.todo = @ \ {q}]>> \o Tail(fin)
             killed == Frame(q, Top.reason, TRUE, links[q] \ {Top.pid})
  <2>1. q \in Pid
    BY <1>2
  <2>2. rest \in Seq(Activation)
    <3>1. [Top EXCEPT !.todo = @ \ {q}] \in Activation
      BY <1>1 DEF Activation
    <3> QED
      BY <1>1, <3>1, ConcatProperties
  <2>3. <<killed>> \o rest \in Seq(Activation)
    <3>1. killed \in Activation
      BY <1>2, <2>1, FrameType
    <3> HIDE DEF killed, rest
    <3>2. <<killed>> \in Seq(Activation)
      BY <3>1, SingletonType
    <3> QED
      BY <2>2, <3>2, ConcatProperties
  <2>4. Unlinked(q, Top.pid) \in [Pid -> SUBSET Pid]
    BY DEF Unlinked
  <2>5. Exit(Top.pid, Top.reason) \in Message
    BY <1>2, MessageType
  <2>6. UNCHANGED <<trapExit, exitReason, timedOut, monitors, nextPid, nextRef,
                    current, slice, reds, loop, mainDone>>
    BY <1>3 DEF FinishLink
  <2>7. fin' \in Seq(Activation) /\ links' \in [Pid -> SUBSET Pid]
    BY <2>2, <2>3, <2>4
  <2>8. /\ status' \in [Pid -> Status] /\ timer' \in SUBSET Pid
        /\ pendingTimers' \in Int /\ runq' \in Seq(Job)
        /\ mailbox' \in [Pid -> Seq(Message)] /\ parked' \in [Pid -> Wait]
        /\ registry' \in [Names -> Pid \cup {NoPid}] /\ micro' \in Seq(Task)
    BY <2>1, <2>5, PostType, BeginFinishType, UnwoundType DEF Status, Wait
  <2> QED
    BY <2>6, <2>7, <2>8 DEF Status, Wait
<1>4. CASE FinishMonitor
  <2> PICK m \in monitors :
        /\ m.target = Top.pid
        /\ monitors' = monitors \ {m}
        /\ IF Alive(m.by) THEN Post(m.by, Down(m.ref, Top.pid, Top.reason))
                          ELSE UNCHANGED <<mailbox, status, timer, pendingTimers, runq>>
    BY <1>4 DEF FinishMonitor
  <2>1. m.by \in Pid /\ m.ref \in Ref
    BY DEF Monitor
  <2>2. Down(m.ref, Top.pid, Top.reason) \in Message
    BY <1>2, <2>1, MessageType
  <2>3. /\ status' \in [Pid -> Status] /\ timer' \in SUBSET Pid
        /\ pendingTimers' \in Int /\ runq' \in Seq(Job)
        /\ mailbox' \in [Pid -> Seq(Message)]
    BY <2>1, <2>2, PostType DEF Status
  <2> QED
    BY <1>4, <2>3 DEF FinishMonitor, Status
<1>5. CASE FinishDone
  <2>1. /\ monitors' \in SUBSET Monitor
        /\ trapExit' \in SUBSET Pid /\ timedOut' \in SUBSET Pid
    BY <1>5 DEF FinishDone
  <2>2. fin' \in Seq(Activation)
    BY <1>1, <1>5 DEF FinishDone
  <2>3. /\ status' \in [Pid -> Status] /\ links' \in [Pid -> SUBSET Pid]
        /\ exitReason' \in [Pid -> Reasons \cup {NoReason}]
    BY <1>5 DEF FinishDone, Status
  <2>4. mailbox' \in [Pid -> Seq(Message)]
    <3>1. <<>> \in Seq(Message)
      OBVIOUS
    <3> QED
      BY <1>5, <3>1 DEF FinishDone
  <2> QED
    BY <1>5, <2>1, <2>2, <2>3, <2>4 DEF FinishDone, Status
<1> QED
  BY <1>3, <1>4, <1>5 DEF Finish

LEMMA DispatchType ==
  ASSUME TypeOK, runq # <<>>, Dispatch(Head(runq)[1])
  PROVE  /\ Head(runq)[1] \in Pid /\ status' \in [Pid -> Status] /\ current' \in Pid
         /\ reds' \in 0 .. Budget /\ runq' \in Seq(Job)
<1>1. Head(runq) \in Job /\ Tail(runq) \in Seq(Job)
  BY TailType DEF TypeOK
<1>2. Head(runq)[1] \in Pid
  BY <1>1 DEF Job
<1> QED
  BY <1>1, <1>2, SchedulerAssumption DEF Dispatch, TypeOK, Status

LEMMA LoopType ==
  ASSUME TypeOK, Loop
  PROVE  TypeOK'
<1> USE DEF TypeOK
<1>1. ASSUME LoopTurn
      PROVE  Tail(micro) \in Seq(Task) /\ Append(Tail(micro), LoopTask) \in Seq(Task)
  <2>1. Tail(micro) \in Seq(Task) /\ LoopTask \in Task
    BY <1>1, TailType DEF LoopTurn, EngineTurn, Task
  <2> QED
    BY <2>1, AppendProperties
<1>2. CASE DispatchStart
  <2>1. Tail(micro) \in Seq(Task)
    BY <1>1, <1>2 DEF DispatchStart, LoopRuns
  <2>2. /\ Head(runq)[1] \in Pid /\ status' \in [Pid -> Status] /\ current' \in Pid
        /\ reds' \in 0 .. Budget /\ runq' \in Seq(Job)
    BY <1>2, DispatchType DEF DispatchStart
  <2> QED
    BY <1>2, <2>1, <2>2 DEF DispatchStart, parkVars, nameVars, Status
<1>3. CASE DispatchResume
  <2>1. /\ Head(runq)[1] \in Pid /\ status' \in [Pid -> Status] /\ current' \in Pid
        /\ reds' \in 0 .. Budget /\ runq' \in Seq(Job)
    BY <1>3, DispatchType DEF DispatchResume
  <2>2. Resume(Head(runq)[1], Tail(micro)) \in Seq(Task)
    <3>1. Tail(micro) \in Seq(Task) /\ Append(Tail(micro), LoopTask) \in Seq(Task)
      BY <1>1, <1>3 DEF DispatchResume, LoopRuns
    <3>2. <<<<"run", Head(runq)[1]>>, LoopTask>> \in Seq(Task)
      BY <2>1 DEF LoopTask, Task
    <3> QED
      BY <3>1, <3>2, ConcatProperties DEF Resume
  <2>3. micro' \in Seq(Task) /\ parked' \in [Pid -> Wait]
    BY <1>3, <2>2 DEF DispatchResume, Wait
  <2> QED
    BY <1>3, <2>1, <2>3 DEF DispatchResume, nameVars, Status, Wait
<1>4. CASE DispatchDead
  BY <1>1, <1>4, TailType DEF DispatchDead, LoopRuns, procVars, parkVars, nameVars
<1>5. CASE LoopSettle
  BY <1>1, <1>5 DEF LoopSettle, LoopRuns, procVars, parkVars, nameVars
<1>6. CASE LoopLeave
  <2>1. LoopTurn /\ micro' = Tail(micro) /\ loop' \in {"idle", "done", "deadlock"}
    BY <1>6 DEF LoopLeave, LoopRuns
  <2> QED
    BY <1>1, <1>6, <2>1 DEF LoopLeave, procVars, parkVars, nameVars
<1>7. CASE IdleEnds
  <2>1. <<LoopTask>> \in Seq(Task)
    BY DEF Task
  <2> QED
    BY <1>7, <2>1 DEF IdleEnds, procVars, parkVars, nameVars
<1> QED
  BY <1>2, <1>3, <1>4, <1>5, <1>6, <1>7 DEF Loop

LEMMA EngineType ==
  ASSUME TypeOK, Engine \/ \E p \in Pid : TimerFires(p)
  PROVE  TypeOK'
<1> USE DEF TypeOK
<1>1. ASSUME NEW p \in Pid, RunStack(p) PROVE TypeOK'
  BY <1>1, TailType DEF RunStack, EngineTurn, procVars, parkVars, nameVars
<1>2. ASSUME NEW p \in Pid, UnwindStack(p) PROVE TypeOK'
  <2>1. <<"throw", p>> \in Task
    BY DEF Task
  <2>2. Append(Tail(micro), <<"throw", p>>) \in Seq(Task)
    BY <1>2, <2>1, TailType, AppendProperties DEF UnwindStack, EngineTurn
  <2> QED
    BY <1>2, <2>2 DEF UnwindStack, procVars, parkVars, nameVars
<1>3. ASSUME NEW p \in Pid, NEW outcome \in {"return", "throw"}, Settle(p, outcome)
      PROVE  TypeOK'
  <2>1. Tail(micro) \in Seq(Task)
    BY <1>3, TailType DEF Settle, EngineTurn
  <2>2. UNCHANGED <<mailbox, links, trapExit, exitReason, timedOut, monitors, nextPid,
                    nextRef, runq, current, slice, reds, loop>>
    BY <1>3 DEF Settle, parkVars
  <2>3. CASE UNCHANGED <<status, parkVars, registry, fin>> /\ micro' = Tail(micro)
             /\ mainDone' \in BOOLEAN
    BY <2>1, <2>2, <2>3 DEF parkVars
  <2>4. CASE /\ BeginFinish(p)
             /\ micro' = Unwound(p, Tail(micro))
             /\ fin' = <<Frame(p, ReasonRef(p), outcome = "throw", links[p])>>
             /\ UNCHANGED <<timedOut, mainDone>>
    <3>1. fin' \in Seq(Activation)
      BY <2>4, ReasonRefType, FrameType, SingletonType
    <3>2. /\ status' \in [Pid -> Status] /\ timer' \in SUBSET Pid
          /\ pendingTimers' \in Int /\ parked' \in [Pid -> Wait]
          /\ registry' \in [Names -> Pid \cup {NoPid}]
      BY <2>4, BeginFinishType
    <3>3. micro' \in Seq(Task)
      BY <2>1, <2>4, UnwoundType
    <3> QED
      BY <2>2, <2>4, <3>1, <3>2, <3>3 DEF Status, Wait
  <2> QED
    BY <1>3, <2>3, <2>4 DEF Settle
<1>4. ASSUME NEW p \in Pid, TimerFires(p) PROVE TypeOK'
  <2>1. runq' \in Seq(Job)
    BY <1>4, EnqueueType DEF TimerFires
  <2>2. status' \in [Pid -> Status] /\ timer' \in SUBSET Pid /\ pendingTimers' \in Int
    BY <1>4 DEF TimerFires, ClearTimer, Status
  <2> QED
    BY <1>4, <2>1, <2>2 DEF TimerFires, nameVars, Status
<1> QED
  BY <1>1, <1>2, <1>3, <1>4 DEF Engine

LEMMA CallType ==
  ASSUME TypeOK, NEW import, Call(import)
  PROVE  reds' \in 0 .. Budget
BY SchedulerAssumption DEF Call, TypeOK

LEMMA NewProcType ==
  ASSUME TypeOK, nextPid <= MaxPid, NewProc(nextPid)
  PROVE  /\ nextPid \in Pid /\ status' \in [Pid -> Status]
         /\ nextPid' \in 2 .. MaxPid + 1
BY SchedulerAssumption DEF NewProc, TypeOK, Pid, Status

LEMMA ImportType ==
  ASSUME TypeOK, Import
  PROVE  TypeOK'
<1> USE DEF TypeOK
<1>1. CASE Spawn
  <2>1. nextPid \in Pid /\ status' \in [Pid -> Status] /\ nextPid' \in 2 .. MaxPid + 1
    BY <1>1, NewProcType DEF Spawn
  <2>2. runq' \in Seq(Job) /\ reds' \in 0 .. Budget
    BY <1>1, <2>1, EnqueueType, CallType DEF Spawn
  <2> QED
    BY <1>1, <2>1, <2>2 DEF Spawn, parkVars, Status
<1>2. CASE SpawnLink
  <2>1. nextPid \in Pid /\ status' \in [Pid -> Status] /\ nextPid' \in 2 .. MaxPid + 1
    BY <1>2, NewProcType DEF SpawnLink
  <2>2. runq' \in Seq(Job) /\ reds' \in 0 .. Budget
    BY <1>2, <2>1, EnqueueType, CallType DEF SpawnLink
  <2>3. links' \in [Pid -> SUBSET Pid]
    BY <1>2, <2>1 DEF SpawnLink
  <2> QED
    BY <1>2, <2>1, <2>2, <2>3 DEF SpawnLink, parkVars, Status
<1>3. CASE SpawnLinkThrows
  <2>1. nextPid \in Pid /\ status' \in [Pid -> Status] /\ nextPid' \in 2 .. MaxPid + 1
    BY <1>3, NewProcType DEF SpawnLinkThrows
  <2>2. <<<<"throw", slice>>>> \in Seq(Task)
    <3>1. <<"throw", slice>> \in Task
      BY <1>3 DEF SpawnLinkThrows, Executing, Task
    <3> QED
      BY <3>1, SingletonType
  <2>3. slice' = NoPid /\ reds' = 0 /\ micro' \in Seq(Task)
    BY <1>3, <2>2, StackStopsType DEF SpawnLinkThrows
  <2>4. links' \in [Pid -> SUBSET Pid]
    BY <1>3, <2>1 DEF SpawnLinkThrows
  <2>5. 0 \in 0 .. Budget
    BY SchedulerAssumption
  <2>6. UNCHANGED <<mailbox, trapExit, exitReason, parkVars, registry, monitors,
                    nextRef, runq, current, loop, mainDone, fin>>
    BY <1>3 DEF SpawnLinkThrows
  <2> QED
    BY <2>1, <2>3, <2>4, <2>5, <2>6 DEF parkVars, Status
<1>4. ASSUME NEW dest, Send(dest) PROVE TypeOK'
  <2>1. reds' \in 0 .. Budget
    BY <1>4, CallType DEF Send
  <2>2. CASE Alive(dest)
    <3>1. dest \in Pid /\ Data(current) \in Message
      BY <2>2, MessageType DEF Alive, Exists
    <3>2. /\ status' \in [Pid -> Status] /\ timer' \in SUBSET Pid
          /\ pendingTimers' \in Int /\ runq' \in Seq(Job)
          /\ mailbox' \in [Pid -> Seq(Message)]
      BY <1>4, <2>2, <3>1, PostType DEF Send
    <3> QED
      BY <1>4, <2>1, <3>2 DEF Send, nameVars, Status
  <2>3. CASE ~Alive(dest)
    BY <1>4, <2>1, <2>3 DEF Send, nameVars
  <2> QED
    BY <2>2, <2>3
<1>5. CASE SendAny
  BY <1>4, <1>5 DEF SendAny
<1>6. ASSUME NEW i \in DOMAIN mailbox[current], Receive(i) PROVE TypeOK'
  <2>1. reds' \in 0 .. Budget
    BY <1>6, CallType DEF Receive
  <2> DEFINE box == mailbox[current]
             n == Len(box) - 1
             without == [k \in 1 .. n |-> box[IF k < i THEN k ELSE k + 1]]
  <2>2. box \in Seq(Message) /\ i \in 1 .. Len(box)
    OBVIOUS
  <2>3. n \in Nat /\ \A k \in 1 .. n : box[IF k < i THEN k ELSE k + 1] \in Message
    BY <2>2
  <2>4. without \in Seq(Message)
    BY <2>3
  <2>5. mailbox' = [mailbox EXCEPT ![current] = without]
    BY <1>6 DEF Receive
  <2>6. mailbox' \in [Pid -> Seq(Message)]
    BY <2>4, <2>5
  <2> QED
    BY <1>6, <2>1, <2>6 DEF Receive, parkVars, nameVars
<1>7. ASSUME NEW v \in BOOLEAN, SetTrapExit(v) PROVE TypeOK'
  BY <1>7, CallType DEF SetTrapExit, parkVars, nameVars
<1>8. ASSUME NEW p \in Pid, NEW r \in Reasons, Exit2(p, r) PROVE TypeOK'
  <2>1. reds' \in 0 .. Budget
    BY <1>8, CallType DEF Exit2
  <2>2. UNCHANGED <<links, trapExit, timedOut, monitors, nextPid, nextRef, current,
                    slice, loop, mainDone>>
    BY <1>8 DEF Exit2
  <2>3. CASE UNCHANGED <<status, mailbox, exitReason, timer, pendingTimers, parked,
                         registry, runq, micro, fin>>
    BY <2>1, <2>2, <2>3
  <2>4. CASE Post(p, Exit(current, r)) /\ UNCHANGED <<exitReason, parked, registry, micro, fin>>
    <3>1. Exit(current, r) \in Message
      BY MessageType
    <3> QED
      BY <2>1, <2>2, <2>4, <3>1, PostType DEF Status
  <2>5. CASE /\ exitReason' = [exitReason EXCEPT ![p] = r]
             /\ BeginFinish(p)
             /\ micro' = Unwound(p, micro)
             /\ fin' = <<Frame(p, r, TRUE, links[p])>>
             /\ UNCHANGED <<mailbox, runq>>
    <3>1. micro' \in Seq(Task) /\ exitReason' \in [Pid -> Reasons \cup {NoReason}]
      BY <2>5, UnwoundType
    <3>2. fin' \in Seq(Activation)
      BY <2>5, FrameType, SingletonType
    <3> QED
      BY <2>1, <2>2, <2>5, <3>1, <3>2, BeginFinishType DEF Status, Wait
  <2> QED
    BY <1>8, <2>3, <2>4, <2>5 DEF Exit2
<1>9. ASSUME NEW n \in Names, NEW p \in Pid, Register(n, p) PROVE TypeOK'
  BY <1>9, CallType DEF Register, procVars, parkVars
<1>10. ASSUME NEW p \in Pid, MonitorProc(p) PROVE TypeOK'
  <2>1. reds' \in 0 .. Budget
    BY <1>10, CallType DEF MonitorProc
  <2>2. nextRef \in Ref /\ nextRef' \in 1 .. MaxRef + 1
    BY <1>10, SchedulerAssumption DEF MonitorProc, Ref
  <2>3. monitors' \in SUBSET Monitor
    BY <1>10, <2>2 DEF MonitorProc, Monitor
  <2> QED
    BY <1>10, <2>1, <2>2, <2>3 DEF MonitorProc, procVars, parkVars
<1>11. ASSUME NEW ref \in Ref, Demonitor(ref) PROVE TypeOK'
  BY <1>11, CallType DEF Demonitor, procVars, parkVars
<1> QED
  BY <1>1, <1>2, <1>3, <1>5, <1>6, <1>7, <1>8, <1>9, <1>10, <1>11 DEF Import

LEMMA StopType ==
  ASSUME TypeOK, Stop
  PROVE  TypeOK'
<1> USE DEF TypeOK
<1>1. <<>> \in Seq(Task) /\ 0 \in 0 .. Budget /\ NoPid \in Pid \cup {NoPid}
  BY SchedulerAssumption
<1>2. ASSUME NEW k \in Wait \ {"none"}, NEW s \in {"waiting", "ready"}, Park(k, s)
      PROVE  /\ status' \in [Pid -> Status] /\ parked' \in [Pid -> Wait]
             /\ slice' = NoPid /\ reds' = 0 /\ micro' \in Seq(Task)
             /\ UNCHANGED <<mailbox, links, trapExit, exitReason, nameVars, current,
                            loop, mainDone, fin>>
  BY <1>1, <1>2, StackStopsType DEF Park, Status, Wait
<1>3. CASE RecvWait
  BY <1>1, <1>2, <1>3 DEF RecvWait, nameVars, Status, Wait
<1>4. CASE RecvWaitTimeout
  BY <1>1, <1>2, <1>4 DEF RecvWaitTimeout, nameVars, Status, Wait
<1>5. CASE Yield
  <2>1. runq' \in Seq(Job)
    BY <1>5, EnqueueType DEF Yield
  <2> QED
    BY <1>1, <1>2, <1>5, <2>1 DEF Yield, nameVars, Status, Wait
<1>6. ASSUME NEW outcome \in {"return", "throw"}, Executing,
             StackStops(<<<<outcome, slice>>>>)
      PROVE  slice' = NoPid /\ reds' = 0 /\ micro' \in Seq(Task)
  <2>1. <<outcome, slice>> \in Task
    BY <1>6 DEF Executing, Task
  <2>2. <<<<outcome, slice>>>> \in Seq(Task)
    BY <2>1, SingletonType
  <2> QED
    BY <1>6, <2>2, StackStopsType
<1>7. CASE Return
  BY <1>1, <1>6, <1>7 DEF Return, procVars, parkVars, nameVars
<1>8. CASE Crash
  BY <1>1, <1>6, <1>8 DEF Crash, procVars, parkVars, nameVars
<1>9. ASSUME NEW r \in Reasons, ExitSelf(r) PROVE TypeOK'
  BY <1>1, <1>6, <1>9 DEF ExitSelf, parkVars, nameVars
<1> QED
  BY <1>3, <1>4, <1>5, <1>7, <1>8, <1>9 DEF Stop

LEMMA StutterType == ASSUME TypeOK, UNCHANGED vars PROVE TypeOK'
BY DEF TypeOK, vars, procVars, parkVars, nameVars, loopVars

LEMMA StepType == TypeOK /\ [Next]_vars => TypeOK'
<1> SUFFICES ASSUME TypeOK, [Next]_vars PROVE TypeOK'
  OBVIOUS
<1>1. CASE Ended \/ UNCHANGED vars
  BY <1>1, StutterType DEF Ended
<1>2. CASE Finish
  BY <1>2, FinishType
<1>3. CASE Loop
  BY <1>3, LoopType
<1>4. CASE Engine \/ \E p \in Pid : TimerFires(p)
  BY <1>4, EngineType
<1>5. CASE Import
  BY <1>5, ImportType
<1>6. CASE Stop
  BY <1>6, StopType
<1> QED
  BY <1>1, <1>2, <1>3, <1>4, <1>5, <1>6 DEF Next

\* The state of the scheduler keeps its shape, whatever the program calls and in
\* whatever order the engine runs what it queued.
THEOREM TypeCorrect == Spec => []TypeOK
BY InitType, StepType, PTL DEF Spec

-----------------------------------------------------------------------------
(* The inductive invariant.  RunQueueSound is not inductive: that a process *)
(* is queued once depends on who may queue it, and so on the engine's order *)
(* of microtasks, on who executes, and on which deaths are under way.       *)

\* pids are handed out in order, and only processes that exist are named
Known ==
  /\ \A p \in Pid : status[p] = "absent" <=> p >= nextPid
  /\ current < nextPid
  /\ \A i \in DOMAIN runq : status[runq[i][1]] # "absent"

Once == \A i, j \in DOMAIN runq : runq[i][1] = runq[j][1] => i = j

AsWhatItIs ==
  \A i \in DOMAIN runq : Alive(runq[i][1]) =>
    IF runq[i][2] = "start" THEN status[runq[i][1]] = "new"
                            ELSE status[runq[i][1]] \in {"ready", "runnable"}

Queued ==
  \A p \in Pid : status[p] \in {"new", "ready", "runnable"} => Enqueued(p) \/ Orphan(p)

\* a process is "done" while its finish() is under way, and has only one
FinSound ==
  /\ \A p \in Pid : status[p] = "done" <=> \E i \in DOMAIN fin : fin[i].pid = p
  /\ \A i, j \in DOMAIN fin : fin[i].pid = fin[j].pid => i = j

Executes == slice # NoPid => current = slice /\ (Alive(slice) => status[slice] = "running")

\* main() has one continuation, and a resumed stack runs before it
MicroOrder ==
  /\ \A i, j \in DOMAIN micro :
       micro[i][1] = micro[j][1] /\ micro[i][1] \in {"loop", "run"} => i = j
  /\ \A i, j \in DOMAIN micro : micro[i][1] = "run" /\ micro[j][1] = "loop" => i < j

RunSound ==
  \A i \in DOMAIN micro : micro[i][1] = "run" =>
    /\ slice = NoPid /\ current = micro[i][2]
    /\ Alive(current) => status[current] = "running"

ProcsInv == Known /\ Once /\ AsWhatItIs /\ NoAbandonedStack
EngineInv == Executes /\ MicroOrder /\ RunSound /\ RunningSettles
IInv == ProcsInv /\ Queued /\ FinSound /\ EngineInv

LEMMA InitIInv == Init => IInv
<1> SUFFICES ASSUME Init PROVE IInv
  OBVIOUS
<1> USE SchedulerAssumption DEF Init
<1>1. Main \in Pid /\ Main < 2 /\ \A p \in Pid : p # Main => p >= 2
  BY DEF Main, Pid
<1>2. ProcsInv
  BY <1>1 DEF ProcsInv, Known, Once, AsWhatItIs, NoAbandonedStack
<1>3. Queued
  BY DEF Queued
<1>4. FinSound
  BY DEF FinSound
<1>5. Executes
  BY <1>1 DEF Executes
<1>6. MicroOrder /\ RunSound
  BY DEF MicroOrder, RunSound
<1>7. RunningSettles
  BY DEF RunningSettles
<1> QED
  BY <1>2, <1>3, <1>4, <1>5, <1>6, <1>7 DEF IInv, EngineInv

LEMMA AppendJob ==
  ASSUME TypeOK, NEW p \in Pid, NEW kind \in {"start", "resume"}, Enqueue(p, kind)
  PROVE  /\ Len(runq) \in Nat
         /\ DOMAIN runq = 1 .. Len(runq) /\ DOMAIN runq' = 1 .. Len(runq) + 1
         /\ \A i \in 1 .. Len(runq) : runq'[i] = runq[i]
         /\ runq'[Len(runq) + 1] = <<p, kind>>
<1>1. <<p, kind>> \in Job /\ runq \in Seq(Job)
  BY DEF Job, TypeOK
<1> QED
  BY <1>1, AppendProperties, LenProperties DEF Enqueue

(* Waking a process, by wake() or by its timer.                            *)

Woken(p) ==
  /\ status[p] = "waiting" /\ Enqueue(p, "resume")
  /\ \E as \in {"ready", "runnable"} : status' = [status EXCEPT ![p] = as]
MayWake(p) == Woken(p) \/ UNCHANGED <<status, runq>>

LEMMA WakeMayWake == ASSUME NEW p \in Pid, Wake(p) PROVE MayWake(p)
BY DEF Wake, MayWake, Woken

LEMMA WakeProcs ==
  ASSUME TypeOK, ProcsInv, NEW p \in Pid, MayWake(p), UNCHANGED <<parked, nextPid, current>>
  PROVE  ProcsInv'
<1> USE DEF ProcsInv
<1>1. CASE UNCHANGED <<status, runq>>
  BY <1>1 DEF Known, Once, AsWhatItIs, NoAbandonedStack, Alive, Exists
<1>2. CASE Woken(p)
  <2>1. /\ Len(runq) \in Nat
        /\ DOMAIN runq = 1 .. Len(runq) /\ DOMAIN runq' = 1 .. Len(runq) + 1
        /\ \A i \in 1 .. Len(runq) : runq'[i] = runq[i]
        /\ runq'[Len(runq) + 1] = <<p, "resume">>
    BY <1>2, AppendJob DEF Woken
  <2>2. /\ status' \in {[status EXCEPT ![p] = as] : as \in {"ready", "runnable"}}
        /\ status \in [Pid -> Status] /\ status[p] = "waiting"
    BY <1>2 DEF Woken, TypeOK, Status
  <2>3. \A i \in 1 .. Len(runq) : runq[i][1] \in Pid
    BY DEF TypeOK, Job
  <2>4. \A i \in 1 .. Len(runq) : runq[i][1] # p
    \* a waiting process is alive, so its entries would say otherwise
    BY <2>1, <2>2 DEF AsWhatItIs, Alive, Exists
  <2>5. Known'
    BY <2>1, <2>2, <2>3 DEF Known
  <2>6. Once'
    BY <2>1, <2>4 DEF Once
  <2>7. AsWhatItIs'
    BY <2>1, <2>2, <2>3, <2>4 DEF AsWhatItIs, Alive, Exists
  <2>8. NoAbandonedStack'
    BY <2>2 DEF NoAbandonedStack
  <2> QED
    BY <2>5, <2>6, <2>7, <2>8
<1> QED
  BY <1>1, <1>2 DEF MayWake

OrphansStay == \A q \in Pid : Orphan(q) /\ status'[q] = "new" => Orphan(q)'

LEMMA WakeQueued ==
  ASSUME TypeOK, Queued, NEW p \in Pid, MayWake(p), OrphansStay
  PROVE  Queued'
<1> SUFFICES ASSUME NEW q \in Pid, status'[q] \in {"new", "ready", "runnable"},
                    ~Orphan(q)'
             PROVE  Enqueued(q)'
  BY DEF Queued
<1>0. Orphan(q) => status[q] = "new"
  BY DEF Orphan
<1>1. CASE UNCHANGED <<status, runq>>
  BY <1>0, <1>1 DEF Queued, Enqueued, OrphansStay
<1>2. CASE Woken(p)
  <2>1. /\ Len(runq) \in Nat
        /\ DOMAIN runq = 1 .. Len(runq) /\ DOMAIN runq' = 1 .. Len(runq) + 1
        /\ \A i \in 1 .. Len(runq) : runq'[i] = runq[i]
        /\ runq'[Len(runq) + 1] = <<p, "resume">>
    BY <1>2, AppendJob DEF Woken
  <2>2. /\ status' \in {[status EXCEPT ![p] = as] : as \in {"ready", "runnable"}}
        /\ status \in [Pid -> Status] /\ status[p] = "waiting"
    BY <1>2 DEF Woken, TypeOK, Status
  <2>3. CASE q = p
    BY <2>1, <2>3 DEF Enqueued
  <2>4. CASE q # p
    <3>1. Enqueued(q)
      BY <1>0, <2>2, <2>4 DEF Queued, OrphansStay
    <3> QED
      BY <2>1, <3>1 DEF Enqueued
  <2> QED
    BY <2>3, <2>4
<1> QED
  BY <1>1, <1>2 DEF MayWake

LEMMA WakeEngine ==
  ASSUME TypeOK, EngineInv, NEW p \in Pid, MayWake(p),
         UNCHANGED <<slice, current, micro, mainDone>>
  PROVE  EngineInv'
<1>1. CASE UNCHANGED <<status, runq>>
  BY <1>1 DEF EngineInv, Executes, MicroOrder, RunSound, RunningSettles, Alive, Exists
<1>2. CASE Woken(p)
  <2>1. /\ status' \in {[status EXCEPT ![p] = as] : as \in {"ready", "runnable"}}
        /\ status \in [Pid -> Status] /\ status[p] = "waiting"
    BY <1>2 DEF Woken, TypeOK, Status
  <2>2. Executes' /\ RunSound'
    BY <2>1 DEF EngineInv, Executes, RunSound, Alive, Exists
  <2>3. MicroOrder'
    BY DEF EngineInv, MicroOrder
  <2>4. RunningSettles'
    BY <2>1 DEF EngineInv, RunningSettles
  <2> QED
    BY <2>2, <2>3, <2>4 DEF EngineInv
<1> QED
  BY <1>1, <1>2 DEF MayWake

(* A process ends: it is marked "done" when its finish() begins, and its     *)
(* record is deleted when its finish() ends.                               *)

Ends(p, as) ==
  /\ status[p] # "absent"
  /\ status' = [status EXCEPT ![p] = as]
  /\ parked' = [parked EXCEPT ![p] = "none"]

LEMMA EndsProcs ==
  ASSUME TypeOK, ProcsInv, NEW p \in Pid, NEW as \in {"done", "gone"}, Ends(p, as),
         UNCHANGED <<runq, nextPid, current>>
  PROVE  ProcsInv'
<1> USE DEF ProcsInv
<1>1. status \in [Pid -> Status] /\ parked \in [Pid -> Wait]
  BY DEF TypeOK, Status, Wait
<1>2. \A i \in DOMAIN runq : runq[i][1] \in Pid
  BY DEF TypeOK, Job
<1>3. Known'
  BY <1>1, <1>2 DEF Known, Ends
<1>4. Once'
  BY DEF Once
<1>5. AsWhatItIs'
  BY <1>1, <1>2 DEF AsWhatItIs, Ends, Alive, Exists
<1>6. NoAbandonedStack'
  BY <1>1 DEF NoAbandonedStack, Ends
<1> QED
  BY <1>3, <1>4, <1>5, <1>6

LEMMA EndsQueued ==
  ASSUME TypeOK, Queued, NEW p \in Pid, NEW as \in {"done", "gone"}, Ends(p, as),
         OrphansStay, UNCHANGED runq
  PROVE  Queued'
<1>1. status \in [Pid -> Status]
  BY DEF TypeOK, Status
<1>2. ASSUME NEW q \in Pid, status'[q] \in {"new", "ready", "runnable"}
      PROVE  Enqueued(q)' \/ Orphan(q)'
  <2>1. q # p /\ status'[q] = status[q]
    BY <1>1, <1>2 DEF Ends
  <2> QED
    BY <1>2, <2>1 DEF Queued, Enqueued, OrphansStay, Orphan
<1> QED
  BY <1>2 DEF Queued

LEMMA AppendTask ==
  ASSUME NEW s \in Seq(Task), NEW t \in Task
  PROVE  /\ Len(s) \in Nat /\ DOMAIN s = 1 .. Len(s)
         /\ DOMAIN Append(s, t) = 1 .. Len(s) + 1
         /\ \A i \in 1 .. Len(s) : Append(s, t)[i] = s[i]
         /\ Append(s, t)[Len(s) + 1] = t
BY AppendProperties, LenProperties

LEMMA EndsEngine ==
  ASSUME TypeOK, EngineInv, NEW p \in Pid, NEW as \in {"done", "gone"}, Ends(p, as),
         micro' \in {micro, Append(micro, <<"unwind", p>>)},
         UNCHANGED <<slice, current, mainDone>>
  PROVE  EngineInv'
<1>1. status \in [Pid -> Status] /\ micro \in Seq(Task) /\ <<"unwind", p>> \in Task
  BY DEF TypeOK, Status, Task
<1>2. /\ Len(micro) \in Nat /\ DOMAIN micro = 1 .. Len(micro)
      /\ DOMAIN micro' \in {1 .. Len(micro), 1 .. Len(micro) + 1}
      /\ \A i \in 1 .. Len(micro) : micro'[i] = micro[i]
      /\ \A i \in DOMAIN micro' : i \in 1 .. Len(micro) \/ micro'[i][1] = "unwind"
  BY <1>1, AppendTask, LenProperties
<1>3. Executes'
  BY <1>1 DEF EngineInv, Executes, Ends, Alive, Exists
<1>4. MicroOrder'
  BY <1>2 DEF EngineInv, MicroOrder
<1>5. RunSound'
  BY <1>1, <1>2 DEF EngineInv, RunSound, Ends, Alive, Exists
<1>6. ASSUME NEW q \in Pid, status'[q] = "running", slice' # q, ~(q = Main /\ mainDone')
      PROVE  \E i \in DOMAIN micro' : micro'[i] \in {"run", "return", "throw"} \X {q}
  <2>1. PICK i \in DOMAIN micro : micro[i] \in {"run", "return", "throw"} \X {q}
    BY <1>1, <1>6 DEF EngineInv, RunningSettles, Ends
  <2> QED
    BY <1>2, <2>1
<1> QED
  BY <1>3, <1>4, <1>5, <1>6 DEF EngineInv, RunningSettles

(* finish(), one link, one monitor and one record at a time.               *)

LEMMA ConsFacts ==
  ASSUME NEW S, NEW s \in Seq(S), NEW x \in S
  PROVE  /\ Len(s) \in Nat /\ DOMAIN s = 1 .. Len(s)
         /\ DOMAIN (<<x>> \o s) = 1 .. Len(s) + 1
         /\ (<<x>> \o s)[1] = x
         /\ \A i \in 1 .. Len(s) : (<<x>> \o s)[i + 1] = s[i]
<1>1. <<x>> \in Seq(S) /\ Len(<<x>>) = 1 /\ <<x>>[1] = x
  OBVIOUS
<1>2. Len(s) \in Nat /\ DOMAIN s = 1 .. Len(s) /\ <<x>> \o s \in Seq(S)
  BY <1>1, ConcatProperties, LenProperties
<1>3. Len(<<x>> \o s) = Len(s) + 1
  BY <1>1, <1>2, ConcatProperties
<1>4. \A i \in 1 .. 1 + Len(s) :
        (<<x>> \o s)[i] = IF i <= 1 THEN <<x>>[i] ELSE s[i - 1]
  BY <1>1, ConcatProperties
<1>5. DOMAIN (<<x>> \o s) = 1 .. Len(s) + 1
  BY <1>2, <1>3, LenProperties
<1> QED
  BY <1>1, <1>2, <1>4, <1>5

LEMMA TailFacts ==
  ASSUME NEW S, NEW s \in Seq(S), s # <<>>
  PROVE  /\ Len(s) \in Nat \ {0} /\ DOMAIN s = 1 .. Len(s) /\ Head(s) = s[1]
         /\ Tail(s) \in Seq(S) /\ Len(Tail(s)) = Len(s) - 1
         /\ DOMAIN Tail(s) = 1 .. Len(s) - 1
         /\ \A i \in 1 .. Len(s) - 1 : Tail(s)[i] = s[i + 1]
<1>1. Len(s) \in Nat \ {0} /\ DOMAIN s = 1 .. Len(s) /\ Head(s) = s[1]
  BY LenProperties, EmptySeq
<1>2. /\ Tail(s) \in Seq(S) /\ Len(Tail(s)) = Len(s) - 1
      /\ \A i \in 1 .. Len(Tail(s)) : Tail(s)[i] = s[i + 1]
  BY HeadTailProperties
<1>3. DOMAIN Tail(s) = 1 .. Len(s) - 1
  BY <1>2, LenProperties
<1> QED
  BY <1>1, <1>2, <1>3

\* one more link of Top.pid is dealt with
LEMMA RestFacts ==
  ASSUME TypeOK, fin # <<>>, NEW q \in Top.todo
  PROVE  LET rest == <<[Top EXCEPT !.todo = @ \ {q}]>> \o Tail(fin)
         IN /\ rest \in Seq(Activation)
            /\ Len(fin) \in Nat \ {0} /\ DOMAIN fin = 1 .. Len(fin)
            /\ DOMAIN rest = 1 .. Len(fin)
            /\ \A i \in 1 .. Len(fin) : rest[i].pid = fin[i].pid
<1> DEFINE top == [Top EXCEPT !.todo = @ \ {q}]
           rest == <<top>> \o Tail(fin)
<1>1. /\ fin \in Seq(Activation) /\ Len(fin) \in Nat \ {0} /\ DOMAIN fin = 1 .. Len(fin)
      /\ Top = fin[1] /\ Top \in Activation
      /\ Tail(fin) \in Seq(Activation) /\ Len(Tail(fin)) = Len(fin) - 1
      /\ \A i \in 1 .. Len(fin) - 1 : Tail(fin)[i] = fin[i + 1]
  BY TailFacts, TailType DEF TypeOK, Top
<1>2. top \in Activation /\ top.pid = Top.pid
  BY <1>1 DEF Activation
<1> HIDE DEF top
<1>3. /\ DOMAIN rest = 1 .. (Len(fin) - 1) + 1
      /\ rest[1] = top /\ \A i \in 1 .. Len(fin) - 1 : rest[i + 1] = Tail(fin)[i]
  BY <1>1, <1>2, ConsFacts
<1>4. rest \in Seq(Activation)
  BY <1>1, <1>2, SingletonType, ConcatProperties
<1>5. ASSUME NEW i \in 1 .. Len(fin) PROVE rest[i].pid = fin[i].pid
  <2>1. CASE i = 1
    BY <1>1, <1>2, <1>3, <2>1
  <2>2. CASE i # 1
    <3>1. i - 1 \in 1 .. Len(fin) - 1 /\ (i - 1) + 1 = i
      BY <1>1, <2>2
    <3> HIDE DEF rest
    <3> QED
      BY <1>1, <1>3, <3>1
  <2> QED
    BY <2>1, <2>2
<1>6. DOMAIN rest = 1 .. Len(fin)
  BY <1>1, <1>3
<1>7. /\ rest \in Seq(Activation) /\ Len(fin) \in Nat \ {0} /\ DOMAIN fin = 1 .. Len(fin)
      /\ DOMAIN rest = 1 .. Len(fin) /\ \A i \in 1 .. Len(fin) : rest[i].pid = fin[i].pid
  <2> HIDE DEF rest
  <2> QED
    BY <1>1, <1>4, <1>5, <1>6
<1> QED
  BY ONLY <1>7 DEF top

LEMMA BeginFinishEnds ==
  ASSUME TypeOK, NEW p \in Pid, Alive(p), BeginFinish(p)
  PROVE  Ends(p, "done")
BY DEF Alive, Exists, BeginFinish, Ends

\* a death begins: its activation goes on top of those under way
LEMMA PushFin ==
  ASSUME TypeOK, FinSound, NEW p \in Pid, Alive(p), status' = [status EXCEPT ![p] = "done"],
         NEW f \in Activation, f.pid = p, NEW rest \in Seq(Activation),
         DOMAIN rest = DOMAIN fin, \A i \in DOMAIN fin : rest[i].pid = fin[i].pid,
         fin' = <<f>> \o rest
  PROVE  FinSound'
<1>1. /\ Len(rest) \in Nat /\ DOMAIN rest = 1 .. Len(rest)
      /\ DOMAIN fin' = 1 .. Len(rest) + 1
      /\ fin'[1] = f /\ \A i \in 1 .. Len(rest) : fin'[i + 1] = rest[i]
  BY ConsFacts
<1>2. \A i \in DOMAIN fin' : i = 1 \/ (i - 1 \in DOMAIN fin /\ fin'[i].pid = fin[i - 1].pid)
  BY <1>1
<1>3. \A i \in DOMAIN fin : i + 1 \in DOMAIN fin' /\ fin'[i + 1].pid = fin[i].pid
  BY <1>1
<1>4. status \in [Pid -> Status] /\ 1 \in DOMAIN fin' /\ fin'[1].pid = p
  BY <1>1 DEF TypeOK, Status
<1>5. \A i \in DOMAIN fin : fin[i].pid # p
  BY DEF FinSound, Alive
<1>6. \A q \in Pid : status'[q] = "done" <=> \E i \in DOMAIN fin' : fin'[i].pid = q
  <2> SUFFICES ASSUME NEW q \in Pid
               PROVE  status'[q] = "done" <=> \E i \in DOMAIN fin' : fin'[i].pid = q
    OBVIOUS
  <2>1. CASE q = p
    BY <1>4, <2>1
  <2>2. CASE q # p
    <3>1. status'[q] = status[q]
      BY <1>4, <2>2
    <3>2. ASSUME NEW i \in DOMAIN fin, fin[i].pid = q
          PROVE  \E j \in DOMAIN fin' : fin'[j].pid = q
      BY <1>3, <3>2
    <3>3. ASSUME NEW i \in DOMAIN fin', fin'[i].pid = q
          PROVE  \E j \in DOMAIN fin : fin[j].pid = q
      <4>1. i # 1
        BY <1>4, <2>2, <3>3
      <4> QED
        BY <1>2, <3>3, <4>1
    <3> QED
      BY <3>1, <3>2, <3>3 DEF FinSound
  <2> QED
    BY <2>1, <2>2
<1>7. ASSUME NEW i \in DOMAIN fin', NEW j \in DOMAIN fin', fin'[i].pid = fin'[j].pid
      PROVE  i = j
  <2>1. CASE i = 1 \/ j = 1
    BY <1>2, <1>4, <1>5, <1>7, <2>1
  <2>2. CASE i # 1 /\ j # 1
    <3>1. i - 1 = j - 1
      BY <1>2, <1>7, <2>2 DEF FinSound
    <3> QED
      BY <1>1, <3>1
  <2> QED
    BY <2>1, <2>2
<1> QED
  BY <1>6, <1>7 DEF FinSound

LEMMA SameFin ==
  ASSUME FinSound, DOMAIN fin' = DOMAIN fin,
         \A i \in DOMAIN fin : fin'[i].pid = fin[i].pid,
         \A p \in Pid : status'[p] = "done" <=> status[p] = "done"
  PROVE  FinSound'
BY DEF FinSound

\* a death ends: its record is deleted
LEMMA PopFin ==
  ASSUME TypeOK, FinSound, fin # <<>>, fin' = Tail(fin),
         status' = [status EXCEPT ![Top.pid] = "gone"]
  PROVE  FinSound'
<1>1. /\ Len(fin) \in Nat \ {0} /\ DOMAIN fin = 1 .. Len(fin)
      /\ DOMAIN fin' = 1 .. Len(fin) - 1
      /\ \A i \in 1 .. Len(fin) - 1 : fin'[i] = fin[i + 1]
  BY TailFacts DEF TypeOK
<1>2. \A i \in DOMAIN fin' : i + 1 \in DOMAIN fin /\ i + 1 # 1 /\ fin'[i].pid = fin[i + 1].pid
  BY <1>1
<1>3. \A i \in DOMAIN fin : i = 1 \/ (i - 1 \in DOMAIN fin' /\ fin'[i - 1].pid = fin[i].pid)
  BY <1>1
<1>4. 1 \in DOMAIN fin /\ status \in [Pid -> Status]
  BY <1>1 DEF TypeOK, Status
<1>5. ASSUME NEW q \in Pid
      PROVE  status'[q] = "done" <=> \E i \in DOMAIN fin' : fin'[i].pid = q
  <2>1. CASE q = Top.pid
    <3>1. status'[q] # "done"
      BY <1>4, <2>1
    <3>2. \A i \in DOMAIN fin' : fin'[i].pid # q
      BY <1>2, <1>4, <2>1 DEF FinSound, Top
    <3> QED
      BY <3>1, <3>2
  <2>2. CASE q # Top.pid
    <3>1. status'[q] = status[q]
      BY <1>4, <2>2
    <3>2. ASSUME NEW i \in DOMAIN fin, fin[i].pid = q
          PROVE  \E j \in DOMAIN fin' : fin'[j].pid = q
      BY <1>3, <2>2, <3>2 DEF Top
    <3>3. ASSUME NEW i \in DOMAIN fin', fin'[i].pid = q
          PROVE  \E j \in DOMAIN fin : fin[j].pid = q
      BY <1>2, <3>3
    <3> QED
      BY <3>1, <3>2, <3>3 DEF FinSound
  <2> QED
    BY <2>1, <2>2
<1>6. ASSUME NEW i \in DOMAIN fin', NEW j \in DOMAIN fin', fin'[i].pid = fin'[j].pid
      PROVE  i = j
  <2>1. i + 1 = j + 1
    BY <1>2, <1>6 DEF FinSound
  <2> QED
    BY <1>1, <2>1
<1> QED
  BY <1>5, <1>6 DEF FinSound

LEMMA TopIsDone ==
  ASSUME TypeOK, FinSound, fin # <<>>
  PROVE  Top \in Activation /\ Top.pid \in Pid /\ status[Top.pid] = "done"
<1>1. Top \in Activation /\ 1 \in DOMAIN fin
  BY TailFacts DEF TypeOK, Top
<1> QED
  BY <1>1 DEF FinSound, Top, Activation

LEMMA WakeKeepsDone ==
  ASSUME TypeOK, NEW p \in Pid, MayWake(p)
  PROVE  /\ \A q \in Pid : status'[q] = "done" <=> status[q] = "done"
         /\ \A q \in Pid : status'[q] = "gone" <=> status[q] = "gone"
         /\ \A q \in Pid : status'[q] = "new" <=> status[q] = "new"
<1>1. status \in [Pid -> Status]
  BY DEF TypeOK, Status
<1> QED
  BY <1>1 DEF MayWake, Woken

\* what is not looked at by the invariant
ivars == <<status, parked, links, runq, nextPid, fin, micro, slice, current, mainDone>>

LEMMA Untouched == ASSUME IInv, UNCHANGED ivars PROVE IInv'
BY DEF ivars, IInv, ProcsInv, Known, Once, AsWhatItIs, NoAbandonedStack, Queued, FinSound,
       EngineInv, Executes, MicroOrder, RunSound, RunningSettles, Enqueued, Orphan, Alive,
       Exists

LEMMA WakeInv ==
  ASSUME TypeOK, IInv, NEW p \in Pid, MayWake(p),
         UNCHANGED <<parked, links, nextPid, fin, micro, slice, current, mainDone>>
  PROVE  IInv'
<1>1. OrphansStay
  BY WakeKeepsDone DEF OrphansStay, Orphan, TypeOK
<1>2. FinSound'
  BY WakeKeepsDone, SameFin DEF IInv
<1>3. ProcsInv' /\ Queued' /\ EngineInv'
  BY <1>1, WakeProcs, WakeQueued, WakeEngine DEF IInv
<1> QED
  BY <1>2, <1>3 DEF IInv

LEMMA FinishIInv ==
  ASSUME TypeOK, IInv, Finish
  PROVE  IInv'
<1>0. fin # <<>>
  BY DEF Finish, FinishLink, FinishMonitor, FinishDone
<1>1. Top \in Activation /\ Top.pid \in Pid /\ status[Top.pid] = "done"
  BY <1>0, TopIsDone DEF IInv
<1>2. CASE FinishLink
  <2> PICK q \in Top.todo :
        LET rest == <<[Top EXCEPT !.todo = @ \ {q}]>> \o Tail(fin)
        IN \/ /\ ~Alive(q)
              /\ fin' = rest
              /\ UNCHANGED <<status, mailbox, links, timer, pendingTimers, parked,
                             runq, micro, registry>>
           \/ /\ Alive(q)
              /\ links' = Unlinked(q, Top.pid)
              /\ \/ /\ q \in trapExit
                    /\ Post(q, Exit(Top.pid, Top.reason))
                    /\ fin' = rest
                    /\ UNCHANGED <<parked, micro, registry>>
                 \/ /\ Kills(q)
                    /\ BeginFinish(q)
                    /\ micro' = Unwound(q, micro)
                    /\ fin' = <<Frame(q, Top.reason, TRUE, links[q] \ {Top.pid})>> \o rest
                    /\ UNCHANGED <<mailbox, runq>>
                 \/ /\ q \notin trapExit /\ ~Top.abnormal
                    /\ fin' = rest
                    /\ UNCHANGED <<status, mailbox, timer, pendingTimers, parked,
                                   runq, micro, registry>>
    BY <1>2 DEF FinishLink
  <2> DEFINE rest == <<[Top EXCEPT !.todo = @ \ {q}]>> \o Tail(fin)
  <2>1. q \in Pid /\ UNCHANGED <<nextPid, slice, current, mainDone>>
    BY <1>1, <1>2 DEF FinishLink, Activation
  <2>2. /\ rest \in Seq(Activation) /\ DOMAIN rest = DOMAIN fin
        /\ \A i \in DOMAIN fin : rest[i].pid = fin[i].pid
    BY <1>0, RestFacts
  <2> HIDE DEF rest
  <2>3. links' \in {links, Unlinked(q, Top.pid)} /\ links \in [Pid -> SUBSET Pid]
    BY DEF TypeOK
  <2>4. \A x, r \in Pid : r \in links[x] /\ status[r] = "gone" => r \in links'[x]
    \* only the dying process is unlinked, and it is not gone yet
    BY <1>1, <2>3 DEF Unlinked
  <2>5. CASE fin' = rest /\ UNCHANGED <<status, parked, runq, micro>>
    <3>1. Queued'
      BY <2>4, <2>5 DEF IInv, Queued, Enqueued, Orphan, TypeOK
    <3>2. FinSound'
      BY <2>2, <2>5, SameFin DEF IInv
    <3>3. ProcsInv' /\ EngineInv'
      BY <2>1, <2>5 DEF IInv, ProcsInv, Known, Once, AsWhatItIs, NoAbandonedStack,
         EngineInv, Executes, MicroOrder, RunSound, RunningSettles, Alive, Exists
    <3> QED
      BY <3>1, <3>2, <3>3 DEF IInv
  <2>6. CASE MayWake(q) /\ fin' = rest /\ UNCHANGED <<parked, micro>>
    <3>1. OrphansStay
      BY <2>1, <2>4, <2>6, WakeKeepsDone DEF OrphansStay, Orphan, TypeOK
    <3>2. FinSound'
      BY <2>1, <2>2, <2>6, WakeKeepsDone, SameFin DEF IInv
    <3>3. ProcsInv' /\ Queued' /\ EngineInv'
      BY <2>1, <2>6, <3>1, WakeProcs, WakeQueued, WakeEngine DEF IInv
    <3> QED
      BY <3>2, <3>3 DEF IInv
  <2>7. CASE /\ Alive(q) /\ BeginFinish(q) /\ micro' = Unwound(q, micro) /\ UNCHANGED runq
             /\ fin' = <<Frame(q, Top.reason, TRUE, links[q] \ {Top.pid})>> \o rest
    <3>1. Ends(q, "done")
      BY <2>1, <2>7, BeginFinishEnds
    <3>2. OrphansStay
      <4>1. /\ status \in [Pid -> Status] /\ links \in [Pid -> SUBSET Pid]
            /\ status[q] # "gone" /\ status' = [status EXCEPT ![q] = "done"]
        BY <2>7, <3>1 DEF TypeOK, Status, Alive, Exists, Ends
      <4> QED
        BY <2>4, <4>1 DEF OrphansStay, Orphan
    <3>3. FinSound'
      <4> DEFINE f == Frame(q, Top.reason, TRUE, links[q] \ {Top.pid})
      <4>1. f \in Activation /\ f.pid = q
        <5>1. Top.reason \in Reasons /\ links[q] \ {Top.pid} \in SUBSET Pid
          BY <1>1, <2>1, <2>3 DEF Activation
        <5>2. f.pid = q
          BY DEF Frame
        <5> QED
          BY <2>1, <5>1, <5>2, FrameType
      <4> HIDE DEF f
      <4>2. fin' = <<f>> \o rest
        BY <2>7 DEF f
      <4> QED
        BY <2>1, <2>2, <2>7, <3>1, <4>1, <4>2, PushFin DEF IInv, Ends
    <3>4. micro' \in {micro, Append(micro, <<"unwind", q>>)}
      BY <2>7 DEF Unwound
    <3>5. ProcsInv' /\ Queued' /\ EngineInv'
      BY <2>1, <2>7, <3>1, <3>2, <3>4, EndsProcs, EndsQueued, EndsEngine DEF IInv
    <3> QED
      BY <3>3, <3>5 DEF IInv
  <2> QED
    BY <2>1, <2>5, <2>6, <2>7, WakeMayWake DEF rest, Post
<1>3. CASE FinishMonitor
  <2>1. PICK m \in monitors :
          IF Alive(m.by) THEN Post(m.by, Down(m.ref, Top.pid, Top.reason))
                         ELSE UNCHANGED <<mailbox, status, timer, pendingTimers, runq>>
    BY <1>3 DEF FinishMonitor
  <2>2. m.by \in Pid
    BY DEF TypeOK, Monitor
  <2>3. UNCHANGED <<links, parked, nextPid, fin, micro, slice, current, mainDone>>
    BY <1>3 DEF FinishMonitor
  <2> QED
    BY <2>1, <2>2, <2>3, WakeMayWake, WakeInv, Untouched DEF Post, ivars
<1>4. CASE FinishDone
  <2>1. /\ fin' = Tail(fin) /\ status' = [status EXCEPT ![Top.pid] = "gone"]
        /\ links' = [links EXCEPT ![Top.pid] = {}]
        /\ UNCHANGED <<parked, nextPid, runq, current, slice, micro, mainDone>>
    BY <1>4 DEF FinishDone
  <2>2. Ends(Top.pid, "gone")
    <3>1. parked[Top.pid] = "none" /\ parked \in [Pid -> Wait]
      BY <1>1 DEF IInv, ProcsInv, NoAbandonedStack, TypeOK, Wait
    <3>2. parked' = [parked EXCEPT ![Top.pid] = "none"]
      BY <2>1, <3>1
    <3> QED
      BY <1>1, <2>1, <3>2 DEF Ends
  <2>3. OrphansStay
    BY <1>1, <2>1 DEF OrphansStay, Orphan, TypeOK
  <2>4. FinSound'
    BY <1>0, <2>1, PopFin DEF IInv
  <2>5. ProcsInv' /\ Queued' /\ EngineInv'
    BY <1>1, <2>1, <2>2, <2>3, EndsProcs, EndsQueued, EndsEngine DEF IInv
  <2> QED
    BY <2>4, <2>5 DEF IInv
<1> QED
  BY <1>2, <1>3, <1>4 DEF Finish

(* The loop.  Its task runs when every resumed stack has: no run task is    *)
(* left behind it, and there is no second loop task.                       *)

Settling(p) == {"run", "return", "throw"} \X {p}

LEMMA LoopHead ==
  ASSUME TypeOK, EngineInv, LoopTurn
  PROVE  /\ slice = NoPid /\ fin = <<>> /\ Tail(micro) \in Seq(Task)
         /\ \A i \in DOMAIN Tail(micro) : Tail(micro)[i][1] \notin {"loop", "run"}
         /\ \A p \in Pid : status[p] = "running" =>
              \/ \E i \in DOMAIN Tail(micro) : Tail(micro)[i] \in Settling(p)
              \/ p = Main /\ mainDone
<1>1. /\ slice = NoPid /\ fin = <<>> /\ micro # <<>> /\ Head(micro) = LoopTask
      /\ micro \in Seq(Task)
  BY DEF LoopTurn, EngineTurn, TypeOK
<1>2. /\ Len(micro) \in Nat \ {0} /\ DOMAIN micro = 1 .. Len(micro)
      /\ micro[1] = <<"loop", NoPid>>
      /\ Tail(micro) \in Seq(Task) /\ DOMAIN Tail(micro) = 1 .. Len(micro) - 1
      /\ \A i \in 1 .. Len(micro) - 1 : Tail(micro)[i] = micro[i + 1]
  BY <1>1, TailFacts DEF LoopTask
<1>3. ASSUME NEW i \in DOMAIN Tail(micro) PROVE Tail(micro)[i][1] \notin {"loop", "run"}
  <2>1. i + 1 \in DOMAIN micro /\ 1 \in DOMAIN micro /\ i + 1 > 1
        /\ Tail(micro)[i] = micro[i + 1]
    BY <1>2
  <2>2. micro[1][1] = "loop"
    BY <1>2
  <2>3. micro[i + 1][1] # "loop" /\ micro[i + 1][1] # "run"
    BY <2>1, <2>2 DEF EngineInv, MicroOrder
  <2> QED
    BY <2>1, <2>3
<1>4. ASSUME NEW p \in Pid, status[p] = "running", ~(p = Main /\ mainDone)
      PROVE  \E i \in DOMAIN Tail(micro) : Tail(micro)[i] \in Settling(p)
  <2>1. p # slice
    BY <1>1 DEF NoPid, Pid
  <2>2. PICK i \in DOMAIN micro : micro[i] \in Settling(p)
    BY <1>4, <2>1 DEF EngineInv, RunningSettles, Settling
  <2>3. i # 1
    BY <1>2, <2>2 DEF Settling
  <2>4. i - 1 \in 1 .. Len(micro) - 1 /\ (i - 1) + 1 = i
    BY <1>2, <2>3
  <2> QED
    BY <1>2, <2>2, <2>4
<1> QED
  BY <1>1, <1>2, <1>3, <1>4

LEMMA JobHead ==
  ASSUME TypeOK, runq # <<>>
  PROVE  /\ Head(runq)[1] \in Pid /\ Head(runq)[2] \in {"start", "resume"}
         /\ Len(runq) \in Nat \ {0} /\ DOMAIN runq = 1 .. Len(runq) /\ runq[1] = Head(runq)
         /\ DOMAIN Tail(runq) = 1 .. Len(runq) - 1
         /\ \A i \in 1 .. Len(runq) - 1 : Tail(runq)[i] = runq[i + 1]
         /\ \A i \in DOMAIN runq : runq[i][1] \in Pid
BY TailFacts, TailType DEF TypeOK, Job

LEMMA DispatchInv ==
  ASSUME TypeOK, ProcsInv, Queued, runq # <<>>, NEW p \in Pid, p = Head(runq)[1], Alive(p),
         Dispatch(p), parked' = [parked EXCEPT ![p] = "none"], UNCHANGED <<nextPid, links>>
  PROVE  ProcsInv' /\ Queued'
<1> USE DEF ProcsInv
<1>1. /\ status \in [Pid -> Status] /\ parked \in [Pid -> Wait] /\ runq' = Tail(runq)
      /\ status' = [status EXCEPT ![p] = "running"] /\ current' = p
      /\ nextPid \in Int
  BY DEF TypeOK, Status, Wait, Dispatch
<1>2. /\ \A i \in DOMAIN runq' : i + 1 \in DOMAIN runq /\ runq'[i] = runq[i + 1]
      /\ \A i \in DOMAIN runq : i = 1 \/ (i - 1 \in DOMAIN runq' /\ runq'[i - 1] = runq[i])
      /\ 1 \in DOMAIN runq /\ runq[1][1] = p
      /\ \A i \in DOMAIN runq : i \in Nat /\ runq[i][1] \in Pid
      /\ \A i \in DOMAIN runq' : i \in Nat \ {0} /\ runq'[i][1] \in Pid
  BY <1>1, JobHead
<1>3. \A i \in DOMAIN runq' : runq'[i][1] # p
  BY <1>2 DEF Once
<1>4. Known'
  <2>1. p < nextPid
    BY <1>1 DEF Known, Alive, Exists, Pid
  <2> QED
    BY <1>1, <1>2, <2>1 DEF Known
<1>5. Once'
  BY <1>2 DEF Once
<1>6. AsWhatItIs'
  BY <1>1, <1>2, <1>3 DEF AsWhatItIs, Alive, Exists
<1>7. NoAbandonedStack'
  BY <1>1 DEF NoAbandonedStack
<1>8. ASSUME NEW q \in Pid, status'[q] \in {"new", "ready", "runnable"}
      PROVE  Enqueued(q)' \/ Orphan(q)'
  <2>1. q # p /\ status'[q] = status[q]
    BY <1>1, <1>8
  <2>2. CASE Enqueued(q)
    BY <1>2, <2>1, <2>2 DEF Enqueued
  <2>3. CASE Orphan(q)
    BY <1>1, <2>1, <2>3 DEF Orphan, Alive, Exists, TypeOK
  <2> QED
    BY <1>8, <2>1, <2>2, <2>3 DEF Queued
<1> QED
  BY <1>4, <1>5, <1>6, <1>7, <1>8 DEF Queued

LEMMA AppendTwo ==
  ASSUME NEW s \in Seq(Task), NEW t \in Task, NEW u \in Task
  PROVE  /\ Len(s) \in Nat /\ DOMAIN s = 1 .. Len(s)
         /\ s \o <<t, u>> \in Seq(Task)
         /\ DOMAIN (s \o <<t, u>>) = 1 .. Len(s) + 2
         /\ \A i \in 1 .. Len(s) : (s \o <<t, u>>)[i] = s[i]
         /\ (s \o <<t, u>>)[Len(s) + 1] = t /\ (s \o <<t, u>>)[Len(s) + 2] = u
<1>1. <<t, u>> \in Seq(Task) /\ Len(<<t, u>>) = 2 /\ <<t, u>>[1] = t /\ <<t, u>>[2] = u
  OBVIOUS
<1>2. Len(s) \in Nat /\ DOMAIN s = 1 .. Len(s)
  BY LenProperties
<1> DEFINE two == <<t, u>>
<1> HIDE DEF two
<1>3. two \in Seq(Task) /\ Len(two) = 2 /\ two[1] = t /\ two[2] = u
  BY <1>1 DEF two
<1>4. s \o two \in Seq(Task) /\ Len(s \o two) = Len(s) + Len(two)
  BY <1>3, ConcatProperties
<1>5. \A i \in 1 .. Len(s) + Len(two) :
        (s \o two)[i] = IF i <= Len(s) THEN s[i] ELSE two[i - Len(s)]
  BY <1>3, ConcatProperties
<1>6. DOMAIN (s \o two) = 1 .. Len(s) + 2
  BY <1>3, <1>4, LenProperties
<1>7. /\ \A i \in 1 .. Len(s) : (s \o two)[i] = s[i]
      /\ (s \o two)[Len(s) + 1] = t /\ (s \o two)[Len(s) + 2] = u
  <2> DEFINE both == s \o two
  <2>1. \A i \in 1 .. Len(s) + 2 : both[i] = IF i <= Len(s) THEN s[i] ELSE two[i - Len(s)]
    BY <1>3, <1>5
  <2> HIDE DEF both
  <2>2. (Len(s) + 1) - Len(s) = 1 /\ (Len(s) + 2) - Len(s) = 2
    BY <1>2
  <2>3. both[Len(s) + 1] = t /\ both[Len(s) + 2] = u
    BY <1>2, <1>3, <2>1, <2>2
  <2>4. \A i \in 1 .. Len(s) : both[i] = s[i]
    BY <1>2, <2>1
  <2> QED
    BY <2>3, <2>4 DEF both
<1> QED
  BY <1>2, <1>4, <1>6, <1>7 DEF two

LEMMA LoopIInv ==
  ASSUME TypeOK, IInv, Loop
  PROVE  IInv'
<1> DEFINE T == Tail(micro)
<1>0. ASSUME LoopTurn
      PROVE  /\ slice = NoPid /\ fin = <<>> /\ T \in Seq(Task)
             /\ \A i \in DOMAIN T : T[i][1] \notin {"loop", "run"}
             /\ \A p \in Pid : status[p] = "running" =>
                  (\E i \in DOMAIN T : T[i] \in Settling(p)) \/ (p = Main /\ mainDone)
  BY <1>0, LoopHead DEF IInv
<1> HIDE DEF T
<1>1. ASSUME NEW p \in Pid, LoopTurn, status' = [status EXCEPT ![p] = "running"], current' = p,
             \/ slice' = p /\ micro' = T
             \/ slice' = NoPid /\ micro' = T \o <<<<"run", p>>, LoopTask>>,
             UNCHANGED <<mainDone, fin>>
      PROVE  EngineInv'
  <2>1. status \in [Pid -> Status]
    BY DEF TypeOK, Status
  <2>2. CASE slice' = p /\ micro' = T
    <3>1. Executes'
      BY <1>1, <2>1, <2>2 DEF Executes
    <3>2. MicroOrder' /\ RunSound'
      BY <1>0, <1>1, <2>2 DEF MicroOrder, RunSound
    <3>3. RunningSettles'
      BY <1>0, <1>1, <2>1, <2>2 DEF RunningSettles, Settling
    <3> QED
      BY <3>1, <3>2, <3>3 DEF EngineInv
  <2>3. CASE slice' = NoPid /\ micro' = T \o <<<<"run", p>>, LoopTask>>
    <3>1. T \in Seq(Task) /\ <<"run", p>> \in Task /\ LoopTask \in Task
      BY <1>0, <1>1 DEF Task
    <3>2. /\ Len(T) \in Nat /\ DOMAIN T = 1 .. Len(T)
          /\ DOMAIN micro' = 1 .. Len(T) + 2
          /\ \A i \in 1 .. Len(T) : micro'[i] = T[i]
          /\ micro'[Len(T) + 1] = <<"run", p>> /\ micro'[Len(T) + 2] = LoopTask
      BY <2>3, <3>1, AppendTwo
    <3>3. /\ DOMAIN micro' = 1 .. Len(T) + 2
          /\ \A i \in 1 .. Len(T) : micro'[i] = T[i]
          /\ micro'[Len(T) + 1] = <<"run", p>> /\ micro'[Len(T) + 2] = <<"loop", NoPid>>
      BY <3>2 DEF LoopTask
    <3>4. Executes'
      BY <2>3 DEF Executes
    <3>5. /\ \A i \in DOMAIN micro' : micro'[i][1] = "run" => i = Len(T) + 1
          /\ \A i \in DOMAIN micro' : micro'[i][1] = "loop" => i = Len(T) + 2
      <4>1. \A i \in 1 .. Len(T) : T[i][1] \notin {"loop", "run"}
        BY <1>0, <1>1, <3>2
      <4>2. ASSUME NEW i \in DOMAIN micro'
            PROVE  i \in 1 .. Len(T) \/ i = Len(T) + 1 \/ i = Len(T) + 2
        BY <3>2, <3>3
      <4>3. micro'[Len(T) + 1][1] = "run" /\ micro'[Len(T) + 2][1] = "loop"
        BY <3>3
      <4> QED
        BY <3>3, <4>1, <4>2, <4>3
    <3>6. MicroOrder'
      BY <3>2, <3>3, <3>5 DEF MicroOrder
    <3>7. RunSound'
      BY <1>1, <2>1, <2>3, <3>3, <3>5 DEF RunSound
    <3>8. ASSUME NEW q \in Pid, status'[q] = "running", ~(q = Main /\ mainDone')
          PROVE  \E i \in DOMAIN micro' : micro'[i] \in {"run", "return", "throw"} \X {q}
      <4>1. CASE q = p
        <5>1. Len(T) + 1 \in DOMAIN micro' /\ micro'[Len(T) + 1] = <<"run", q>>
          BY <3>2, <3>3, <4>1
        <5>2. <<"run", q>> \in {"run", "return", "throw"} \X {q}
          OBVIOUS
        <5> QED
          BY <5>1, <5>2
      <4>2. CASE q # p
        <5>1. status[q] = "running"
          BY <1>1, <2>1, <3>8, <4>2
        <5>2. PICK i \in DOMAIN T : T[i] \in Settling(q)
          BY <1>0, <1>1, <3>8, <5>1
        <5> QED
          BY <3>2, <3>3, <5>2 DEF Settling
      <4> QED
        BY <4>1, <4>2
    <3> QED
      BY <3>4, <3>6, <3>7, <3>8 DEF EngineInv, RunningSettles
  <2> QED
    BY <1>1, <2>2, <2>3
<1>2. ASSUME LoopTurn, micro' \in {T, Append(T, LoopTask)},
             UNCHANGED <<status, slice, current, mainDone>>
      PROVE  EngineInv'
  <2>1. /\ Len(T) \in Nat /\ DOMAIN T = 1 .. Len(T)
        /\ DOMAIN micro' \in {1 .. Len(T), 1 .. Len(T) + 1}
        /\ \A i \in 1 .. Len(T) : micro'[i] = T[i]
        /\ \A i \in DOMAIN micro' : i \in 1 .. Len(T) \/ (i = Len(T) + 1 /\ micro'[i] = LoopTask)
    <3>1. T \in Seq(Task) /\ LoopTask \in Task
      BY <1>0, <1>2 DEF Task
    <3> QED
      BY <1>2, <3>1, AppendTask, LenProperties
  <2>2. Executes'
    BY <1>0, <1>2 DEF Executes
  <2>3. \A i \in DOMAIN micro' : micro'[i][1] # "run" /\ (micro'[i][1] = "loop" => i = Len(T) + 1)
    BY <1>0, <1>2, <2>1 DEF LoopTask
  <2>4. MicroOrder' /\ RunSound'
    BY <2>3 DEF MicroOrder, RunSound
  <2>5. ASSUME NEW q \in Pid, status'[q] = "running", ~(q = Main /\ mainDone')
        PROVE  \E i \in DOMAIN micro' : micro'[i] \in {"run", "return", "throw"} \X {q}
    <3>1. PICK i \in DOMAIN T : T[i] \in Settling(q)
      BY <1>0, <1>2, <2>5
    <3> QED
      BY <2>1, <3>1 DEF Settling
  <2> QED
    BY <2>2, <2>4, <2>5 DEF EngineInv, RunningSettles
<1>3. CASE DispatchStart
  <2> DEFINE p == Head(runq)[1]
  <2>1. /\ LoopTurn /\ runq # <<>> /\ Head(runq)[2] = "start" /\ Alive(p) /\ Dispatch(p)
        /\ slice' = p /\ micro' = T
        /\ UNCHANGED <<links, parked, nextPid, mainDone, fin>>
    BY <1>3 DEF DispatchStart, LoopRuns, parkVars, nameVars, T
  <2>2. p \in Pid /\ 1 \in DOMAIN runq /\ runq[1] = Head(runq)
    BY <2>1, JobHead
  <2>3. status[p] = "new"
    BY <2>1, <2>2 DEF IInv, ProcsInv, AsWhatItIs
  <2>4. parked' = [parked EXCEPT ![p] = "none"]
    BY <2>1, <2>2, <2>3 DEF IInv, ProcsInv, NoAbandonedStack, TypeOK
  <2>5. ProcsInv' /\ Queued'
    BY <2>1, <2>2, <2>4, DispatchInv DEF IInv
  <2>6. EngineInv'
    BY <1>1, <2>1, <2>2 DEF Dispatch
  <2>7. FinSound'
    BY <1>0, <2>1, <2>2, <2>3 DEF IInv, FinSound, Dispatch, TypeOK
  <2> QED
    BY <2>5, <2>6, <2>7 DEF IInv
<1>4. CASE DispatchResume
  <2> DEFINE p == Head(runq)[1]
  <2>1. /\ LoopTurn /\ runq # <<>> /\ Head(runq)[2] = "resume" /\ Alive(p) /\ Dispatch(p)
        /\ parked' = [parked EXCEPT ![p] = "none"] /\ micro' = Resume(p, T)
        /\ UNCHANGED <<slice, links, nextPid, mainDone, fin>>
    BY <1>4 DEF DispatchResume, LoopRuns, nameVars, T
  <2>2. p \in Pid /\ 1 \in DOMAIN runq /\ runq[1] = Head(runq)
    BY <2>1, JobHead
  <2>3. status[p] \in {"ready", "runnable"}
    BY <2>1, <2>2 DEF IInv, ProcsInv, AsWhatItIs
  <2>4. micro' = T \o <<<<"run", p>>, LoopTask>>
    \* so its stack is parked
    BY <2>1, <2>2, <2>3 DEF IInv, ProcsInv, NoAbandonedStack, Resume
  <2>5. ProcsInv' /\ Queued'
    BY <2>1, <2>2, DispatchInv DEF IInv
  <2>6. EngineInv'
    BY <1>0, <1>1, <2>1, <2>2, <2>4 DEF Dispatch
  <2>7. FinSound'
    BY <1>0, <2>1, <2>2, <2>3 DEF IInv, FinSound, Dispatch, TypeOK
  <2> QED
    BY <2>5, <2>6, <2>7 DEF IInv
<1>5. CASE DispatchDead
  <2>1. /\ LoopTurn /\ runq # <<>> /\ ~Alive(Head(runq)[1]) /\ runq' = Tail(runq)
        /\ micro' = Append(T, LoopTask)
        /\ UNCHANGED <<status, links, parked, nextPid, slice, current, mainDone, fin>>
    BY <1>5 DEF DispatchDead, LoopRuns, procVars, parkVars, nameVars, T
  <2>2. EngineInv'
    BY <1>2, <2>1
  <2>3. /\ \A i \in DOMAIN runq' : i + 1 \in DOMAIN runq /\ runq'[i] = runq[i + 1]
        /\ \A i \in DOMAIN runq : i = 1 \/ (i - 1 \in DOMAIN runq' /\ runq'[i - 1] = runq[i])
        /\ 1 \in DOMAIN runq /\ ~Alive(runq[1][1]) /\ runq[1][1] \in Pid
        /\ \A i \in DOMAIN runq' : i \in Nat
    BY <2>1, JobHead
  <2>4. ProcsInv'
    BY <2>1, <2>3 DEF IInv, ProcsInv, Known, Once, AsWhatItIs, NoAbandonedStack, Alive, Exists
  <2>5. ASSUME NEW q \in Pid, status[q] \in {"new", "ready", "runnable"}, Enqueued(q)
        PROVE  Enqueued(q)'
    <3>1. Alive(q)
      BY <2>5 DEF Alive, Exists
    <3>2. PICK i \in DOMAIN runq : runq[i][1] = q
      BY <2>5 DEF Enqueued
    <3>3. i # 1
      BY <2>3, <3>1, <3>2
    <3> QED
      BY <2>3, <3>2, <3>3 DEF Enqueued
  <2>6. Queued' /\ FinSound'
    BY <2>1, <2>5 DEF IInv, Queued, FinSound, Orphan
  <2> QED
    BY <2>2, <2>4, <2>6 DEF IInv
<1>6. CASE LoopSettle \/ LoopLeave
  <2>1. /\ LoopTurn /\ micro' \in {T, Append(T, LoopTask)}
        /\ UNCHANGED <<status, links, parked, nextPid, runq, slice, current, mainDone, fin>>
    BY <1>6 DEF LoopSettle, LoopLeave, LoopRuns, procVars, parkVars, nameVars, T
  <2>2. EngineInv'
    BY <1>2, <2>1
  <2> QED
    BY <2>1, <2>2 DEF IInv, ProcsInv, Known, Once, AsWhatItIs, NoAbandonedStack, Queued,
       FinSound, Enqueued, Orphan, Alive, Exists
<1>7. CASE IdleEnds
  <2>1. /\ slice = NoPid /\ micro = <<>> /\ micro' = <<LoopTask>>
        /\ UNCHANGED <<status, links, parked, nextPid, runq, slice, current, mainDone, fin>>
    BY <1>7 DEF IdleEnds, Macrotask, procVars, parkVars, nameVars
  <2>2. DOMAIN micro' = {1} /\ micro'[1][1] = "loop"
    BY <2>1 DEF LoopTask
  <2>3. Executes' /\ MicroOrder' /\ RunSound'
    BY <2>1, <2>2 DEF Executes, MicroOrder, RunSound
  <2>4. RunningSettles'
    BY <2>1 DEF IInv, EngineInv, RunningSettles, NoPid, Pid
  <2> QED
    BY <2>1, <2>3, <2>4 DEF IInv, ProcsInv, Known, Once, AsWhatItIs, NoAbandonedStack,
       Queued, FinSound, Enqueued, Orphan, Alive, Exists, EngineInv
<1> QED
  BY <1>3, <1>4, <1>5, <1>6, <1>7 DEF Loop

(* The engine's other microtasks, and the timers.                          *)

\* a death begins that no other death has caused
LEMMA DeathBegins ==
  ASSUME TypeOK, IInv, fin = <<>>, NEW p \in Pid, Alive(p), BeginFinish(p), NEW f,
         f.pid = p, fin' = <<f>>, UNCHANGED <<links, runq, nextPid, current>>
  PROVE  Ends(p, "done") /\ ProcsInv' /\ Queued' /\ FinSound'
<1>1. Ends(p, "done")
  BY BeginFinishEnds
<1>2. /\ status \in [Pid -> Status] /\ links \in [Pid -> SUBSET Pid]
      /\ status[p] # "gone" /\ status' = [status EXCEPT ![p] = "done"]
  BY <1>1 DEF TypeOK, Status, Alive, Exists, Ends
<1>3. OrphansStay
  BY <1>2 DEF OrphansStay, Orphan
<1>4. DOMAIN fin = {} /\ DOMAIN fin' = {1} /\ fin'[1].pid = p
  OBVIOUS
<1>5. FinSound'
  BY <1>2, <1>4 DEF IInv, FinSound
<1> QED
  BY <1>1, <1>3, <1>5, EndsProcs, EndsQueued DEF IInv

\* the head of the microtask queue is taken
LEMMA MicroHead ==
  ASSUME TypeOK, NEW task, EngineTurn(task)
  PROVE  /\ slice = NoPid /\ fin = <<>> /\ Tail(micro) \in Seq(Task)
         /\ 1 \in DOMAIN micro /\ micro[1] = task
         /\ \A i \in DOMAIN micro : i \in Nat
         /\ \A i \in DOMAIN Tail(micro) :
              i \in Nat /\ i + 1 \in DOMAIN micro /\ i + 1 # 1 /\ Tail(micro)[i] = micro[i + 1]
         /\ \A i \in DOMAIN micro :
              i = 1 \/ (i - 1 \in DOMAIN Tail(micro) /\ Tail(micro)[i - 1] = micro[i])
<1>1. /\ slice = NoPid /\ fin = <<>> /\ micro # <<>> /\ Head(micro) = task
      /\ micro \in Seq(Task)
  BY DEF EngineTurn, TypeOK
<1>2. /\ Len(micro) \in Nat \ {0} /\ DOMAIN micro = 1 .. Len(micro) /\ Head(micro) = micro[1]
      /\ Tail(micro) \in Seq(Task) /\ DOMAIN Tail(micro) = 1 .. Len(micro) - 1
      /\ \A i \in 1 .. Len(micro) - 1 : Tail(micro)[i] = micro[i + 1]
  BY <1>1, TailFacts
<1> QED
  BY <1>1, <1>2

\* a microtask that runs no stack is taken, and may queue another such
LEMMA TaskInv ==
  ASSUME TypeOK, EngineInv, NEW task, EngineTurn(task), NEW t \in Task,
         t[1] \in {"unwind", "return", "throw"},
         micro' \in {Tail(micro), Append(Tail(micro), t)},
         \/ UNCHANGED status
         \/ \E p \in Pid : status' = [status EXCEPT ![p] = "done"],
         mainDone => mainDone',
         \A q \in Pid : status'[q] = "running" /\ task \in Settling(q) =>
                          q = Main /\ mainDone',
         UNCHANGED <<slice, current>>
  PROVE  EngineInv'
<1>1. /\ slice = NoPid /\ 1 \in DOMAIN micro /\ micro[1] = task /\ Tail(micro) \in Seq(Task)
      /\ \A i \in DOMAIN micro : i \in Nat
      /\ \A i \in DOMAIN Tail(micro) :
           i \in Nat /\ i + 1 \in DOMAIN micro /\ i + 1 # 1 /\ Tail(micro)[i] = micro[i + 1]
      /\ \A i \in DOMAIN micro :
           i = 1 \/ (i - 1 \in DOMAIN Tail(micro) /\ Tail(micro)[i - 1] = micro[i])
  BY MicroHead
<1>2. /\ \A i \in DOMAIN Tail(micro) : i \in DOMAIN micro' /\ micro'[i] = Tail(micro)[i]
      /\ \A i \in DOMAIN micro' : i \in DOMAIN Tail(micro) \/ micro'[i] = t
  BY <1>1, AppendTask
<1>3. /\ \A i \in DOMAIN micro' : micro'[i][1] \in {"loop", "run"} =>
           /\ i + 1 \in DOMAIN micro /\ micro'[i] = micro[i + 1] /\ i \in Nat
      /\ \A i \in DOMAIN micro : i # 1 =>
           /\ i - 1 \in DOMAIN micro' /\ micro'[i - 1] = micro[i]
  BY <1>1, <1>2
<1>4. \A q \in Pid : status'[q] = "running" => status[q] = "running"
  BY DEF TypeOK
<1>5. Executes'
  BY <1>1 DEF Executes
<1>6. MicroOrder'
  <2>1. ASSUME NEW i \in DOMAIN micro', NEW j \in DOMAIN micro',
               micro'[i][1] = micro'[j][1], micro'[i][1] \in {"loop", "run"}
        PROVE  i = j
    <3>1. i + 1 = j + 1 /\ i \in Nat /\ j \in Nat
      BY <1>3, <2>1 DEF EngineInv, MicroOrder
    <3> QED
      BY <3>1
  <2>2. ASSUME NEW i \in DOMAIN micro', NEW j \in DOMAIN micro',
               micro'[i][1] = "run", micro'[j][1] = "loop"
        PROVE  i < j
    <3>1. i + 1 < j + 1 /\ i \in Nat /\ j \in Nat
      BY <1>3, <2>2 DEF EngineInv, MicroOrder
    <3> QED
      BY <3>1
  <2> QED
    BY <2>1, <2>2 DEF MicroOrder
<1>7. RunSound'
  <2> SUFFICES ASSUME NEW i \in DOMAIN micro', micro'[i][1] = "run"
               PROVE  /\ slice' = NoPid /\ current' = micro'[i][2]
                      /\ Alive(current)' => status'[current'] = "running"
    BY DEF RunSound
  <2>1. i + 1 \in DOMAIN micro /\ micro'[i] = micro[i + 1]
    BY <1>3
  <2>2. current = micro[i + 1][2] /\ (Alive(current) => status[current] = "running")
    BY <2>1 DEF EngineInv, RunSound
  <2> QED
    BY <1>1, <2>1, <2>2 DEF Alive, Exists, TypeOK
<1>8. ASSUME NEW q \in Pid, status'[q] = "running", ~(q = Main /\ mainDone')
      PROVE  \E i \in DOMAIN micro' : micro'[i] \in {"run", "return", "throw"} \X {q}
  <2>1. q # slice
    BY <1>1 DEF NoPid, Pid
  <2>2. PICK i \in DOMAIN micro : micro[i] \in Settling(q)
    BY <1>4, <1>8, <2>1 DEF EngineInv, RunningSettles, Settling
  <2>3. i # 1
    BY <1>1, <1>8, <2>2
  <2> QED
    BY <1>3, <2>2, <2>3 DEF Settling
<1> QED
  BY <1>5, <1>6, <1>7, <1>8 DEF EngineInv, RunningSettles

LEMMA RunStackInv ==
  ASSUME TypeOK, IInv, NEW p \in Pid, RunStack(p)
  PROVE  IInv'
<1>1. /\ EngineTurn(<<"run", p>>) /\ slice' = p /\ micro' = Tail(micro)
      /\ UNCHANGED <<status, links, parked, nextPid, runq, current, mainDone, fin>>
  BY DEF RunStack, procVars, parkVars, nameVars
<1>2. /\ slice = NoPid /\ 1 \in DOMAIN micro /\ micro[1] = <<"run", p>>
      /\ \A i \in DOMAIN micro : i \in Nat
      /\ \A i \in DOMAIN micro' :
           i \in Nat /\ i + 1 \in DOMAIN micro /\ i + 1 # 1 /\ micro'[i] = micro[i + 1]
      /\ \A i \in DOMAIN micro : i = 1 \/ (i - 1 \in DOMAIN micro' /\ micro'[i - 1] = micro[i])
  BY <1>1, MicroHead
<1>3. Executes'
  BY <1>1, <1>2 DEF IInv, EngineInv, RunSound, Executes, Alive, Exists
<1>4. \A i \in DOMAIN micro' : micro'[i][1] # "run"
  BY <1>2 DEF IInv, EngineInv, MicroOrder
<1>5. ASSUME NEW i \in DOMAIN micro', NEW j \in DOMAIN micro',
             micro'[i][1] = micro'[j][1], micro'[i][1] = "loop"
      PROVE  i = j
  <2>1. i + 1 = j + 1 /\ i \in Nat /\ j \in Nat
    BY <1>2, <1>5 DEF IInv, EngineInv, MicroOrder
  <2> QED
    BY <2>1
<1>6. MicroOrder' /\ RunSound'
  BY <1>4, <1>5 DEF MicroOrder, RunSound
<1>7. ASSUME NEW q \in Pid, status'[q] = "running", slice' # q, ~(q = Main /\ mainDone')
      PROVE  \E i \in DOMAIN micro' : micro'[i] \in {"run", "return", "throw"} \X {q}
  <2>1. q # slice
    BY <1>2 DEF NoPid, Pid
  <2>2. PICK i \in DOMAIN micro : micro[i] \in Settling(q)
    BY <1>1, <1>7, <2>1 DEF IInv, EngineInv, RunningSettles, Settling
  <2>3. i # 1
    BY <1>1, <1>2, <1>7, <2>2 DEF Settling
  <2> QED
    BY <1>2, <2>2, <2>3 DEF Settling
<1>8. EngineInv'
  BY <1>3, <1>6, <1>7 DEF EngineInv, RunningSettles
<1> QED
  BY <1>1, <1>8 DEF IInv, ProcsInv, Known, Once, AsWhatItIs, NoAbandonedStack, Queued,
     FinSound, Enqueued, Orphan, Alive, Exists

LEMMA UnwindStackInv ==
  ASSUME TypeOK, IInv, NEW p \in Pid, UnwindStack(p)
  PROVE  IInv'
<1>1. /\ EngineTurn(<<"unwind", p>>) /\ micro' = Append(Tail(micro), <<"throw", p>>)
      /\ UNCHANGED <<status, links, parked, nextPid, runq, slice, current, mainDone, fin>>
  BY DEF UnwindStack, procVars, parkVars, nameVars
<1>2. <<"throw", p>> \in Task /\ \A q \in Pid : <<"unwind", p>> \notin Settling(q)
  BY DEF Task, Settling
<1>3. EngineInv'
  BY <1>1, <1>2, TaskInv DEF IInv
<1> QED
  BY <1>1, <1>3 DEF IInv, ProcsInv, Known, Once, AsWhatItIs, NoAbandonedStack, Queued,
     FinSound, Enqueued, Orphan, Alive, Exists

LEMMA SettleInv ==
  ASSUME TypeOK, IInv, NEW p \in Pid, NEW outcome \in {"return", "throw"}, Settle(p, outcome)
  PROVE  IInv'
<1>1. /\ EngineTurn(<<outcome, p>>) /\ slice = NoPid /\ fin = <<>>
      /\ UNCHANGED <<links, nextPid, runq, slice, current>>
  BY DEF Settle, EngineTurn
<1>2. <<"unwind", p>> \in Task /\ \A q \in Pid : <<outcome, p>> \in Settling(q) => q = p
  BY DEF Task, Settling
<1>3. CASE /\ UNCHANGED <<status, parkVars, fin>> /\ micro' = Tail(micro)
           /\ \/ p = Main /\ mainDone'
              \/ ~Alive(p) /\ UNCHANGED mainDone
  <2>1. \A q \in Pid : status'[q] = "running" /\ <<outcome, p>> \in Settling(q) =>
          q = Main /\ mainDone'
    BY <1>2, <1>3 DEF Alive, Exists
  <2>2. EngineInv'
    BY <1>1, <1>2, <1>3, <2>1, TaskInv DEF IInv
  <2> QED
    BY <1>1, <1>3, <2>2 DEF parkVars, IInv, ProcsInv, Known, Once, AsWhatItIs,
       NoAbandonedStack, Queued, FinSound, Enqueued, Orphan, Alive, Exists
<1>4. CASE /\ Alive(p) /\ BeginFinish(p) /\ micro' = Unwound(p, Tail(micro))
           /\ fin' = <<Frame(p, ReasonRef(p), outcome = "throw", links[p])>>
           /\ UNCHANGED mainDone
  <2> DEFINE f == Frame(p, ReasonRef(p), outcome = "throw", links[p])
  <2>1. f.pid = p
    BY DEF Frame
  <2> HIDE DEF f
  <2>2. fin' = <<f>>
    BY <1>4 DEF f
  <2>3. Ends(p, "done") /\ ProcsInv' /\ Queued' /\ FinSound'
    BY <1>1, <1>4, <2>1, <2>2, DeathBegins
  <2>4. micro' \in {Tail(micro), Append(Tail(micro), <<"unwind", p>>)}
    BY <1>4 DEF Unwound
  <2>5. status' = [status EXCEPT ![p] = "done"] /\ status'[p] # "running"
    BY <2>3 DEF Ends, TypeOK
  <2>6. EngineInv'
    BY <1>1, <1>2, <1>4, <2>4, <2>5, TaskInv DEF IInv
  <2> QED
    BY <2>3, <2>6 DEF IInv
<1> QED
  BY <1>3, <1>4 DEF Settle

LEMMA TimerFiresInv ==
  ASSUME TypeOK, IInv, NEW p \in Pid, TimerFires(p)
  PROVE  IInv'
<1>1. /\ status[p] = "waiting" /\ status' = [status EXCEPT ![p] = "ready"]
      /\ status \in [Pid -> Status] /\ Enqueue(p, "resume") /\ slice = NoPid /\ micro = <<>>
      /\ UNCHANGED <<links, parked, nextPid, slice, current, micro, mainDone, fin>>
  BY DEF TimerFires, Macrotask, nameVars, TypeOK, Status
<1> QED
  BY <1>1, WakeInv DEF MayWake, Woken

(* The proc imports.  They run while a stack executes: no death is under    *)
(* way, and no resumed stack is waiting for its microtask.                 *)

\* a process is created: it is queued, or its spawn_link has thrown
LEMMA NewInv ==
  ASSUME TypeOK, IInv, nextPid <= MaxPid, NewProc(nextPid),
         \A q \in Pid : q # nextPid => links[q] \subseteq links'[q],
         \/ Enqueue(nextPid, "start")
         \/ UNCHANGED runq /\ \E r \in links'[nextPid] : r # nextPid /\ status[r] = "gone",
         UNCHANGED <<parked, current, fin>>
  PROVE  ProcsInv' /\ Queued' /\ FinSound'
<1>1. /\ nextPid \in Pid /\ nextPid' = nextPid + 1 /\ nextPid \in Int /\ Pid \subseteq Int
     
      /\ status \in [Pid -> Status] /\ status' = [status EXCEPT ![nextPid] = "new"]
      /\ links \in [Pid -> SUBSET Pid]
      /\ \A i \in DOMAIN runq : runq[i][1] \in Pid
  BY NewProcType DEF NewProc, TypeOK, Status, Job, Pid
<1>2. /\ status[nextPid] = "absent" /\ \A i \in DOMAIN runq : runq[i][1] # nextPid
  BY <1>1 DEF IInv, ProcsInv, Known
<1>3. \/ UNCHANGED runq
      \/ /\ Len(runq) \in Nat
         /\ DOMAIN runq = 1 .. Len(runq) /\ DOMAIN runq' = 1 .. Len(runq) + 1
         /\ \A i \in 1 .. Len(runq) : runq'[i] = runq[i]
         /\ runq'[Len(runq) + 1] = <<nextPid, "start">>
  BY <1>1, AppendJob
<1>4. Known'
  <2>1. \A q \in Pid : status'[q] = "absent" <=> q >= nextPid'
    BY <1>1 DEF IInv, ProcsInv, Known
  <2>2. current' < nextPid' /\ current \in Pid
    BY <1>1 DEF IInv, ProcsInv, Known, TypeOK
  <2>3. \A i \in DOMAIN runq' : status'[runq'[i][1]] # "absent"
    BY <1>1, <1>3 DEF IInv, ProcsInv, Known
  <2> QED
    BY <2>1, <2>2, <2>3 DEF Known
<1>5. Once'
  BY <1>2, <1>3 DEF IInv, ProcsInv, Once
<1>6. AsWhatItIs'
  <2>1. \A i \in DOMAIN runq : status'[runq[i][1]] = status[runq[i][1]]
    BY <1>1, <1>2
  <2>2. ASSUME NEW i \in DOMAIN runq'
        PROVE  (i \in DOMAIN runq /\ runq'[i] = runq[i]) \/ runq'[i] = <<nextPid, "start">>
    <3>1. CASE UNCHANGED runq
      BY <3>1
    <3>2. CASE ~UNCHANGED runq
      <4>1. i \in 1 .. Len(runq) \/ i = Len(runq) + 1
        BY <1>3, <3>2
      <4> QED
        BY <1>3, <3>2, <4>1
    <3> QED
      BY <3>1, <3>2
  <2> QED
    BY <1>1, <2>1, <2>2 DEF IInv, ProcsInv, AsWhatItIs, Alive, Exists
<1>7. NoAbandonedStack'
  BY <1>1, <1>2 DEF IInv, ProcsInv, NoAbandonedStack
<1>8. ASSUME NEW q \in Pid, status'[q] \in {"new", "ready", "runnable"}
      PROVE  Enqueued(q)' \/ Orphan(q)'
  <2>1. CASE q = nextPid
    <3>1. CASE UNCHANGED runq
      <4>1. PICK r \in links'[nextPid] : r # nextPid /\ status[r] = "gone"
        BY <1>2, <3>1, <1>3, AppendJob, <1>1
      <4> QED
        BY <1>1, <2>1, <4>1 DEF Orphan
    <3>2. CASE Enqueue(nextPid, "start")
      BY <1>1, <2>1, <3>2, AppendJob DEF Enqueued
    <3> QED
      BY <3>1, <3>2
  <2>2. CASE q # nextPid
    <3>1. Enqueued(q) \/ Orphan(q)
      BY <1>1, <1>8, <2>2 DEF IInv, Queued
    <3>2. Enqueued(q) => Enqueued(q)'
      BY <1>3 DEF Enqueued
    <3>3. Orphan(q) => Orphan(q)'
      BY <1>1, <1>2, <2>2 DEF Orphan
    <3> QED
      BY <3>1, <3>2, <3>3
  <2> QED
    BY <2>1, <2>2
<1>9. FinSound'
  BY <1>1, <1>2 DEF IInv, FinSound
<1> QED
  BY <1>4, <1>5, <1>6, <1>7, <1>8, <1>9 DEF ProcsInv, Queued

\* the stack stops: main() has a continuation, and what the stack settles is queued
LEMMA StackStopsInv ==
  ASSUME TypeOK, EngineInv, Executing, NEW settled, StackStops(settled),
         NEW t \in {"return", "throw"} \X {slice}, settled \in {<<>>, <<t>>},
         \A q \in Pid : status'[q] = "running" => status[q] = "running",
         status'[slice] = "running" => settled = <<t>>,
         UNCHANGED mainDone
  PROVE  EngineInv'
<1>1. /\ slice \in Pid /\ slice' = NoPid /\ micro \in Seq(Task)
      /\ t \in Task /\ LoopTask \in Task /\ t[1] # "loop" /\ t[1] # "run" /\ t[2] = slice
  BY DEF Executing, StackStops, TypeOK, Task
<1>2. \A i \in DOMAIN micro : micro[i][1] # "run"
  BY DEF EngineInv, RunSound, Executing
<1>3. /\ Len(micro) \in Nat /\ DOMAIN micro = 1 .. Len(micro)
      /\ \A x \in Task : micro \o <<x>> = Append(micro, x)
      /\ \A x, y \in Task : (micro \o <<x>>) \o <<y>> = Append(Append(micro, x), y)
      /\ micro \o <<>> = micro
  <2>1. Len(micro) \in Nat /\ DOMAIN micro = 1 .. Len(micro) /\ micro \o <<>> = micro
    BY <1>1, LenProperties, ConcatEmptySeq
  <2>2. ASSUME NEW x \in Task PROVE micro \o <<x>> = Append(micro, x)
    BY <1>1, AppendIsConcat
  <2>3. ASSUME NEW x \in Task, NEW y \in Task
        PROVE  (micro \o <<x>>) \o <<y>> = Append(Append(micro, x), y)
    <3>1. micro \o <<x>> = Append(micro, x) /\ Append(micro, x) \in Seq(Task)
      BY <1>1, AppendIsConcat, AppendProperties
    <3>2. Append(micro, x) \o <<y>> = Append(Append(micro, x), y)
      BY <3>1, AppendIsConcat
    <3> QED
      BY <3>1, <3>2
  <2> QED
    BY <2>1, <2>2, <2>3
<1>4. /\ \A i \in 1 .. Len(micro) : i \in DOMAIN micro' /\ micro'[i] = micro[i]
      /\ \A i \in DOMAIN micro' :
           i \in 1 .. Len(micro) \/ micro'[i] = t \/ (micro'[i] = LoopTask /\ ~LoopQueued)
      /\ \A i, j \in DOMAIN micro' :
           i \notin 1 .. Len(micro) /\ j \notin 1 .. Len(micro)
             /\ micro'[i] = LoopTask /\ micro'[j] = LoopTask => i = j
      /\ settled = <<t>> => \E i \in DOMAIN micro' : micro'[i] = t
  <2>0. t # LoopTask /\ settled = <<>> => settled # <<t>>
    BY <1>1 DEF LoopTask
  <2>1. CASE micro' = micro /\ settled = <<>>
    BY <1>3, <2>1
  <2>2. CASE micro' = Append(micro, t)
    BY <1>1, <2>2, AppendTask
  <2>3. CASE micro' = Append(micro, LoopTask) /\ ~LoopQueued /\ settled = <<>>
    BY <1>1, <2>3, AppendTask
  <2>4. CASE /\ ~LoopQueued
             /\ micro' \in {Append(Append(micro, t), LoopTask),
                            Append(Append(micro, LoopTask), t)}
    <3>1. /\ DOMAIN micro' = 1 .. Len(micro) + 2
          /\ \A i \in 1 .. Len(micro) : micro'[i] = micro[i]
          /\ \/ micro'[Len(micro) + 1] = t /\ micro'[Len(micro) + 2] = LoopTask
             \/ micro'[Len(micro) + 1] = LoopTask /\ micro'[Len(micro) + 2] = t
      <4>1. ASSUME NEW x \in Task, NEW y \in Task, micro' = Append(Append(micro, x), y)
            PROVE  /\ DOMAIN micro' = 1 .. Len(micro) + 2
                   /\ \A i \in 1 .. Len(micro) : micro'[i] = micro[i]
                   /\ micro'[Len(micro) + 1] = x /\ micro'[Len(micro) + 2] = y
        <5> DEFINE one == Append(micro, x)
        <5>1. /\ one \in Seq(Task) /\ Len(one) = Len(micro) + 1 /\ one[Len(micro) + 1] = x
              /\ \A i \in 1 .. Len(micro) : one[i] = micro[i]
          BY <1>1, <1>3, AppendProperties
        <5> HIDE DEF one
        <5>2. DOMAIN Append(one, y) = 1 .. Len(one) + 1 /\ Append(one, y)[Len(one) + 1] = y
              /\ \A i \in 1 .. Len(one) : Append(one, y)[i] = one[i]
          BY <5>1, AppendTask
        <5>3. micro' = Append(one, y)
          BY <4>1 DEF one
        <5> QED
          BY <1>3, <5>1, <5>2, <5>3
      <4> QED
        BY <1>1, <2>4, <4>1
    <3>2. t # LoopTask
      BY <1>1 DEF LoopTask
    <3>3. \A i \in DOMAIN micro' :
            i \in 1 .. Len(micro) \/ i = Len(micro) + 1 \/ i = Len(micro) + 2
      BY <1>3, <3>1
    <3>4. 1 .. Len(micro) \subseteq DOMAIN micro'
          /\ Len(micro) + 1 \in DOMAIN micro' /\ Len(micro) + 2 \in DOMAIN micro'
      BY <1>3, <3>1
    <3>5. Len(micro) + 1 \notin 1 .. Len(micro) /\ Len(micro) + 2 \notin 1 .. Len(micro)
      BY <1>3
    <3>6. \E i \in DOMAIN micro' : micro'[i] = t
      BY <3>1, <3>4
    <3>7. ASSUME NEW i \in DOMAIN micro', NEW j \in DOMAIN micro',
                 i \notin 1 .. Len(micro), j \notin 1 .. Len(micro),
                 micro'[i] = LoopTask, micro'[j] = LoopTask
          PROVE  i = j
      BY <3>1, <3>2, <3>3, <3>7
    <3>8. \A i \in DOMAIN micro' :
            i \in 1 .. Len(micro) \/ micro'[i] = t \/ micro'[i] = LoopTask
      BY <3>1, <3>3
    <3> QED
      BY <2>4, <3>1, <3>4, <3>6, <3>7, <3>8
  <2>5. CASE LoopQueued
    BY <1>1, <1>3, <2>1, <2>2, <2>5 DEF StackStops
  <2>6. CASE ~LoopQueued
    <3>1. CASE settled = <<>>
      <4>1. micro' = Append(micro, LoopTask)
        BY <1>1, <1>3, <2>6, <3>1 DEF StackStops
      <4> QED
        BY <2>3, <2>6, <3>1, <4>1
    <3>2. CASE settled = <<t>>
      <4>1. micro' \in {Append(Append(micro, t), LoopTask), Append(Append(micro, LoopTask), t)}
        BY <1>1, <1>3, <2>6, <3>2 DEF StackStops
      <4> QED
        BY <2>4, <2>6, <4>1
    <3> QED
      BY <3>1, <3>2
  <2> QED
    BY <2>5, <2>6
<1>5. Executes'
  BY <1>1 DEF Executes
<1>6. \A i \in DOMAIN micro' : micro'[i][1] # "run"
  BY <1>1, <1>2, <1>3, <1>4 DEF LoopTask
<1>7. ASSUME NEW i \in DOMAIN micro', NEW j \in DOMAIN micro',
             micro'[i][1] = "loop", micro'[j][1] = "loop"
      PROVE  i = j
  <2>1. \A k \in DOMAIN micro : micro[k][1] = "loop" => LoopQueued
    BY <1>1 DEF LoopQueued, Task, LoopTask
  <2> QED
    BY <1>1, <1>3, <1>4, <1>7, <2>1 DEF EngineInv, MicroOrder
<1>8. MicroOrder' /\ RunSound'
  BY <1>6, <1>7 DEF MicroOrder, RunSound
<1>9. ASSUME NEW q \in Pid, status'[q] = "running", ~(q = Main /\ mainDone')
      PROVE  \E i \in DOMAIN micro' : micro'[i] \in {"run", "return", "throw"} \X {q}
  <2>1. CASE q = slice
    BY <1>1, <1>4, <1>9, <2>1
  <2>2. CASE q # slice
    <3>1. PICK i \in DOMAIN micro : micro[i] \in {"run", "return", "throw"} \X {q}
      BY <1>9, <2>2 DEF EngineInv, RunningSettles
    <3> QED
      BY <1>3, <1>4, <3>1
  <2> QED
    BY <2>1, <2>2
<1> QED
  BY <1>5, <1>8, <1>9 DEF EngineInv, RunningSettles

\* the new process is queued and its creator goes on
LEMMA NewRuns ==
  ASSUME TypeOK, IInv, Executing, nextPid <= MaxPid, NewProc(nextPid),
         Enqueue(nextPid, "start"),
         \A q \in Pid : q # nextPid => links[q] \subseteq links'[q],
         UNCHANGED <<parked, current, slice, micro, mainDone, fin>>
  PROVE  IInv'
<1>1. ProcsInv' /\ Queued' /\ FinSound'
  BY NewInv
<1>2. /\ nextPid \in Pid /\ current # nextPid
      /\ status \in [Pid -> Status] /\ status' = [status EXCEPT ![nextPid] = "new"]
  BY NewProcType DEF NewProc, IInv, ProcsInv, Known, TypeOK, Status, Pid
<1>3. EngineInv'
  BY <1>2 DEF IInv, EngineInv, Executes, MicroOrder, RunSound, RunningSettles, Alive, Exists
<1> QED
  BY <1>1, <1>3 DEF IInv

LEMMA ImportIInv ==
  ASSUME TypeOK, IInv, Import
  PROVE  IInv'
<1>1. CASE Spawn
  <2>1. /\ Executing /\ nextPid <= MaxPid /\ NewProc(nextPid) /\ Enqueue(nextPid, "start")
        /\ UNCHANGED <<links, parked, current, slice, micro, mainDone, fin>>
    BY <1>1 DEF Spawn, Call, parkVars
  <2> QED
    BY <2>1, NewRuns
<1>2. CASE SpawnLink
  <2>1. /\ Executing /\ nextPid <= MaxPid /\ NewProc(nextPid) /\ Enqueue(nextPid, "start")
        /\ links' = [links EXCEPT ![nextPid] = {current}, ![current] = @ \cup {nextPid}]
        /\ UNCHANGED <<parked, current, slice, micro, mainDone, fin>>
    BY <1>2 DEF SpawnLink, Call, parkVars
  <2>2. \A q \in Pid : q # nextPid => links[q] \subseteq links'[q]
    BY <2>1 DEF TypeOK
  <2> QED
    BY <2>1, <2>2, NewRuns
<1>3. CASE SpawnLinkThrows
  <2>1. /\ Executing /\ ~Alive(current) /\ nextPid <= MaxPid /\ NewProc(nextPid)
        /\ links' = [links EXCEPT ![nextPid] = {current}]
        /\ StackStops(<<<<"throw", slice>>>>)
        /\ UNCHANGED <<parked, runq, current, mainDone, fin>>
    BY <1>3 DEF SpawnLinkThrows, parkVars
  <2>2. /\ current \in Pid /\ current # nextPid /\ nextPid \in Pid
        /\ fin = <<>> /\ slice \in Pid
        /\ status \in [Pid -> Status] /\ links \in [Pid -> SUBSET Pid]
        /\ status' = [status EXCEPT ![nextPid] = "new"]
    BY <2>1, NewProcType DEF IInv, ProcsInv, Known, TypeOK, Executing, Status, NewProc, Pid
  <2>3. status[current] = "gone"
    BY <2>1, <2>2 DEF IInv, ProcsInv, Known, FinSound, Alive, Exists, Pid, TypeOK
  <2>4. links'[nextPid] = {current} /\ \A q \in Pid : q # nextPid => links'[q] = links[q]
    BY <2>1, <2>2
  <2>5. ProcsInv' /\ Queued' /\ FinSound'
    BY <2>1, <2>2, <2>3, <2>4, NewInv
  <2>6. \A q \in Pid : status'[q] = "running" => status[q] = "running"
    BY <2>2
  <2>7. EngineInv'
    BY <2>1, <2>2, <2>6, StackStopsInv DEF IInv
  <2> QED
    BY <2>5, <2>7 DEF IInv
<1>4. ASSUME NEW dest, Send(dest) PROVE IInv'
  <2>1. UNCHANGED <<links, parked, nextPid, current, slice, micro, mainDone, fin>>
    BY <1>4 DEF Send, nameVars
  <2>2. CASE Alive(dest)
    <3>1. dest \in Pid /\ Wake(dest)
      BY <1>4, <2>2 DEF Send, Post, Alive, Exists
    <3> QED
      BY <2>1, <3>1, WakeMayWake, WakeInv
  <2>3. CASE ~Alive(dest)
    BY <1>4, <2>1, <2>3, Untouched DEF Send, ivars
  <2> QED
    BY <2>2, <2>3
<1>5. CASE SendAny
  BY <1>4, <1>5 DEF SendAny
<1>6. ASSUME NEW p \in Pid, NEW r \in Reasons, Exit2(p, r) PROVE IInv'
  <2>1. /\ fin = <<>> /\ UNCHANGED <<links, nextPid, current, slice, mainDone>>
    BY <1>6 DEF Exit2, Call, Executing
  <2>2. CASE UNCHANGED <<status, parked, runq, micro, fin>>
    BY <2>1, <2>2, Untouched DEF ivars
  <2>3. CASE Wake(p) /\ UNCHANGED <<parked, micro, fin>>
    BY <2>1, <2>3, WakeMayWake, WakeInv
  <2>4. CASE /\ Alive(p) /\ BeginFinish(p) /\ micro' = Unwound(p, micro) /\ UNCHANGED runq
             /\ fin' = <<Frame(p, r, TRUE, links[p])>>
    <3> DEFINE f == Frame(p, r, TRUE, links[p])
    <3>1. f.pid = p
      BY DEF Frame
    <3> HIDE DEF f
    <3>2. fin' = <<f>>
      BY <2>4 DEF f
    <3>3. Ends(p, "done") /\ ProcsInv' /\ Queued' /\ FinSound'
      BY <2>1, <2>4, <3>1, <3>2, DeathBegins
    <3>4. micro' \in {micro, Append(micro, <<"unwind", p>>)}
      BY <2>4 DEF Unwound
    <3>5. EngineInv'
      BY <2>1, <3>3, <3>4, EndsEngine DEF IInv
    <3> QED
      BY <3>3, <3>5 DEF IInv
  <2> QED
    BY <1>6, <2>2, <2>3, <2>4 DEF Exit2, Post
<1>7. CASE \/ \E i \in DOMAIN mailbox[current] : Receive(i)
           \/ \E v \in BOOLEAN : SetTrapExit(v)
           \/ \E n \in Names, p \in Pid : Register(n, p)
           \/ \E p \in Pid : MonitorProc(p)
           \/ \E ref \in Ref : Demonitor(ref)
  <2>1. UNCHANGED ivars
    BY <1>7 DEF Receive, SetTrapExit, Register, MonitorProc, Demonitor, ivars, procVars,
       parkVars, nameVars
  <2> QED
    BY <2>1, Untouched
<1> QED
  BY <1>1, <1>2, <1>3, <1>5, <1>6, <1>7 DEF Import

LEMMA StopIInv ==
  ASSUME TypeOK, IInv, Stop
  PROVE  IInv'
<1>1. /\ Executing /\ fin = <<>> /\ slice \in Pid /\ current = slice /\ current \in Pid
      /\ status \in [Pid -> Status] /\ parked \in [Pid -> Wait] /\ nextPid \in Int
      /\ Alive(slice) => status[slice] = "running"
      /\ \A i \in DOMAIN runq : runq[i][1] \in Pid
  BY DEF Stop, RecvWait, RecvWaitTimeout, Yield, Park, Return, ExitSelf, Crash, Executing,
     IInv, EngineInv, Executes, TypeOK, Status, Wait, Job
<1>2. ASSUME NEW k \in Wait \ {"none"}, NEW s \in {"waiting", "ready"}, Park(k, s),
             \/ s = "waiting" /\ UNCHANGED runq
             \/ s = "ready" /\ Enqueue(current, "resume")
      PROVE  IInv'
  <2>1. /\ Alive(current) /\ status[current] = "running" /\ StackStops(<<>>)
        /\ status' = [status EXCEPT ![current] = s]
        /\ parked' = [parked EXCEPT ![current] = k]
        /\ UNCHANGED <<links, nextPid, current, mainDone, fin>>
    BY <1>1, <1>2 DEF Park, nameVars
  <2>2. \A i \in DOMAIN runq : runq[i][1] # current
    BY <2>1 DEF IInv, ProcsInv, AsWhatItIs
  <2>3. \/ UNCHANGED runq /\ s = "waiting"
        \/ /\ s = "ready"
           /\ Len(runq) \in Nat
           /\ DOMAIN runq = 1 .. Len(runq) /\ DOMAIN runq' = 1 .. Len(runq) + 1
           /\ \A i \in 1 .. Len(runq) : runq'[i] = runq[i]
           /\ runq'[Len(runq) + 1] = <<current, "resume">>
    BY <1>1, <1>2, AppendJob
  <2>4. \A i \in DOMAIN runq' :
          \/ i \in DOMAIN runq /\ runq'[i] = runq[i]
          \/ s = "ready" /\ runq'[i] = <<current, "resume">>
    <3>1. CASE UNCHANGED runq
      BY <3>1
    <3>2. CASE ~UNCHANGED runq
      <4>1. \A i \in DOMAIN runq' : i \in 1 .. Len(runq) \/ i = Len(runq) + 1
        BY <2>3, <3>2
      <4> QED
        BY <2>3, <3>2, <4>1
    <3> QED
      BY <3>1, <3>2
  <2>5. Known'
    BY <1>1, <2>1, <2>4 DEF IInv, ProcsInv, Known
  <2>6. Once'
    BY <2>2, <2>3 DEF IInv, ProcsInv, Once
  <2>7. AsWhatItIs'
    <3>1. \A i \in DOMAIN runq : status'[runq[i][1]] = status[runq[i][1]]
      BY <1>1, <2>1, <2>2
    <3> QED
      BY <1>1, <2>1, <2>4, <3>1 DEF IInv, ProcsInv, AsWhatItIs, Alive, Exists
  <2>8. NoAbandonedStack'
    BY <1>1, <2>1 DEF IInv, ProcsInv, NoAbandonedStack, Wait
  <2>9. ASSUME NEW q \in Pid, status'[q] \in {"new", "ready", "runnable"}
        PROVE  Enqueued(q)' \/ Orphan(q)'
    <3>1. CASE q = current
      BY <1>1, <2>1, <2>3, <2>9, <3>1 DEF Enqueued
    <3>2. CASE q # current
      <4>1. Enqueued(q) \/ Orphan(q)
        BY <1>1, <2>1, <2>9, <3>2 DEF IInv, Queued
      <4>2. Enqueued(q) => Enqueued(q)'
        BY <2>3 DEF Enqueued
      <4>3. Orphan(q) => Orphan(q)'
        BY <1>1, <2>1, <3>2 DEF Orphan, TypeOK
      <4> QED
        BY <4>1, <4>2, <4>3
    <3> QED
      BY <3>1, <3>2
  <2>10. FinSound'
    BY <1>1, <2>1 DEF IInv, FinSound
  <2>11. EngineInv'
    <3>1. /\ <<"throw", slice>> \in {"return", "throw"} \X {slice}
          /\ \A q \in Pid : status'[q] = "running" => status[q] = "running"
          /\ status'[slice] # "running"
      BY <1>1, <2>1
    <3> QED
      BY <1>1, <2>1, <3>1, StackStopsInv DEF IInv
  <2> QED
    BY <2>5, <2>6, <2>7, <2>8, <2>9, <2>10, <2>11 DEF IInv, ProcsInv, Queued
<1>3. CASE RecvWait \/ RecvWaitTimeout \/ Yield
  BY <1>2, <1>3 DEF RecvWait, RecvWaitTimeout, Yield, Wait
<1>4. CASE Return \/ Crash \/ \E r \in Reasons : ExitSelf(r)
  <2>1. /\ \E o \in {"return", "throw"} : StackStops(<<<<o, slice>>>>)
        /\ UNCHANGED <<status, links, parked, nextPid, runq, current, mainDone, fin>>
    BY <1>4 DEF Return, Crash, ExitSelf, procVars, parkVars, nameVars
  <2>2. EngineInv'
    BY <1>1, <2>1, StackStopsInv DEF IInv
  <2> QED
    BY <2>1, <2>2 DEF IInv, ProcsInv, Known, Once, AsWhatItIs, NoAbandonedStack, Queued,
       FinSound, Enqueued, Orphan, Alive, Exists
<1> QED
  BY <1>3, <1>4 DEF Stop

LEMMA StepIInv == TypeOK /\ IInv /\ [Next]_vars => IInv'
<1> SUFFICES ASSUME TypeOK, IInv, [Next]_vars PROVE IInv'
  OBVIOUS
<1>1. CASE Ended \/ UNCHANGED vars
  BY <1>1, Untouched DEF Ended, ivars, vars, procVars, parkVars, nameVars, loopVars
<1>2. CASE Engine
  BY <1>2, RunStackInv, UnwindStackInv, SettleInv DEF Engine
<1> QED
  BY <1>1, <1>2, FinishIInv, LoopIInv, TimerFiresInv, ImportIInv, StopIInv DEF Next

\* Whatever the processes do, and whatever the engine runs in between: the run queue
\* of scheduler.mjs holds each process once and as what it is, a stack is parked
\* exactly while its process waits or is queued, so that a death abandons none, a
\* process marked "running" is one the loop need not wait for, and the pid P() looks
\* up is that of the stack that calls it.
THEOREM SchedulerSound ==
  Spec => [](RunQueueSound /\ NoAbandonedStack /\ RunningSettles /\ CurrentIsExecuting)
<1>1. IInv => RunQueueSound /\ NoAbandonedStack /\ RunningSettles /\ CurrentIsExecuting
  BY DEF IInv, ProcsInv, EngineInv, Once, AsWhatItIs, Queued, Executes, RunQueueSound,
     CurrentIsExecuting
<1>2. Init => TypeOK /\ IInv
  BY InitType, InitIInv
<1>3. TypeOK /\ IInv /\ [Next]_vars => (TypeOK /\ IInv)'
  BY StepType, StepIInv
<1> QED
  BY <1>1, <1>2, <1>3, PTL DEF Spec
=============================================================================
