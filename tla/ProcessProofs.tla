---------------------------- MODULE ProcessProofs ----------------------------
(***************************************************************************)
(* The receive timers of Scheduler.tla, the DEADLOCK exit that counts on    *)
(* them, the links between and during deaths, and what a whole death does,  *)
(* for any number of processes, on top of what SchedulerProofs shows.      *)
(***************************************************************************)
EXTENDS SchedulerProofs, MCScheduler, FiniteSetTheorems

-----------------------------------------------------------------------------
(* Timers.                                                                 *)

TimedWait(p) == status[p] = "waiting" /\ parked[p] = "timed"

\* a timed wait has not timed out yet
Unexpired == \A p \in Pid : TimedWait(p) => p \notin timedOut

TimerInv == TimersBalanced /\ TimeoutXorMessage /\ Unexpired

LEMMA InitTimerInv == Init => TimerInv
BY FS_EmptySet DEF Init, TimerInv, TimersBalanced, TimeoutXorMessage, Unexpired, TimedWait

LEMMA TimerFinite == ASSUME TypeOK PROVE IsFiniteSet(timer)
<1>1. MaxPid \in Int /\ Pid = 1 .. MaxPid
  BY SchedulerAssumption DEF Pid
<1>2. IsFiniteSet(Pid)
  BY <1>1, FS_Interval
<1> QED
  BY <1>2, FS_Subset DEF TypeOK

\* the number of timers is kept by clearTimer and by arming one more
LEMMA ClearCounts ==
  ASSUME TypeOK, TimersBalanced, NEW p \in Pid, ClearTimer(p)
  PROVE  pendingTimers' = Cardinality(timer') /\ timer' = timer \ {p}
BY TimerFinite, FS_RemoveElement DEF ClearTimer, TimersBalanced

LEMMA ArmCounts ==
  ASSUME TypeOK, TimersBalanced, NEW p \in Pid, p \notin timer,
         timer' = timer \cup {p}, pendingTimers' = pendingTimers + 1
  PROVE  pendingTimers' = Cardinality(timer')
BY TimerFinite, FS_AddElement DEF TimersBalanced

(* The timers are left alone by a step that neither begins nor ends a timed  *)
(* wait, nor touches a woken one.                                          *)
Quiet ==
  /\ UNCHANGED <<timer, pendingTimers>>
  /\ \A p \in Pid : TimedWait(p)' <=> TimedWait(p)
  /\ \A p \in Pid : parked'[p] = "timed" /\ status'[p] \in {"waiting", "ready", "runnable"} =>
       /\ parked[p] = "timed" /\ status[p] = status'[p]
       /\ p \in timedOut' <=> p \in timedOut

LEMMA QuietKeeps == ASSUME TimerInv, Quiet PROVE TimerInv'
<1>1. TimersBalanced'
  BY DEF TimerInv, TimersBalanced, Quiet, TimedWait
<1>2. TimeoutXorMessage'
  BY DEF TimerInv, TimeoutXorMessage, Quiet
<1>3. Unexpired'
  BY DEF TimerInv, Unexpired, Quiet, TimedWait
<1> QED
  BY <1>1, <1>2, <1>3 DEF TimerInv

LEMMA StillKeeps == ASSUME TimerInv, UNCHANGED <<status, parkVars>> PROVE TimerInv'
BY QuietKeeps DEF parkVars, Quiet, TimedWait

\* a process whose status changes, neither from nor to "waiting", and is not timed
LEMMA MovesKeeps ==
  ASSUME TypeOK, TimerInv, NEW p \in Pid, NEW as \in {"new", "running", "done", "gone"},
         status' = [status EXCEPT ![p] = as], status[p] # "waiting",
         parked' \in {parked, [parked EXCEPT ![p] = "none"]},
         timedOut' \in {timedOut, timedOut \ {p}}, UNCHANGED <<timer, pendingTimers>>
  PROVE  TimerInv'
<1>1. status \in [Pid -> Status] /\ parked \in [Pid -> Wait]
  BY DEF TypeOK, Status, Wait
<1>2. \A q \in Pid : q # p => status'[q] = status[q] /\ parked'[q] = parked[q]
  BY <1>1
<1>3. status'[p] = as
  BY <1>1
<1>4. Quiet
  BY <1>2, <1>3 DEF Quiet, TimedWait
<1> QED
  BY <1>4, QuietKeeps

\* wake(): the message wins, the timer is cleared
LEMMA WakeKeeps ==
  ASSUME TypeOK, TimerInv, NEW p \in Pid, Wake(p), UNCHANGED <<parked, timedOut>>
  PROVE  TimerInv'
<1>1. CASE status[p] # "waiting"
  BY <1>1, StillKeeps DEF Wake, parkVars
<1>2. CASE status[p] = "waiting"
  <2>1. status \in [Pid -> Status] /\ status' = [status EXCEPT ![p] = "runnable"]
    BY <1>2 DEF TypeOK, Status, Wake
  <2>2. ClearTimer(p)
    BY <1>2 DEF Wake
  <2>3. pendingTimers' = Cardinality(timer') /\ timer' = timer \ {p}
    BY <2>2, ClearCounts DEF TimerInv
  <2>4. TimersBalanced'
    BY <2>1, <2>3 DEF TimerInv, TimersBalanced
  <2>5. TimeoutXorMessage' /\ Unexpired'
    BY <1>2, <2>1 DEF TimerInv, TimeoutXorMessage, Unexpired, TimedWait
  <2> QED
    BY <2>4, <2>5 DEF TimerInv
<1> QED
  BY <1>1, <1>2

\* finish() clears the timer of the process it ends
LEMMA EndKeeps ==
  ASSUME TypeOK, TimerInv, NEW p \in Pid, BeginFinish(p), UNCHANGED timedOut
  PROVE  TimerInv'
<1>1. /\ status \in [Pid -> Status] /\ status' = [status EXCEPT ![p] = "done"]
      /\ parked \in [Pid -> Wait] /\ parked' = [parked EXCEPT ![p] = "none"]
  BY DEF TypeOK, Status, Wait, BeginFinish
<1>2. pendingTimers' = Cardinality(timer') /\ timer' = timer \ {p}
  BY ClearCounts DEF TimerInv, BeginFinish
<1>3. TimersBalanced'
  BY <1>1, <1>2 DEF TimerInv, TimersBalanced
<1>4. TimeoutXorMessage' /\ Unexpired'
  BY <1>1 DEF TimerInv, TimeoutXorMessage, Unexpired, TimedWait
<1> QED
  BY <1>3, <1>4 DEF TimerInv

-----------------------------------------------------------------------------
LEMMA FinishKeeps == ASSUME TypeOK, IInv, TimerInv, Finish PROVE TimerInv'
<1>1. CASE FinishLink
  <2>1. PICK q \in Top.todo :
          /\ UNCHANGED timedOut
          /\ \/ UNCHANGED <<status, timer, pendingTimers, parked>>
             \/ Wake(q) /\ UNCHANGED parked
             \/ BeginFinish(q)
    BY <1>1 DEF FinishLink, Post
  <2>2. q \in Pid
    BY <1>1, TopIsDone DEF IInv, FinishLink, Activation
  <2> QED
    BY <2>1, <2>2, StillKeeps, WakeKeeps, EndKeeps DEF parkVars
<1>2. CASE FinishMonitor
  <2>1. PICK m \in monitors :
          /\ UNCHANGED <<timedOut, parked>>
          /\ Wake(m.by) \/ UNCHANGED <<status, timer, pendingTimers>>
    BY <1>2 DEF FinishMonitor, Post
  <2>2. m.by \in Pid
    BY DEF TypeOK, Monitor
  <2> QED
    BY <2>1, <2>2, StillKeeps, WakeKeeps DEF parkVars
<1>3. CASE FinishDone
  <2>1. Top.pid \in Pid /\ status[Top.pid] = "done"
    BY <1>3, TopIsDone DEF IInv, FinishDone
  <2> QED
    BY <1>3, <2>1, MovesKeeps DEF FinishDone
<1> QED
  BY <1>1, <1>2, <1>3 DEF Finish

LEMMA LoopKeeps == ASSUME TypeOK, IInv, TimerInv, Loop PROVE TimerInv'
<1>1. CASE DispatchStart \/ DispatchResume
  <2> DEFINE p == Head(runq)[1]
  <2>1. /\ runq # <<>> /\ Alive(p) /\ status' = [status EXCEPT ![p] = "running"]
        /\ UNCHANGED <<timer, pendingTimers, timedOut>>
        /\ parked' \in {parked, [parked EXCEPT ![p] = "none"]}
    BY <1>1 DEF DispatchStart, DispatchResume, Dispatch, parkVars
  <2>2. p \in Pid /\ 1 \in DOMAIN runq /\ runq[1] = Head(runq)
    BY <2>1, JobHead
  <2>3. status[p] # "waiting"
    BY <2>1, <2>2 DEF IInv, ProcsInv, AsWhatItIs
  <2> QED
    BY <2>1, <2>2, <2>3, MovesKeeps
<1>2. CASE DispatchDead \/ LoopSettle \/ LoopLeave \/ IdleEnds
  BY <1>2, StillKeeps DEF DispatchDead, LoopSettle, LoopLeave, IdleEnds, procVars
<1> QED
  BY <1>1, <1>2 DEF Loop

LEMMA EngineKeeps == ASSUME TypeOK, TimerInv, Engine PROVE TimerInv'
<1>1. ASSUME NEW p \in Pid, RunStack(p) \/ UnwindStack(p) PROVE TimerInv'
  BY <1>1, StillKeeps DEF RunStack, UnwindStack, procVars
<1>2. ASSUME NEW p \in Pid, NEW o \in {"return", "throw"}, Settle(p, o) PROVE TimerInv'
  BY <1>2, StillKeeps, EndKeeps DEF Settle
<1> QED
  BY <1>1, <1>2 DEF Engine

\* the timer's callback finds its process waiting and is the one that answers it
LEMMA FiringKeeps ==
  ASSUME TypeOK, TimerInv, NEW p \in Pid, TimerFires(p) PROVE TimerInv'
<1>1. /\ status \in [Pid -> Status] /\ status' = [status EXCEPT ![p] = "ready"]
      /\ timedOut' = timedOut \cup {p} /\ UNCHANGED parked
  BY DEF TypeOK, Status, TimerFires
<1>2. pendingTimers' = Cardinality(timer') /\ timer' = timer \ {p}
  BY ClearCounts DEF TimerInv, TimerFires
<1>3. TimersBalanced'
  BY <1>1, <1>2 DEF TimerInv, TimersBalanced
<1>4. TimeoutXorMessage' /\ Unexpired'
  BY <1>1 DEF TimerInv, TimeoutXorMessage, Unexpired, TimedWait
<1> QED
  BY <1>3, <1>4 DEF TimerInv

LEMMA ImportKeeps == ASSUME TypeOK, IInv, TimerInv, Import PROVE TimerInv'
<1>1. CASE Spawn \/ SpawnLink \/ SpawnLinkThrows
  <2>1. /\ nextPid \in Pid /\ status' = [status EXCEPT ![nextPid] = "new"]
        /\ UNCHANGED parkVars
    BY <1>1, SchedulerAssumption DEF Spawn, SpawnLink, SpawnLinkThrows, NewProc, TypeOK, Pid
  <2>2. status[nextPid] # "waiting"
    BY <2>1, SchedulerAssumption DEF IInv, ProcsInv, Known, TypeOK, Pid
  <2> QED
    BY <2>1, <2>2, MovesKeeps DEF parkVars
<1>2. CASE SendAny
  <2>1. ASSUME NEW d, Send(d) PROVE TimerInv'
    <3>1. CASE Alive(d)
      BY <2>1, <3>1, WakeKeeps DEF Send, Post, Alive, Exists
    <3>2. CASE ~Alive(d)
      BY <2>1, <3>2, StillKeeps DEF Send, parkVars
    <3> QED
      BY <3>1, <3>2
  <2> QED
    BY <1>2, <2>1 DEF SendAny
<1>3. CASE \E p \in Pid, r \in Reasons : Exit2(p, r)
  BY <1>3, StillKeeps, WakeKeeps, EndKeeps DEF Exit2, Post, parkVars
<1>4. CASE \/ \E i \in DOMAIN mailbox[current] : Receive(i)
           \/ \E v \in BOOLEAN : SetTrapExit(v)
           \/ \E n \in Names, p \in Pid : Register(n, p)
           \/ \E p \in Pid : MonitorProc(p)
           \/ \E ref \in Ref : Demonitor(ref)
  BY <1>4, StillKeeps DEF Receive, SetTrapExit, Register, MonitorProc, Demonitor, procVars
<1> QED
  BY <1>1, <1>2, <1>3, <1>4 DEF Import

LEMMA StopKeeps == ASSUME TypeOK, IInv, TimerInv, Stop PROVE TimerInv'
<1>1. CASE RecvWait \/ RecvWaitTimeout \/ Yield
  <2>1. PICK kind \in {"wait", "timed", "yield"}, as \in {"waiting", "ready"} :
          /\ Park(kind, as)
          /\ kind = "yield" <=> as = "ready"
          /\ IF kind = "timed"
             THEN /\ timedOut' = timedOut \ {current} /\ timer' = timer \cup {current}
                  /\ pendingTimers' = pendingTimers + 1
             ELSE UNCHANGED <<timer, pendingTimers, timedOut>>
    BY <1>1 DEF RecvWait, RecvWaitTimeout, Yield
  <2>2. /\ current \in Pid /\ status[current] = "running"
    BY <2>1 DEF Park, Executing, IInv, EngineInv, Executes, Alive, Exists
  <2>3. /\ status \in [Pid -> Status] /\ status' = [status EXCEPT ![current] = as]
        /\ parked \in [Pid -> Wait] /\ parked' = [parked EXCEPT ![current] = kind]
    BY <2>1 DEF Park, TypeOK, Status, Wait
  <2>4. current \notin timer
    BY <2>2 DEF TimerInv, TimersBalanced
  <2>5. CASE kind = "timed"
    <3>1. pendingTimers' = Cardinality(timer')
      BY <2>1, <2>2, <2>4, <2>5, ArmCounts DEF TimerInv
    <3>2. TimersBalanced'
      BY <2>1, <2>2, <2>3, <2>5, <3>1 DEF TimerInv, TimersBalanced
    <3>3. TimeoutXorMessage' /\ Unexpired'
      BY <2>1, <2>2, <2>3, <2>5 DEF TimerInv, TimeoutXorMessage, Unexpired, TimedWait
    <3> QED
      BY <3>2, <3>3 DEF TimerInv
  <2>6. CASE kind # "timed"
    <3>1. Quiet
      BY <2>1, <2>2, <2>3, <2>6 DEF Quiet, TimedWait
    <3> QED
      BY <3>1, QuietKeeps
  <2> QED
    BY <2>5, <2>6
<1>2. CASE Return \/ Crash \/ \E r \in Reasons : ExitSelf(r)
  BY <1>2, StillKeeps DEF Return, Crash, ExitSelf, procVars
<1> QED
  BY <1>1, <1>2 DEF Stop

LEMMA StepTimerInv == TypeOK /\ IInv /\ TimerInv /\ [Next]_vars => TimerInv'
<1> SUFFICES ASSUME TypeOK, IInv, TimerInv, [Next]_vars PROVE TimerInv'
  OBVIOUS
<1>1. CASE Ended \/ UNCHANGED vars
  BY <1>1, StillKeeps DEF Ended, vars, procVars
<1> QED
  BY <1>1, FinishKeeps, LoopKeeps, EngineKeeps, FiringKeeps, ImportKeeps, StopKeeps DEF Next

-----------------------------------------------------------------------------
(* The DEADLOCK exit.                                                      *)

\* nothing executes once main() has given up
GivenUp == loop = "deadlock" => slice = NoPid /\ fin = <<>>

LEMMA GivingUp ==
  ASSUME TypeOK, IInv, TimerInv, DeadlockIsReal, GivenUp, [Next]_vars
  PROVE  DeadlockIsReal' /\ GivenUp'
<1>1. CASE UNCHANGED vars
  BY <1>1 DEF vars, procVars, parkVars, loopVars, DeadlockIsReal, GivenUp, Alive, Exists, Orphan
<1>2. CASE loop = "deadlock" /\ Next
  <2>1. ~Executing /\ fin = <<>> /\ ~Macrotask /\ \A t : ~EngineTurn(t)
    BY <1>2 DEF GivenUp, Executing, Macrotask, EngineTurn
  <2>2. ~Finish /\ ~Loop /\ ~Engine
    BY <2>1 DEF Finish, FinishLink, FinishMonitor, FinishDone, Loop, DispatchStart,
       DispatchResume, DispatchDead, LoopSettle, LoopLeave, LoopRuns, LoopTurn, IdleEnds,
       Engine, RunStack, UnwindStack, Settle
  <2>3. ~Import /\ ~Stop /\ \A p \in Pid : ~TimerFires(p)
    BY <2>1 DEF Import, Spawn, SpawnLink, SpawnLinkThrows, SendAny, Send, Receive, SetTrapExit,
       Exit2, Register, MonitorProc, Demonitor, Call, Stop, RecvWait, RecvWaitTimeout, Yield,
       Park, Return, Crash, ExitSelf, TimerFires
  <2>4. UNCHANGED vars
    BY <1>2, <2>2, <2>3 DEF Next, Ended
  <2> QED
    BY <1>1, <2>4
<1>3. CASE loop # "deadlock" /\ Next /\ loop' = "deadlock"
  <2>1. LoopLeave
    BY <1>3 DEF Next, Finish, FinishLink, FinishMonitor, FinishDone, Loop, DispatchStart,
       DispatchResume, DispatchDead, LoopSettle, IdleEnds, Engine, RunStack, UnwindStack,
       Settle, Import, Spawn, SpawnLink, SpawnLinkThrows, SendAny, Send, Receive, SetTrapExit,
       Exit2, Register, MonitorProc, Demonitor, Stop, RecvWait, RecvWaitTimeout, Yield,
       Park, Return, Crash, ExitSelf, TimerFires, Ended, vars, loopVars
  <2>2. /\ runq = <<>> /\ ~AnyRunning /\ ~(pendingTimers > 0)
        /\ slice = NoPid /\ fin = <<>>
        /\ UNCHANGED <<status, links, timer, slice, fin>>
    BY <1>3, <2>1 DEF LoopLeave, LoopRuns, LoopTurn, EngineTurn, procVars, parkVars
  <2>3. timer = {}
    <3>1. Cardinality(timer) \in Nat /\ pendingTimers = Cardinality(timer)
      BY TimerFinite, FS_CardinalityType DEF TimerInv, TimersBalanced
    <3>2. Cardinality(timer) = 0
      BY <2>2, <3>1
    <3> QED
      BY <3>2, TimerFinite, FS_EmptySet
  <2>4. ASSUME NEW p \in Pid, Alive(p), status[p] # "waiting" PROVE Orphan(p)
    <3>1. status[p] \in {"new", "ready", "runnable"}
      BY <2>2, <2>4 DEF Alive, Exists, AnyRunning, TypeOK
    <3>2. ~Enqueued(p)
      BY <2>2 DEF Enqueued
    <3> QED
      BY <3>1, <3>2 DEF IInv, Queued
  <2> QED
    BY <2>2, <2>3, <2>4 DEF DeadlockIsReal, GivenUp, Alive, Exists, Orphan
<1>4. CASE loop' # "deadlock"
  BY <1>4 DEF DeadlockIsReal, GivenUp
<1> QED
  BY <1>1, <1>2, <1>3, <1>4

\* recv_wait_timeout and the counter behind it (scheduler.mjs:73-86, 116-118), whatever
\* races with the timer: a timed wait has its timer and nothing else has one, the count
\* that decides whether main() may end is the number of timers, a wait is answered by
\* its timer or by a message and never by both, and DEADLOCK is reported only when no
\* process could run again.
THEOREM TimersSound ==
  Spec => [](TimersBalanced /\ TimeoutXorMessage /\ DeadlockIsReal)
<1> DEFINE Inv == TypeOK /\ IInv /\ TimerInv /\ DeadlockIsReal /\ GivenUp
<1>1. Init => Inv
  BY InitType, InitIInv, InitTimerInv DEF Init, DeadlockIsReal, GivenUp
<1>2. Inv /\ [Next]_vars => Inv'
  BY StepType, StepIInv, StepTimerInv, GivingUp
<1>3. Inv => TimersBalanced /\ TimeoutXorMessage /\ DeadlockIsReal
  BY DEF TimerInv
<1> QED
  BY <1>1, <1>2, <1>3, PTL DEF Spec

-----------------------------------------------------------------------------
(* Links.                                                                  *)

\* an activation of finish() for q has still to deal with its link to p
Pending(q, p) == \E i \in DOMAIN fin : fin[i].pid = q /\ p \in fin[i].todo

Linked(p, q) == Orphan(p) \/ (Alive(q) /\ p \in links[q]) \/ Pending(q, p)

LinkInv ==
  /\ \A p, q \in Pid : Alive(p) /\ q \in links[p] => Linked(p, q)
  /\ \A p \in Pid : ~Exists(p) => links[p] = {}
  /\ \A p \in Pid : Enqueued(p) => ~Orphan(p)

LEMMA LinkInvEnough == ASSUME TypeOK, IInv, LinkInv PROVE LinksMutual
<1> SUFFICES ASSUME fin = <<>>, NEW p \in Pid, NEW q \in Pid, q \in links[p], ~Orphan(p)
             PROVE  Alive(q) /\ p \in links[q]
  BY DEF LinksMutual
<1>1. Exists(p) /\ status[p] # "done"
  BY DEF LinkInv, IInv, FinSound
<1> QED
  BY <1>1 DEF LinkInv, Linked, Pending, Alive

LEMMA InitLinkInv == Init => LinkInv
BY DEF Init, LinkInv, Exists, Enqueued

(* A step that makes no process, no link and no death.                     *)
Steady ==
  /\ UNCHANGED <<links, fin>>
  /\ \A p \in Pid : (Alive(p)' <=> Alive(p)) /\ (Exists(p)' <=> Exists(p))
  /\ \A p \in Pid : Orphan(p)' <=> Orphan(p)
  /\ \A p \in Pid : Enqueued(p)' => Enqueued(p) \/ ~Orphan(p)

LEMMA SteadyKeeps == ASSUME TypeOK, LinkInv, Steady PROVE LinkInv'
<1>2. \A p \in Pid : Enqueued(p)' => ~Orphan(p)'
  BY DEF Steady, LinkInv
<1>3. ASSUME NEW p \in Pid, NEW q \in Pid, Alive(p)', q \in links'[p] PROVE Linked(p, q)'
  <2>1. Linked(p, q)
    BY <1>3 DEF Steady, LinkInv
  <2> QED
    BY <2>1 DEF Steady, Linked, Pending
<1>4. \A p \in Pid : ~Exists(p)' => links'[p] = {}
  BY DEF Steady, LinkInv
<1> QED
  BY <1>2, <1>3, <1>4 DEF LinkInv

LEMMA StillLinked ==
  ASSUME TypeOK, LinkInv, UNCHANGED <<status, links, runq, fin>> PROVE LinkInv'
<1>1. Steady
  BY DEF Steady, Alive, Exists, Orphan, Enqueued
<1> QED
  BY <1>1, SteadyKeeps

\* a process other than a new one goes on, or a queued one starts
LEMMA GoesOn ==
  ASSUME TypeOK, LinkInv, NEW p \in Pid, Alive(p), ~Orphan(p),
         NEW as \in {"running", "waiting", "ready", "runnable"},
         status' = [status EXCEPT ![p] = as], UNCHANGED <<links, fin>>,
         \A q \in Pid : Enqueued(q)' => Enqueued(q) \/ q = p
  PROVE  LinkInv'
<1>1. status \in [Pid -> Status]
  BY DEF TypeOK, Status
<1>2. \A q \in Pid : (Alive(q)' <=> Alive(q)) /\ (Exists(q)' <=> Exists(q))
  BY <1>1 DEF Alive, Exists
<1>3. \A q \in Pid : status'[q] = "gone" <=> status[q] = "gone"
  BY <1>1 DEF Alive, Exists
<1>4. \A q \in Pid : q # p => (status'[q] = "new" <=> status[q] = "new")
  BY <1>1
<1>5. ~Orphan(p)'
  BY <1>1 DEF Orphan
<1>6. \A q \in Pid : Orphan(q)' <=> Orphan(q)
  <2>1. links \in [Pid -> SUBSET Pid]
    BY DEF TypeOK
  <2> QED
    BY <1>3, <1>4, <1>5, <2>1 DEF Orphan
<1>7. Steady
  BY <1>2, <1>5, <1>6 DEF Steady
<1> QED
  BY <1>7, SteadyKeeps

LEMMA WokenLinked ==
  ASSUME TypeOK, LinkInv, NEW p \in Pid, MayWake(p), UNCHANGED <<links, fin>> PROVE LinkInv'
<1>1. CASE UNCHANGED <<status, runq>>
  BY <1>1, StillLinked
<1>2. CASE Woken(p)
  <2>1. /\ DOMAIN runq = 1 .. Len(runq) /\ DOMAIN runq' = 1 .. Len(runq) + 1 /\ Len(runq) \in Nat
        /\ \A i \in 1 .. Len(runq) : runq'[i] = runq[i]
        /\ runq'[Len(runq) + 1] = <<p, "resume">>
    BY <1>2, AppendJob DEF Woken
  <2>2. \A q \in Pid : Enqueued(q)' => Enqueued(q) \/ q = p
    BY <2>1 DEF Enqueued
  <2>3. Alive(p) /\ ~Orphan(p)
    BY <1>2 DEF Woken, Alive, Exists, Orphan
  <2> QED
    BY <1>2, <2>2, <2>3, GoesOn DEF Woken
<1> QED
  BY <1>1, <1>2 DEF MayWake

\* an orphan stays one while it lives: its links are only lost to processes that die,
\* and what it was linked to is gone
LEMMA OrphansRemain ==
  ASSUME NEW p \in Pid, Orphan(p), status'[p] = "new",
         \A q \in Pid : status[q] = "gone" => status'[q] = "gone",
         \A q \in Pid : q \in links[p] /\ status[q] = "gone" => q \in links'[p],
         links[p] \in SUBSET Pid
  PROVE  Orphan(p)'
BY DEF Orphan

\* p dies with no death under way: every process linked to it is on its list
LEMMA DeathLinked ==
  ASSUME TypeOK, LinkInv, fin = <<>>, NEW p \in Pid, Alive(p), BeginFinish(p), NEW r, NEW b,
         fin' = <<Frame(p, r, b, links[p])>>, UNCHANGED <<links, runq>>
  PROVE  LinkInv'
<1>1. /\ status \in [Pid -> Status] /\ links \in [Pid -> SUBSET Pid]
      /\ status' = [status EXCEPT ![p] = "done"]
  BY DEF TypeOK, Status, BeginFinish
<1>2. \A q \in Pid : (Exists(q)' <=> Exists(q)) /\ (q # p => (Alive(q)' <=> Alive(q)))
  BY <1>1 DEF Alive, Exists
<1>3. ~Alive(p)' /\ \A q \in Pid : ~Orphan(q) => ~Orphan(q)'
  BY <1>1 DEF Alive, Exists, Orphan
<1>5. ASSUME NEW a \in Pid, NEW c \in Pid, Alive(a)', c \in links'[a] PROVE Linked(a, c)'
  <2>1. a # p /\ Alive(a) /\ c \in links[a] /\ status'[a] = status[a]
    BY <1>1, <1>2, <1>3, <1>5
  <2>2. CASE Orphan(a)
    <3>1. \A q \in Pid : status[q] = "gone" => status'[q] = "gone"
      BY <1>1 DEF Alive, Exists
    <3> QED
      BY <1>1, <2>1, <2>2, <3>1, OrphansRemain DEF Linked, Orphan
  <2>3. CASE ~Orphan(a)
    <3>1. Alive(c) /\ a \in links[c]
      BY <2>1, <2>3 DEF LinkInv, Linked, Pending
    <3>2. CASE c = p
      <4>1. 1 \in DOMAIN fin' /\ fin'[1].pid = p /\ fin'[1].todo = links[p]
        BY DEF Frame
      <4> QED
        BY <3>1, <3>2, <4>1 DEF Linked, Pending
    <3>3. CASE c # p
      BY <1>2, <3>1, <3>3 DEF Linked
    <3> QED
      BY <3>2, <3>3
  <2> QED
    BY <2>2, <2>3
<1>6. \A q \in Pid : ~Exists(q)' => links'[q] = {}
  BY <1>2 DEF LinkInv
<1>7. \A q \in Pid : Enqueued(q)' => ~Orphan(q)'
  BY <1>3 DEF LinkInv, Enqueued
<1> QED
  BY <1>5, <1>6, <1>7 DEF LinkInv

-----------------------------------------------------------------------------
(* finish() deals with one link.                                           *)

\* what is still pending once q is off the list of the topmost activation
LEMMA RestPends ==
  ASSUME TypeOK, fin # <<>>, NEW q \in Top.todo, NEW a \in Pid, NEW c \in Pid,
         Pending(c, a), ~(a = q /\ c = Top.pid)
  PROVE  LET rest == <<[Top EXCEPT !.todo = @ \ {q}]>> \o Tail(fin)
         IN \E i \in DOMAIN rest : rest[i].pid = c /\ a \in rest[i].todo
<1> DEFINE top == [Top EXCEPT !.todo = @ \ {q}]
           rest == <<top>> \o Tail(fin)
<1>1. /\ fin \in Seq(Activation) /\ Len(fin) \in Nat \ {0} /\ DOMAIN fin = 1 .. Len(fin)
      /\ Top = fin[1] /\ Top \in Activation
      /\ Tail(fin) \in Seq(Activation) /\ Len(Tail(fin)) = Len(fin) - 1
      /\ \A i \in 1 .. Len(fin) - 1 : Tail(fin)[i] = fin[i + 1]
  BY TailFacts, TailType DEF TypeOK, Top
<1>2. top \in Activation /\ top.pid = Top.pid /\ top.todo = Top.todo \ {q}
  BY <1>1 DEF Activation
<1> HIDE DEF top
<1>3. /\ DOMAIN rest = 1 .. (Len(fin) - 1) + 1
      /\ rest[1] = top /\ \A i \in 1 .. Len(fin) - 1 : rest[i + 1] = Tail(fin)[i]
  BY <1>1, <1>2, ConsFacts
<1> HIDE DEF rest
<1>4. PICK i \in DOMAIN fin : fin[i].pid = c /\ a \in fin[i].todo
  BY DEF Pending
<1>5. \E j \in DOMAIN rest : rest[j].pid = c /\ a \in rest[j].todo
  <2>1. CASE i = 1
    BY <1>1, <1>2, <1>3, <1>4, <2>1
  <2>2. CASE i # 1
    <3>1. i - 1 \in 1 .. Len(fin) - 1 /\ (i - 1) + 1 = i /\ i \in DOMAIN rest
      BY <1>1, <1>3, <1>4, <2>2
    <3>2. rest[i] = fin[i]
      BY <1>1, <1>3, <3>1
    <3> QED
      BY <1>4, <3>1, <3>2
  <2> QED
    BY <2>1, <2>2
<1> QED
  BY ONLY <1>5 DEF rest, top

\* the links of an activation that is over are all dealt with
LEMMA PopPends ==
  ASSUME TypeOK, fin # <<>>, Top.todo = {}, fin' = Tail(fin),
         NEW a \in Pid, NEW c \in Pid, Pending(c, a)
  PROVE  Pending(c, a)'
<1>1. /\ Len(fin) \in Nat \ {0} /\ DOMAIN fin = 1 .. Len(fin) /\ Top = fin[1]
      /\ DOMAIN fin' = 1 .. Len(fin) - 1
      /\ \A i \in 1 .. Len(fin) - 1 : fin'[i] = fin[i + 1]
  BY TailFacts DEF TypeOK, Top
<1>2. PICK i \in DOMAIN fin : fin[i].pid = c /\ a \in fin[i].todo
  BY DEF Pending
<1>3. i - 1 \in DOMAIN fin' /\ fin'[i - 1] = fin[i]
  BY <1>1, <1>2
<1> QED
  BY <1>2, <1>3 DEF Pending

\* a linked process that is already dead is skipped
LEMMA SkipsLink ==
  ASSUME TypeOK, LinkInv, fin # <<>>, NEW q \in Top.todo, ~Alive(q),
         UNCHANGED <<status, links, runq>>,
         fin' = <<[Top EXCEPT !.todo = @ \ {q}]>> \o Tail(fin)
  PROVE  LinkInv'
<1>1. ASSUME NEW a \in Pid, NEW c \in Pid, Alive(a)', c \in links'[a] PROVE Linked(a, c)'
  <2>1. Alive(a) /\ c \in links[a] /\ a # q
    BY <1>1 DEF Alive, Exists
  <2>2. ASSUME Pending(c, a) PROVE Pending(c, a)'
    <3> DEFINE rest == <<[Top EXCEPT !.todo = @ \ {q}]>> \o Tail(fin)
    <3>1. \E i \in DOMAIN rest : rest[i].pid = c /\ a \in rest[i].todo
      BY <2>1, <2>2, RestPends
    <3>2. fin' = rest
      OBVIOUS
    <3> HIDE DEF rest
    <3> QED
      BY <3>1, <3>2 DEF Pending
  <2> QED
    BY <2>1, <2>2 DEF LinkInv, Linked, Orphan, Alive, Exists
<1>2. \A p \in Pid : ~Exists(p)' => links'[p] = {}
  BY DEF LinkInv, Exists
<1>3. \A p \in Pid : Enqueued(p)' => ~Orphan(p)'
  BY DEF LinkInv, Enqueued, Orphan
<1> QED
  BY <1>1, <1>2, <1>3 DEF LinkInv

\* a live one loses the link, and no other pair of processes is touched
Unlinks(q) ==
  /\ links' = Unlinked(q, Top.pid)
  /\ \A p \in Pid : Exists(p)' <=> Exists(p)
  /\ \A p \in Pid : Alive(p)' <=> Alive(p) /\ (p = q => status'[q] # "done")
  /\ \A p \in Pid : status'[p] = "new" => status[p] = "new"
  /\ \A p \in Pid : status[p] = "new" => status'[p] \in {"new", "done"}
  /\ \A p \in Pid : status'[p] = "gone" <=> status[p] = "gone"
  /\ \A p \in Pid : Enqueued(p)' => Enqueued(p) \/ status'[p] # "new"

\* the activations keep what they have to do with links other than this one
Pends(q) ==
  \A a, c \in Pid : Pending(c, a) /\ ~(a = q /\ c = Top.pid) => Pending(c, a)'

LEMMA UnlinkKeeps ==
  ASSUME TypeOK, FinSound, LinkInv, fin # <<>>, NEW q \in Top.todo, Alive(q), Unlinks(q), Pends(q),
         ~Alive(q)' => \A a \in links'[q] : Pending(q, a)'
  PROVE  LinkInv'
<1>1. /\ Top.pid \in Pid /\ status[Top.pid] = "done" /\ q \in Pid /\ ~Alive(Top.pid)
  BY TopIsDone DEF Activation, Alive
<1>2. /\ links \in [Pid -> SUBSET Pid] /\ links' \in [Pid -> SUBSET Pid]
      /\ links'[q] = links[q] \ {Top.pid}
      /\ \A p \in Pid : p # q => links'[p] = links[p]
  BY <1>1 DEF TypeOK, Unlinks, Unlinked
<1>3. \A p \in Pid : Orphan(p) /\ status'[p] = "new" => Orphan(p)'
  <2> SUFFICES ASSUME NEW p \in Pid, Orphan(p), status'[p] = "new" PROVE Orphan(p)'
    OBVIOUS
  <2>1. PICK g \in links[p] : status[g] = "gone"
    BY DEF Orphan
  <2>2. g \in Pid /\ g # Top.pid
    BY <1>1, <1>2, <2>1
  <2>3. g \in links'[p] /\ status'[g] = "gone"
    BY <1>2, <2>1, <2>2 DEF Unlinks
  <2> QED
    BY <2>3 DEF Orphan
<1>4. \A p \in Pid : Orphan(p)' => Orphan(p)
  BY <1>2 DEF Orphan, Unlinks
<1>5. ASSUME NEW a \in Pid, NEW c \in Pid, Alive(a)', c \in links'[a] PROVE Linked(a, c)'
  <2>1. Alive(a) /\ c \in links[a] /\ ~(a = q /\ c = Top.pid)
    BY <1>2, <1>5 DEF Unlinks
  <2>2. CASE Orphan(a)
    <3>1. CASE status'[a] = "new"
      BY <1>3, <2>2, <3>1 DEF Linked
    <3>2. CASE status'[a] # "new"
      <4>1. status'[a] = "done"
        BY <2>2, <3>2 DEF Orphan, Unlinks
      <4> QED
        BY <1>5, <4>1 DEF Alive
    <3> QED
      BY <3>1, <3>2
  <2>3. CASE Pending(c, a)
    BY <2>1, <2>3 DEF Pends, Linked
  <2>4. CASE Alive(c) /\ a \in links[c]
    <3>1. a # Top.pid
      BY <1>1, <2>1
    <3>2. a \in links'[c]
      BY <1>2, <2>4, <3>1
    <3>3. CASE Alive(c)'
      BY <3>2, <3>3 DEF Linked
    <3>4. CASE ~Alive(c)'
      <4>1. c = q
        BY <2>4, <3>4 DEF Unlinks
      <4> QED
        BY <3>2, <3>4, <4>1 DEF Linked
    <3> QED
      BY <3>3, <3>4
  <2> QED
    BY <2>1, <2>2, <2>3, <2>4 DEF LinkInv, Linked
<1>6. \A p \in Pid : ~Exists(p)' => links'[p] = {}
  BY <1>1, <1>2 DEF LinkInv, Unlinks
<1>7. \A p \in Pid : Enqueued(p)' => ~Orphan(p)'
  BY <1>4 DEF LinkInv, Unlinks, Orphan
<1> QED
  BY <1>5, <1>6, <1>7 DEF LinkInv

-----------------------------------------------------------------------------
LEMMA FinishLinkKeeps == ASSUME TypeOK, IInv, LinkInv, FinishLink PROVE LinkInv'
<1> DEFINE Rest(q) == <<[Top EXCEPT !.todo = @ \ {q}]>> \o Tail(fin)
<1>1. /\ fin # <<>> /\ Top \in Activation /\ Top.pid \in Pid /\ status[Top.pid] = "done"
      /\ status \in [Pid -> Status] /\ links \in [Pid -> SUBSET Pid]
  BY TopIsDone DEF FinishLink, IInv, TypeOK, Status
<1>2. PICK q \in Top.todo :
        \/ /\ ~Alive(q) /\ fin' = Rest(q) /\ UNCHANGED <<status, links, runq>>
        \/ /\ Alive(q) /\ links' = Unlinked(q, Top.pid)
           /\ \/ (Wake(q) \/ UNCHANGED <<status, runq>>) /\ fin' = Rest(q)
              \/ /\ BeginFinish(q) /\ UNCHANGED runq
                 /\ fin' = <<Frame(q, Top.reason, TRUE, links[q] \ {Top.pid})>> \o Rest(q)
  BY DEF FinishLink, Post
<1>3. q \in Pid
  BY <1>1 DEF Activation
<1>4. CASE ~Alive(q)
  BY <1>1, <1>2, <1>4, SkipsLink
<1>5. CASE Alive(q) /\ MayWake(q) /\ fin' = Rest(q)
  <2> DEFINE rest == Rest(q)
  <2>10. \A a, c \in Pid : Pending(c, a) /\ ~(a = q /\ c = Top.pid) =>
           \E i \in DOMAIN rest : rest[i].pid = c /\ a \in rest[i].todo
    BY <1>1, RestPends
  <2>11. fin' = rest
    BY <1>5
  <2> HIDE DEF rest
  <2>1. Pends(q)
    BY <2>10, <2>11 DEF Pends, Pending
  <2>2. /\ \A p \in Pid : status'[p] \in {"gone", "done", "new", "absent"} <=>
             status[p] \in {"gone", "done", "new", "absent"}
        /\ \A p \in Pid : status[p] \in {"gone", "done", "new", "absent"} =>
             status'[p] = status[p]
    BY <1>1, <1>3, <1>5 DEF MayWake, Woken
  <2>3. \A p \in Pid : Enqueued(p)' => Enqueued(p) \/ status'[p] # "new"
    <3>1. CASE UNCHANGED runq
      BY <3>1 DEF Enqueued
    <3>2. CASE Woken(q)
      <4>1. /\ DOMAIN runq = 1 .. Len(runq) /\ DOMAIN runq' = 1 .. Len(runq) + 1
            /\ Len(runq) \in Nat
            /\ \A i \in 1 .. Len(runq) : runq'[i] = runq[i]
            /\ runq'[Len(runq) + 1] = <<q, "resume">>
        BY <1>3, <3>2, AppendJob DEF Woken
      <4>2. status'[q] # "new"
        BY <1>1, <1>3, <3>2 DEF Woken
      <4> QED
        BY <4>1, <4>2 DEF Enqueued
    <3> QED
      BY <1>5, <3>1, <3>2 DEF MayWake
  <2>4. links' = Unlinked(q, Top.pid)
    BY <1>2, <1>5
  <2>5. Unlinks(q)
    BY <2>2, <2>3, <2>4 DEF Unlinks, Exists, Alive
  <2>6. Alive(q)'
    BY <1>3, <1>5, <2>2 DEF Exists, Alive
  <2> QED
    BY <1>1, <1>5, <2>1, <2>5, <2>6, UnlinkKeeps DEF IInv
<1>6. CASE /\ Alive(q) /\ BeginFinish(q) /\ UNCHANGED runq /\ links' = Unlinked(q, Top.pid)
           /\ fin' = <<Frame(q, Top.reason, TRUE, links[q] \ {Top.pid})>> \o Rest(q)
  <2> DEFINE f == Frame(q, Top.reason, TRUE, links[q] \ {Top.pid})
             rest == Rest(q)
  <2>1. f \in Activation /\ f.pid = q /\ f.todo = links[q] \ {Top.pid}
    BY <1>1, <1>3 DEF Frame, Activation
  <2>2. rest \in Seq(Activation)
    BY <1>1, RestFacts
  <2>3. \A a, c \in Pid : Pending(c, a) /\ ~(a = q /\ c = Top.pid) =>
          \E i \in DOMAIN rest : rest[i].pid = c /\ a \in rest[i].todo
    BY <1>1, RestPends
  <2>4. fin' = <<f>> \o rest
    BY <1>6
  <2> HIDE DEF f, rest
  <2>5. /\ Len(rest) \in Nat /\ DOMAIN rest = 1 .. Len(rest)
        /\ DOMAIN fin' = 1 .. Len(rest) + 1
        /\ fin'[1] = f /\ \A i \in 1 .. Len(rest) : fin'[i + 1] = rest[i]
    BY <2>1, <2>2, <2>4, ConsFacts
  <2>6. \A i \in DOMAIN rest : i + 1 \in DOMAIN fin' /\ fin'[i + 1] = rest[i]
    BY <2>5
  <2>7. Pends(q)
    BY <2>3, <2>6 DEF Pends, Pending
  <2>8. status' = [status EXCEPT ![q] = "done"]
    BY <1>6 DEF BeginFinish
  <2>9. Unlinks(q)
    BY <1>1, <1>3, <1>6, <2>8 DEF Unlinks, Exists, Alive, Enqueued
  <2>10. links'[q] = f.todo
    BY <1>1, <1>3, <1>6, <2>1 DEF Unlinked
  <2>11. \A a \in links'[q] : Pending(q, a)'
    <3>1. 1 \in DOMAIN fin' /\ fin'[1] = f
      BY <2>5
    <3> QED
      BY <2>1, <2>10, <3>1 DEF Pending
  <2> QED
    BY <1>1, <1>6, <2>7, <2>9, <2>11, UnlinkKeeps DEF IInv
<1> QED
  BY <1>2, <1>3, <1>4, <1>5, <1>6, WakeMayWake DEF MayWake

\* the record of a dead process is deleted: nobody alive is linked to it any more
LEMMA FinishDoneKeeps == ASSUME TypeOK, IInv, LinkInv, FinishDone PROVE LinkInv'
<1>0. PICK t \in Pid : t = Top.pid /\ status[t] = "done"
  BY TopIsDone DEF FinishDone, IInv
<1>1. /\ fin # <<>> /\ Top.todo = {} /\ Top.pid = t /\ t \in Pid /\ status[t] = "done"
      /\ status \in [Pid -> Status] /\ links \in [Pid -> SUBSET Pid]
      /\ status' = [status EXCEPT ![t] = "gone"] /\ links' = [links EXCEPT ![t] = {}]
      /\ fin' = Tail(fin) /\ UNCHANGED runq
  BY <1>0 DEF FinishDone, IInv, TypeOK, Status
<1>2. \A p \in Pid : p # t => /\ status'[p] = status[p] /\ links'[p] = links[p]
                              /\ Alive(p)' <=> Alive(p)
                              /\ Exists(p)' <=> Exists(p)
  BY <1>1 DEF Alive, Exists
<1>3. ~Alive(t) /\ ~Alive(t)' /\ ~Exists(t)' /\ links'[t] = {}
  BY <1>1 DEF Alive, Exists
<1>4. \A p \in Pid : ~Pending(t, p)
  <2> SUFFICES ASSUME NEW p \in Pid, NEW i \in DOMAIN fin, fin[i].pid = t, p \in fin[i].todo
               PROVE  FALSE
    BY DEF Pending
  <2>1. 1 \in DOMAIN fin /\ fin[1] = Top
    BY <1>1, TailFacts DEF TypeOK, Top
  <2>2. i = 1
    BY <1>1, <2>1 DEF IInv, FinSound
  <2> QED
    BY <1>1, <2>1, <2>2
<1>5. \A p \in Pid : Orphan(p) => Orphan(p)'
  <2> SUFFICES ASSUME NEW p \in Pid, Orphan(p) PROVE Orphan(p)'
    OBVIOUS
  <2>1. p # t
    BY <1>1 DEF Orphan
  <2>2. PICK g \in links[p] : status[g] = "gone"
    BY DEF Orphan
  <2>3. g \in Pid /\ g # t
    BY <1>1, <2>2
  <2> QED
    BY <1>2, <2>1, <2>2, <2>3 DEF Orphan
<1>6. \A p \in Pid : Orphan(p)' => Orphan(p)
  <2> SUFFICES ASSUME NEW p \in Pid, Orphan(p)' PROVE Orphan(p)
    OBVIOUS
  <2>1. p # t /\ status[p] = "new" /\ Alive(p)
    BY <1>1, <1>2 DEF Orphan, Alive, Exists
  <2>2. PICK g \in links[p] : status'[g] = "gone"
    BY <1>2, <2>1 DEF Orphan
  <2>3. g \in Pid
    BY <1>1, <2>2
  <2>4. CASE g = t
    BY <1>3, <1>4, <2>1, <2>2, <2>3, <2>4 DEF LinkInv, Linked
  <2>5. CASE g # t
    BY <1>2, <2>1, <2>2, <2>3, <2>5 DEF Orphan
  <2> QED
    BY <2>4, <2>5
<1>7. ASSUME NEW a \in Pid, NEW c \in Pid, Alive(a)', c \in links'[a] PROVE Linked(a, c)'
  <2>1. a # t /\ Alive(a) /\ c \in links[a]
    BY <1>2, <1>3, <1>7
  <2>2. Pending(c, a) => Pending(c, a)'
    BY <1>1, PopPends
  <2>3. Alive(c) /\ a \in links[c] => Alive(c)' /\ a \in links'[c]
    BY <1>2, <1>3
  <2> QED
    BY <1>5, <2>1, <2>2, <2>3 DEF LinkInv, Linked
<1>8. \A p \in Pid : ~Exists(p)' => links'[p] = {}
  BY <1>2, <1>3 DEF LinkInv
<1>9. \A p \in Pid : Enqueued(p)' => ~Orphan(p)'
  BY <1>1, <1>6 DEF LinkInv, Enqueued
<1> QED
  BY <1>7, <1>8, <1>9 DEF LinkInv

LEMMA FinishKeepsLinks == ASSUME TypeOK, IInv, LinkInv, Finish PROVE LinkInv'
<1>1. CASE FinishMonitor
  <2>1. PICK m \in monitors : /\ UNCHANGED <<links, fin>>
                              /\ Wake(m.by) \/ UNCHANGED <<status, runq>>
    BY <1>1 DEF FinishMonitor, Post
  <2>2. m.by \in Pid
    BY DEF TypeOK, Monitor
  <2> QED
    BY <2>1, <2>2, WakeMayWake, WokenLinked DEF MayWake
<1> QED
  BY <1>1, FinishLinkKeeps, FinishDoneKeeps DEF Finish

-----------------------------------------------------------------------------
LEMMA LoopKeepsLinks == ASSUME TypeOK, IInv, LinkInv, Loop PROVE LinkInv'
<1>1. CASE DispatchStart \/ DispatchResume
  <2>1. PICK p \in Pid : /\ p = Head(runq)[1] /\ runq # <<>> /\ Alive(p)
                         /\ status' = [status EXCEPT ![p] = "running"]
                         /\ runq' = Tail(runq) /\ UNCHANGED <<links, fin>>
    BY <1>1, JobHead DEF DispatchStart, DispatchResume, Dispatch
  <2>2. /\ Enqueued(p) /\ \A q \in Pid : Enqueued(q)' => Enqueued(q)
    <3>1. /\ Len(runq) \in Nat \ {0} /\ DOMAIN runq = 1 .. Len(runq) /\ runq[1] = Head(runq)
          /\ DOMAIN runq' = 1 .. Len(runq) - 1
          /\ \A i \in 1 .. Len(runq) - 1 : runq'[i] = runq[i + 1]
      BY <2>1, JobHead
    <3>2. Enqueued(p)
      BY <2>1, <3>1 DEF Enqueued
    <3>3. \A i \in DOMAIN runq' : i + 1 \in DOMAIN runq /\ runq'[i] = runq[i + 1]
      BY <3>1
    <3> QED
      BY <3>2, <3>3 DEF Enqueued
  <2> QED
    BY <2>1, <2>2, GoesOn DEF LinkInv
<1>2. CASE DispatchDead
  <2>1. UNCHANGED <<status, links, fin>> /\ runq # <<>> /\ runq' = Tail(runq)
    BY <1>2 DEF DispatchDead, procVars
  <2>2. \A q \in Pid : Enqueued(q)' => Enqueued(q)
    <3>1. /\ DOMAIN runq = 1 .. Len(runq) /\ DOMAIN runq' = 1 .. Len(runq) - 1
          /\ Len(runq) \in Nat \ {0}
          /\ \A i \in 1 .. Len(runq) - 1 : runq'[i] = runq[i + 1]
      BY <2>1, JobHead
    <3>2. \A i \in DOMAIN runq' : i + 1 \in DOMAIN runq /\ runq'[i] = runq[i + 1]
      BY <3>1
    <3> QED
      BY <3>2 DEF Enqueued
  <2>3. Steady
    BY <2>1, <2>2 DEF Steady, Alive, Exists, Orphan
  <2> QED
    BY <2>3, SteadyKeeps
<1>3. CASE LoopSettle \/ LoopLeave \/ IdleEnds
  BY <1>3, StillLinked DEF LoopSettle, LoopLeave, IdleEnds, procVars
<1> QED
  BY <1>1, <1>2, <1>3 DEF Loop

LEMMA EngineKeepsLinks == ASSUME TypeOK, IInv, LinkInv, Engine PROVE LinkInv'
<1>1. ASSUME NEW p \in Pid, RunStack(p) \/ UnwindStack(p) PROVE LinkInv'
  BY <1>1, StillLinked DEF RunStack, UnwindStack, procVars
<1>2. ASSUME NEW p \in Pid, NEW o \in {"return", "throw"}, Settle(p, o) PROVE LinkInv'
  <2>1. CASE UNCHANGED <<status, fin>>
    BY <1>2, <2>1, StillLinked DEF Settle
  <2>2. CASE Alive(p) /\ BeginFinish(p)
             /\ fin' = <<Frame(p, ReasonRef(p), o = "throw", links[p])>>
    BY <1>2, <2>2, DeathLinked DEF Settle, EngineTurn
  <2> QED
    BY <1>2, <2>1, <2>2 DEF Settle
<1> QED
  BY <1>1, <1>2 DEF Engine

LEMMA FiringKeepsLinks ==
  ASSUME TypeOK, LinkInv, NEW p \in Pid, TimerFires(p) PROVE LinkInv'
<1>1. MayWake(p)
  BY DEF TimerFires, MayWake, Woken
<1> QED
  BY <1>1, WokenLinked DEF TimerFires

\* a new process has a pid that nobody is linked to
LEMMA NewFacts ==
  ASSUME TypeOK, IInv, LinkInv, nextPid <= MaxPid, NewProc(nextPid)
  PROVE  /\ nextPid \in Pid /\ ~Exists(nextPid) /\ links[nextPid] = {}
         /\ current # nextPid /\ status[nextPid] = "absent"
         /\ status \in [Pid -> Status] /\ links \in [Pid -> SUBSET Pid]
         /\ status' = [status EXCEPT ![nextPid] = "new"]
<1>1. nextPid \in Pid /\ status[nextPid] = "absent" /\ current # nextPid
  BY SchedulerAssumption DEF TypeOK, Pid, IInv, ProcsInv, Known
<1> QED
  BY <1>1 DEF LinkInv, Exists, NewProc, TypeOK, Status

LEMMA SpawnKeepsLinks ==
  ASSUME TypeOK, IInv, LinkInv, nextPid <= MaxPid, NewProc(nextPid), UNCHANGED fin,
         \/ UNCHANGED links /\ Enqueue(nextPid, "start")
         \/ /\ Alive(current) /\ Enqueue(nextPid, "start")
            /\ links' = [links EXCEPT ![nextPid] = {current}, ![current] = @ \cup {nextPid}]
         \/ /\ status[current] = "gone" /\ UNCHANGED runq
            /\ links' = [links EXCEPT ![nextPid] = {current}]
  PROVE  LinkInv'
<1>0. PICK n \in Pid : n = nextPid
  BY NewFacts
<1>1. /\ n = nextPid /\ n \in Pid /\ ~Exists(n) /\ links[n] = {}
      /\ current # n /\ status[n] = "absent" /\ current \in Pid
      /\ status \in [Pid -> Status] /\ links \in [Pid -> SUBSET Pid]
      /\ status' = [status EXCEPT ![n] = "new"]
  BY <1>0, NewFacts DEF TypeOK
<1>2. /\ \A p \in Pid : p # n => /\ status'[p] = status[p] /\ links[p] \subseteq links'[p]
                                 /\ Alive(p)' <=> Alive(p)
                                 /\ Exists(p)' <=> Exists(p)
      /\ status'[n] = "new" /\ Exists(n)' /\ Alive(n)'
  BY <1>1 DEF Alive, Exists
<1>3. \A p \in Pid : Orphan(p) => Orphan(p)'
  <2> SUFFICES ASSUME NEW p \in Pid, Orphan(p) PROVE Orphan(p)'
    OBVIOUS
  <2>1. p # n /\ status'[p] = "new"
    BY <1>1, <1>2 DEF Orphan
  <2>2. PICK g \in links[p] : status[g] = "gone"
    BY DEF Orphan
  <2>3. g \in Pid /\ g # n
    BY <1>1, <2>2
  <2> QED
    BY <1>2, <2>1, <2>2, <2>3 DEF Orphan
<1>4. \A p \in Pid : p # n /\ Orphan(p)' => Orphan(p)
  <2> SUFFICES ASSUME NEW p \in Pid, p # n, Orphan(p)' PROVE Orphan(p)
    OBVIOUS
  <2>1. PICK g \in links'[p] : status'[g] = "gone"
    BY DEF Orphan
  <2>2. links'[p] \subseteq links[p] \cup {n}
    BY <1>1
  <2>3. g \in links[p] /\ g \in Pid /\ g # n
    BY <1>1, <1>2, <2>1, <2>2
  <2> QED
    BY <1>2, <2>1, <2>3 DEF Orphan
<1>5. \A a, c \in Pid : Pending(c, a) => Pending(c, a)'
  BY DEF Pending
<1>6. ASSUME NEW a \in Pid, NEW c \in Pid, Alive(a)', c \in links'[a] PROVE Linked(a, c)'
  <2>1. CASE a # n /\ c \in links[a]
    <3>1. Linked(a, c)
      BY <1>2, <1>6, <2>1 DEF LinkInv
    <3>2. Alive(c) /\ a \in links[c] => Alive(c)' /\ a \in links'[c]
      BY <1>1, <1>2 DEF Alive
    <3> QED
      BY <1>3, <1>5, <3>1, <3>2 DEF Linked
  <2>2. CASE a # n /\ c \notin links[a]
    <3>1. a = current /\ c = n /\ a \in links'[c]
      BY <1>1, <1>6, <2>2
    <3> QED
      BY <1>2, <3>1 DEF Linked
  <2>3. CASE a = n
    <3>1. c = current /\ c # n
      BY <1>1, <1>6, <2>3
    <3>2. CASE Alive(current)
      <4>1. n \in links'[c]
        BY <1>1, <3>1, <3>2, <1>6, <2>3 DEF Alive, Exists
      <4> QED
        BY <1>2, <2>3, <3>1, <3>2, <4>1 DEF Linked
    <3>3. CASE ~Alive(current)
      <4>1. status[current] = "gone"
        BY <1>1, <1>6, <2>3, <3>3
      <4>2. Orphan(n)'
        BY <1>2, <1>6, <2>3, <3>1, <4>1 DEF Orphan
      <4> QED
        BY <2>3, <4>2 DEF Linked
    <3> QED
      BY <3>2, <3>3
  <2> QED
    BY <2>1, <2>2, <2>3
<1>7. \A p \in Pid : ~Exists(p)' => links'[p] = {}
  BY <1>1, <1>2 DEF LinkInv, Alive
<1>8. \A p \in Pid : Enqueued(p)' => ~Orphan(p)'
  <2> SUFFICES ASSUME NEW p \in Pid, Enqueued(p)' PROVE ~Orphan(p)'
    OBVIOUS
  <2>1. CASE UNCHANGED runq
    <3>1. Enqueued(p) /\ p # n
      BY <1>1, <2>1 DEF Enqueued, IInv, ProcsInv, Known
    <3> QED
      BY <1>4, <3>1 DEF LinkInv
  <2>2. CASE Enqueue(n, "start")
    <3>1. /\ DOMAIN runq = 1 .. Len(runq) /\ DOMAIN runq' = 1 .. Len(runq) + 1
          /\ Len(runq) \in Nat
          /\ \A i \in 1 .. Len(runq) : runq'[i] = runq[i]
          /\ runq'[Len(runq) + 1] = <<n, "start">>
      BY <1>1, <2>2, AppendJob
    <3>2. p = n \/ Enqueued(p)
      BY <3>1 DEF Enqueued
    <3>3. CASE p # n
      BY <1>4, <3>2, <3>3 DEF LinkInv
    <3>4. CASE p = n
      <4>1. \A g \in links'[n] : status'[g] # "gone"
        <5>1. CASE links' = [links EXCEPT ![n] = {current}, ![current] = @ \cup {n}]
                   /\ Alive(current)
          BY <1>1, <1>2, <5>1 DEF Alive, Exists
        <5>2. CASE UNCHANGED links
          BY <1>1, <5>2
        <5>3. CASE UNCHANGED runq
          BY <3>1, <5>3
        <5> QED
          BY <1>1, <5>1, <5>2, <5>3
      <4> QED
        BY <3>4, <4>1 DEF Orphan
    <3> QED
      BY <3>3, <3>4
  <2> QED
    BY <1>1, <2>1, <2>2
<1> QED
  BY <1>6, <1>7, <1>8 DEF LinkInv

LEMMA ImportKeepsLinks == ASSUME TypeOK, IInv, LinkInv, Import PROVE LinkInv'
<1>1. CASE Spawn \/ SpawnLink
  BY <1>1, SpawnKeepsLinks DEF Spawn, SpawnLink
<1>2. CASE SpawnLinkThrows
  <2>1. status[current] = "gone"
    \* the caller exists, is not alive, and no finish() is under way
    <3>1. current \in Pid /\ ~Alive(current) /\ fin = <<>>
      BY <1>2 DEF SpawnLinkThrows, Executing, TypeOK
    <3>2. status[current] # "absent"
      BY <3>1, SchedulerAssumption DEF IInv, ProcsInv, Known, TypeOK, Pid
    <3>3. status[current] # "done"
      BY <3>1 DEF IInv, FinSound
    <3> QED
      BY <3>1, <3>2, <3>3 DEF Alive, Exists
  <2> QED
    BY <1>2, <2>1, SpawnKeepsLinks DEF SpawnLinkThrows
<1>3. CASE SendAny
  <2>1. ASSUME NEW d, Send(d) PROVE LinkInv'
    <3>1. CASE Alive(d)
      BY <2>1, <3>1, WakeMayWake, WokenLinked DEF Send, Post, Alive, Exists
    <3>2. CASE ~Alive(d)
      BY <2>1, <3>2, StillLinked DEF Send
    <3> QED
      BY <3>1, <3>2
  <2> QED
    BY <1>3, <2>1 DEF SendAny
<1>4. ASSUME NEW p \in Pid, NEW r \in Reasons, Exit2(p, r) PROVE LinkInv'
  <2>1. CASE UNCHANGED <<status, runq, fin>>
    BY <1>4, <2>1, StillLinked DEF Exit2
  <2>2. CASE Wake(p) /\ UNCHANGED fin
    BY <1>4, <2>2, WakeMayWake, WokenLinked DEF Exit2
  <2>3. CASE Alive(p) /\ BeginFinish(p) /\ fin' = <<Frame(p, r, TRUE, links[p])>> /\ UNCHANGED runq
    BY <1>4, <2>3, DeathLinked DEF Exit2, Call, Executing
  <2> QED
    BY <1>4, <2>1, <2>2, <2>3 DEF Exit2, Post
<1>5. CASE \/ \E i \in DOMAIN mailbox[current] : Receive(i)
           \/ \E v \in BOOLEAN : SetTrapExit(v)
           \/ \E n \in Names, p \in Pid : Register(n, p)
           \/ \E p \in Pid : MonitorProc(p)
           \/ \E ref \in Ref : Demonitor(ref)
  BY <1>5, StillLinked DEF Receive, SetTrapExit, Register, MonitorProc, Demonitor, procVars
<1> QED
  BY <1>1, <1>2, <1>3, <1>4, <1>5 DEF Import

LEMMA StopKeepsLinks == ASSUME TypeOK, IInv, LinkInv, Stop PROVE LinkInv'
<1>1. CASE RecvWait \/ RecvWaitTimeout \/ Yield
  <2>1. PICK as \in {"waiting", "ready"} :
          /\ status' = [status EXCEPT ![current] = as] /\ UNCHANGED <<links, fin>>
          /\ UNCHANGED runq \/ Enqueue(current, "resume")
          /\ Executing /\ Alive(current)
    BY <1>1 DEF RecvWait, RecvWaitTimeout, Yield, Park
  <2>2. /\ current \in Pid /\ status[current] = "running"
    BY <2>1 DEF Executing, IInv, EngineInv, Executes, Alive, Exists
  <2>3. \A q \in Pid : Enqueued(q)' => Enqueued(q) \/ q = current
    <3>1. CASE UNCHANGED runq
      BY <3>1 DEF Enqueued
    <3>2. CASE Enqueue(current, "resume")
      <4>1. /\ DOMAIN runq = 1 .. Len(runq) /\ DOMAIN runq' = 1 .. Len(runq) + 1
            /\ Len(runq) \in Nat
            /\ \A i \in 1 .. Len(runq) : runq'[i] = runq[i]
            /\ runq'[Len(runq) + 1] = <<current, "resume">>
        BY <2>2, <3>2, AppendJob
      <4> QED
        BY <4>1 DEF Enqueued
    <3> QED
      BY <2>1, <3>1, <3>2
  <2>4. PICK p \in Pid : p = current
    BY <2>2
  <2>5. ~Orphan(p)
    BY <2>2, <2>4 DEF Orphan
  <2> QED
    BY <2>1, <2>3, <2>4, <2>5, GoesOn
<1>2. CASE Return \/ Crash \/ \E r \in Reasons : ExitSelf(r)
  BY <1>2, StillLinked DEF Return, Crash, ExitSelf, procVars
<1> QED
  BY <1>1, <1>2 DEF Stop

LEMMA StepLinkInv == TypeOK /\ IInv /\ LinkInv /\ [Next]_vars => LinkInv'
<1> SUFFICES ASSUME TypeOK, IInv, LinkInv, [Next]_vars PROVE LinkInv'
  OBVIOUS
<1>1. CASE Ended \/ UNCHANGED vars
  BY <1>1, StillLinked DEF Ended, vars, procVars, loopVars
<1> QED
  BY <1>1, FinishKeepsLinks, LoopKeepsLinks, EngineKeepsLinks, FiringKeepsLinks,
     ImportKeepsLinks, StopKeepsLinks DEF Next

\* However deaths cascade through finish() (scheduler.mjs:149-187) while processes spawn
\* and link: when no finish() is under way every link is mutual and leads to a live
\* process, so no later death can signal a deleted record or miss a linked process; the
\* one exception is a child whose spawn_link threw, which never runs.
THEOREM LinksSound == Spec => []LinksMutual
<1>1. Init => TypeOK /\ IInv /\ LinkInv
  BY InitType, InitIInv, InitLinkInv
<1>2. TypeOK /\ IInv /\ LinkInv /\ [Next]_vars => (TypeOK /\ IInv /\ LinkInv)'
  BY StepType, StepIInv, StepLinkInv
<1>3. TypeOK /\ IInv /\ LinkInv => LinksMutual
  BY LinkInvEnough
<1> QED
  BY <1>1, <1>2, <1>3, PTL DEF Spec

-----------------------------------------------------------------------------
(* Deaths, from the first finish() to the return of the outermost one.  `s'  *)
(* is the snapshot that MCScheduler keeps meanwhile in `pre'.               *)

Lived(s, p) == s.status[p] \notin {"absent", "gone"}
Fell(s, p) == p \in Pid /\ Lived(s, p) /\ status[p] \in {"done", "gone"}

\* whom the exit signal reaches, as MCScheduler!Dying says it of `pre'
SignalClosed(s, S) ==
  \A p \in S : \A q \in s.links[p] : Lived(s, q) /\ q \notin s.trapExit => q \in S
Reached(s) ==
  IF s.abnormal
  THEN {p \in Pid : \A S \in SUBSET Pid : s.pid \in S /\ SignalClosed(s, S) => p \in S}
  ELSE {s.pid}

SnapshotOK(s) ==
  /\ s.pid \in Pid /\ s.reason \in Reasons /\ s.abnormal \in BOOLEAN
  /\ s.links \in [Pid -> SUBSET Pid] /\ s.mailbox \in [Pid -> Seq(Message)]
  /\ s.monitors \subseteq Monitor
  /\ \A p, q \in Pid : Lived(s, p) /\ Lived(s, q) /\ q \in s.links[p] => p \in s.links[q]

\* only those whom the signal reaches fall, the first one to begin with
Felled(s) ==
  /\ Fell(s, s.pid)
  /\ \A p \in Pid : IF Lived(s, p) THEN status[p] # "absent" ELSE status[p] = s.status[p]
  /\ \A p \in Pid : Fell(s, p) => p \in Reached(s)

\* the others are as they were, but for their links to the fallen
Spared(s) ==
  \A p \in Pid : Alive(p) =>
    /\ p \in trapExit <=> p \in s.trapExit
    /\ links[p] \subseteq s.links[p]
    /\ \A q \in s.links[p] : q \in links[p] \/ Fell(s, q)

Frames(s) ==
  \A i \in DOMAIN fin : /\ fin[i].todo \subseteq s.links[fin[i].pid]
                        /\ fin[i].reason = s.reason /\ fin[i].abnormal = s.abnormal

\* an activation has dealt with a link, or has it on its list
Dealt(s) ==
  \A p, q \in Pid : Fell(s, p) /\ q \in s.links[p] /\ Alive(q) =>
    Pending(p, q) \/ (p \notin links[q] /\ (q \in s.trapExit \/ ~s.abnormal))

Over(s, p) == Lived(s, p) /\ status[p] = "gone"

\* a monitor goes with its owner or when its target is told of
Watched(s) ==
  /\ monitors \subseteq s.monitors
  /\ \A m \in s.monitors \ monitors : Fell(s, m.by) \/ Fell(s, m.target)
  /\ \A m \in monitors : ~Over(s, m.by) /\ ~Over(s, m.target)

Named(s) ==
  \A n \in Names : registry[n] = IF Fell(s, s.registry[n]) THEN NoPid ELSE s.registry[n]

\* the messages that p has got of those it is owed
Served(s, d, p) == Fell(s, d) /\ p \in s.links[d] \cap s.trapExit /\ ~Pending(d, p)
Fired(s, p) == {m \in s.monitors \ monitors : m.by = p}
Got(s, p) ==
  {Exit(d, s.reason) : d \in {d \in Pid : Served(s, d, p)}}
  \cup {Down(m.ref, m.target, s.reason) : m \in Fired(s, p)}

\* a mailbox holds what it held, and then the messages of a set, each once
Letters(now, was, got) ==
  /\ Len(was) <= Len(now)
  /\ \A i \in 1 .. Len(was) : now[i] = was[i]
  /\ \A i \in Len(was) + 1 .. Len(now) : now[i] \in got
  /\ \A x \in got : \E i \in Len(was) + 1 .. Len(now) : now[i] = x
  /\ \A i, j \in Len(was) + 1 .. Len(now) : now[i] = now[j] => i = j

Told(s) ==
  \A p \in Pid : Alive(p) =>
    /\ Letters(mailbox[p], s.mailbox[p], Got(s, p))
    /\ s.status[p] = "waiting" => status[p] \in {"waiting", "runnable"}
    /\ status[p] = "waiting" => Got(s, p) = {}

DeathInv(s) ==
  /\ SnapshotOK(s) /\ Felled(s) /\ Spared(s) /\ Frames(s)
  /\ Dealt(s) /\ Watched(s) /\ Named(s) /\ Told(s)

-----------------------------------------------------------------------------
(* The stack of activations.                                               *)

Rest(q) == <<[Top EXCEPT !.todo = @ \ {q}]>> \o Tail(fin)

\* r is the stack with q off the list of the topmost activation
Shorter(r, q) ==
  /\ r \in Seq(Activation) /\ DOMAIN r = DOMAIN fin
  /\ \A i \in DOMAIN fin : /\ r[i].pid = fin[i].pid /\ r[i].reason = fin[i].reason
                           /\ r[i].abnormal = fin[i].abnormal
                           /\ r[i].todo = IF i = 1 THEN fin[i].todo \ {q} ELSE fin[i].todo

LEMMA RestShorter ==
  ASSUME TypeOK, fin # <<>>, NEW q \in Top.todo PROVE Shorter(Rest(q), q)
<1> DEFINE top == [Top EXCEPT !.todo = @ \ {q}]
           rest == <<top>> \o Tail(fin)
<1>1. /\ fin \in Seq(Activation) /\ Len(fin) \in Nat \ {0} /\ DOMAIN fin = 1 .. Len(fin)
      /\ Top = fin[1] /\ Top \in Activation
      /\ Tail(fin) \in Seq(Activation) /\ Len(Tail(fin)) = Len(fin) - 1
      /\ \A i \in 1 .. Len(fin) - 1 : Tail(fin)[i] = fin[i + 1]
  BY TailFacts, TailType DEF TypeOK, Top
<1>2. /\ top \in Activation /\ top.pid = Top.pid /\ top.todo = Top.todo \ {q}
      /\ top.reason = Top.reason /\ top.abnormal = Top.abnormal
  BY <1>1 DEF Activation
<1> HIDE DEF top
<1>3. /\ DOMAIN rest = 1 .. (Len(fin) - 1) + 1
      /\ rest[1] = top /\ \A i \in 1 .. Len(fin) - 1 : rest[i + 1] = Tail(fin)[i]
  BY <1>1, <1>2, ConsFacts
<1>4. rest \in Seq(Activation)
  BY <1>1, <1>2, SingletonType, ConcatProperties
<1> HIDE DEF rest
<1>5. \A i \in DOMAIN fin : i # 1 => rest[i] = fin[i]
  <2> SUFFICES ASSUME NEW i \in DOMAIN fin, i # 1 PROVE rest[i] = fin[i]
    OBVIOUS
  <2>1. i - 1 \in 1 .. Len(fin) - 1 /\ (i - 1) + 1 = i
    BY <1>1
  <2> QED
    BY <1>1, <1>3, <2>1
<1>6. DOMAIN rest = DOMAIN fin
  BY <1>1, <1>3
<1>7. Shorter(rest, q)
  BY <1>1, <1>2, <1>3, <1>4, <1>5, <1>6 DEF Shorter
<1> QED
  BY ONLY <1>7 DEF Rest, rest, top

\* one link less to deal with
Drops(q) ==
  \A c, a \in Pid : Pending(c, a)' <=> Pending(c, a) /\ ~(a = q /\ c = Top.pid)

LEMMA ShorterDrops ==
  ASSUME TypeOK, FinSound, fin # <<>>, NEW q \in Top.todo, Shorter(fin', q)
  PROVE  Drops(q)
<1>1. /\ 1 \in DOMAIN fin /\ Top = fin[1] /\ DOMAIN fin' = DOMAIN fin
      /\ \A i \in DOMAIN fin : fin[i].pid = Top.pid => i = 1
  BY TailFacts DEF TypeOK, Top, FinSound, Shorter
<1>2. SUFFICES ASSUME NEW c \in Pid, NEW a \in Pid
               PROVE  Pending(c, a)' <=> Pending(c, a) /\ ~(a = q /\ c = Top.pid)
  BY DEF Drops
<1>3. ASSUME Pending(c, a)' PROVE Pending(c, a) /\ ~(a = q /\ c = Top.pid)
  <2>1. PICK i \in DOMAIN fin : fin'[i].pid = c /\ a \in fin'[i].todo
    BY <1>1, <1>3 DEF Pending
  <2> QED
    BY <1>1, <2>1 DEF Pending, Shorter
<1>4. ASSUME Pending(c, a), ~(a = q /\ c = Top.pid) PROVE Pending(c, a)'
  <2>1. PICK i \in DOMAIN fin : fin[i].pid = c /\ a \in fin[i].todo
    BY <1>4 DEF Pending
  <2>2. fin'[i].pid = c /\ a \in fin'[i].todo
    BY <1>1, <1>4, <2>1 DEF Shorter
  <2> QED
    BY <1>1, <2>1, <2>2 DEF Pending
<1> QED
  BY <1>3, <1>4

\* a new activation and its list on top of it
Pushed(q, f, r) ==
  /\ \A c, a \in Pid : Pending(c, a)' <=>
       \/ (Pending(c, a) /\ ~(a = q /\ c = Top.pid))
       \/ (c = f.pid /\ a \in f.todo)
  /\ \A i \in DOMAIN fin' : fin'[i] = f \/ (i - 1 \in DOMAIN fin /\ fin'[i] = r[i - 1])

LEMMA PushDrops ==
  ASSUME TypeOK, FinSound, fin # <<>>, NEW q \in Top.todo, NEW f \in Activation, NEW r,
         Shorter(r, q), fin' = <<f>> \o r
  PROVE  Pushed(q, f, r)
<1>1. /\ 1 \in DOMAIN fin /\ Top = fin[1] /\ DOMAIN r = DOMAIN fin
      /\ \A i \in DOMAIN fin : fin[i].pid = Top.pid => i = 1
  BY TailFacts DEF TypeOK, Top, FinSound, Shorter
<1>2. /\ Len(r) \in Nat /\ DOMAIN r = 1 .. Len(r)
      /\ DOMAIN fin' = 1 .. Len(r) + 1
      /\ fin'[1] = f /\ \A i \in 1 .. Len(r) : fin'[i + 1] = r[i]
  BY ConsFacts DEF Shorter
<1>3. \A i \in DOMAIN fin' : i = 1 \/ (i - 1 \in DOMAIN fin /\ fin'[i] = r[i - 1])
  BY <1>1, <1>2
<1>4. 1 \in DOMAIN fin' /\ \A i \in DOMAIN fin : i + 1 \in DOMAIN fin' /\ fin'[i + 1] = r[i]
  BY <1>1, <1>2
<1>5. ASSUME NEW c \in Pid, NEW a \in Pid, Pending(c, a)'
      PROVE  (Pending(c, a) /\ ~(a = q /\ c = Top.pid)) \/ (c = f.pid /\ a \in f.todo)
  <2>1. PICK i \in DOMAIN fin' : fin'[i].pid = c /\ a \in fin'[i].todo
    BY <1>5 DEF Pending
  <2>2. CASE i = 1
    BY <1>2, <2>1, <2>2
  <2>3. CASE i # 1
    <3>1. PICK j \in DOMAIN fin : r[j].pid = c /\ a \in r[j].todo
      BY <1>3, <2>1, <2>3
    <3>4. /\ r[j].pid = fin[j].pid
          /\ r[j].todo = IF j = 1 THEN fin[j].todo \ {q} ELSE fin[j].todo
      BY DEF Shorter
    <3>2. /\ fin[j].pid = c /\ a \in fin[j].todo
          /\ j = 1 => a # q
      BY <3>1, <3>4
    <3>3. c = Top.pid => j = 1
      BY <1>1, <3>2
    <3> QED
      BY <3>2, <3>3 DEF Pending
  <2> QED
    BY <2>2, <2>3
<1>6. ASSUME NEW c \in Pid, NEW a \in Pid, Pending(c, a), ~(a = q /\ c = Top.pid)
      PROVE  Pending(c, a)'
  <2>1. PICK i \in DOMAIN fin : fin[i].pid = c /\ a \in fin[i].todo
    BY <1>6 DEF Pending
  <2>2. r[i].pid = c /\ a \in r[i].todo
    BY <1>1, <1>6, <2>1 DEF Shorter
  <2> QED
    BY <1>4, <2>1, <2>2 DEF Pending
<1>7. ASSUME NEW c \in Pid, NEW a \in Pid, c = f.pid, a \in f.todo PROVE Pending(c, a)'
  BY <1>2, <1>4, <1>7 DEF Pending
<1> QED
  BY <1>2, <1>3, <1>5, <1>6, <1>7 DEF Pushed

\* an activation whose list is empty leaves nothing undone
LEMMA PopDrops ==
  ASSUME TypeOK, fin # <<>>, Top.todo = {}, fin' = Tail(fin)
  PROVE  /\ \A c, a \in Pid : Pending(c, a)' <=> Pending(c, a)
         /\ \A i \in DOMAIN fin' : i + 1 \in DOMAIN fin /\ fin'[i] = fin[i + 1]
<1>1. /\ Len(fin) \in Nat \ {0} /\ DOMAIN fin = 1 .. Len(fin) /\ Top = fin[1]
      /\ DOMAIN fin' = 1 .. Len(fin) - 1
      /\ \A i \in 1 .. Len(fin) - 1 : fin'[i] = fin[i + 1]
  BY TailFacts DEF TypeOK, Top
<1>2. \A i \in DOMAIN fin' : i + 1 \in DOMAIN fin /\ fin'[i] = fin[i + 1]
  BY <1>1
<1>3. \A c, a \in Pid : Pending(c, a)' => Pending(c, a)
  BY <1>2 DEF Pending
<1> QED
  BY <1>2, <1>3, PopPends

-----------------------------------------------------------------------------
(* Whom the signal reaches is the least set that has the first one to die and *)
(* is closed under its links.                                              *)

LEMMA ReachedStart == ASSUME NEW s, SnapshotOK(s) PROVE s.pid \in Reached(s)
BY DEF SnapshotOK, Reached

LEMMA ReachedClosed ==
  ASSUME NEW s, SnapshotOK(s), s.abnormal, NEW p \in Reached(s), NEW q \in s.links[p],
         Lived(s, q), q \notin s.trapExit
  PROVE  q \in Reached(s)
<1>1. p \in Pid /\ q \in Pid
  BY DEF SnapshotOK, Reached
<1>2. ASSUME NEW S \in SUBSET Pid, s.pid \in S, SignalClosed(s, S) PROVE q \in S
  <2>1. p \in S
    BY <1>2 DEF Reached
  <2> QED
    BY <1>2, <2>1 DEF SignalClosed
<1> QED
  BY <1>1, <1>2 DEF Reached

LEMMA ReachedLeast ==
  ASSUME NEW s, NEW S \in SUBSET Pid, s.pid \in S, s.abnormal => SignalClosed(s, S)
  PROVE  Reached(s) \subseteq S
BY DEF Reached

-----------------------------------------------------------------------------
(* A step in which nobody falls.                                           *)

Lasts ==
  \A p \in Pid : /\ status'[p] \in {"done", "gone"} <=> status[p] \in {"done", "gone"}
                 /\ status[p] \in {"absent", "gone"} => status'[p] = status[p]
                 /\ status'[p] = "absent" => status[p] = "absent"

NoneGoes == \A p \in Pid : status'[p] = "gone" => status[p] = "gone"

LEMMA LastsFell ==
  ASSUME NEW s, Lasts
  PROVE  /\ \A p : Fell(s, p)' <=> Fell(s, p)
         /\ \A p \in Pid : Alive(p)' <=> Alive(p)
BY DEF Lasts, Fell, Alive, Exists

LEMMA LastsFelled == ASSUME NEW s, SnapshotOK(s), Felled(s), Lasts PROVE Felled(s)'
<1>1. Fell(s, s.pid)'
  BY LastsFell DEF Felled
<1>2. \A p \in Pid : Fell(s, p)' => p \in Reached(s)
  BY LastsFell DEF Felled
<1>3. ASSUME NEW p \in Pid
      PROVE  IF Lived(s, p) THEN status'[p] # "absent" ELSE status'[p] = s.status[p]
  BY DEF Felled, Lasts, Lived
<1> QED
  BY <1>1, <1>2, <1>3 DEF Felled

LEMMA LastsNamed == ASSUME NEW s, Named(s), Lasts, UNCHANGED registry PROVE Named(s)'
BY LastsFell DEF Named

LEMMA LastsWatched ==
  ASSUME NEW s, Watched(s), Lasts, NoneGoes, TypeOK, monitors' \subseteq monitors,
         \A m \in monitors \ monitors' : Fell(s, m.by) \/ Fell(s, m.target)
  PROVE  Watched(s)'
<1>1. \A m \in s.monitors \ monitors' : Fell(s, m.by)' \/ Fell(s, m.target)'
  BY LastsFell DEF Watched
<1>2. \A m \in monitors : m.by \in Pid /\ m.target \in Pid
  BY DEF TypeOK, Monitor
<1>3. \A m \in monitors' : ~Over(s, m.by)' /\ ~Over(s, m.target)'
  BY <1>2 DEF Watched, Over, NoneGoes
<1> QED
  BY <1>1, <1>3 DEF Watched

\* the activation on top, in a death
LEMMA TopFell ==
  ASSUME NEW s, TypeOK, FinSound, fin # <<>>, Felled(s), Frames(s)
  PROVE  /\ Top.pid \in Pid /\ Top.todo \subseteq Pid /\ status[Top.pid] = "done"
         /\ ~Alive(Top.pid) /\ Fell(s, Top.pid)
         /\ Top.todo \subseteq s.links[Top.pid]
         /\ Top.reason = s.reason /\ Top.abnormal = s.abnormal
         /\ \A q \in Top.todo : Pending(Top.pid, q)
         /\ \A q : Pending(Top.pid, q) => q \in Top.todo
<1>1. /\ 1 \in DOMAIN fin /\ Top = fin[1]
      /\ \A i \in DOMAIN fin : fin[i].pid = Top.pid => i = 1
  BY TailFacts DEF TypeOK, Top, FinSound
<1>2. Top \in Activation /\ Top.pid \in Pid /\ status[Top.pid] = "done"
  BY TopIsDone
<1>3. ~Alive(Top.pid) /\ Fell(s, Top.pid)
  BY <1>2 DEF Alive, Fell, Felled, Lived
<1>4. Top.todo \subseteq s.links[Top.pid] /\ Top.reason = s.reason /\ Top.abnormal = s.abnormal
  BY <1>1 DEF Frames
<1>5. Top.todo \subseteq Pid
  BY <1>2 DEF Activation
<1>6. \A q \in Top.todo : Pending(Top.pid, q)
  BY <1>1 DEF Pending
<1>7. \A q : Pending(Top.pid, q) => q \in Top.todo
  BY <1>1 DEF Pending
<1> QED
  BY <1>2, <1>3, <1>4, <1>5, <1>6, <1>7

LEMMA ShorterFrames ==
  ASSUME NEW s, Frames(s), NEW q, Shorter(fin', q) PROVE Frames(s)'
BY DEF Frames, Shorter

\* a link of Top.pid is dealt with and nobody is killed
LEMMA DealsWithLink ==
  ASSUME NEW s, TypeOK, FinSound, fin # <<>>, SnapshotOK(s), Felled(s), Spared(s), Frames(s),
         Dealt(s), NEW q \in Top.todo, Shorter(fin', q), Lasts, UNCHANGED trapExit,
         links' = IF Alive(q) THEN Unlinked(q, Top.pid) ELSE links,
         Alive(q) => q \in trapExit \/ ~Top.abnormal
  PROVE  Spared(s)' /\ Dealt(s)' /\ Frames(s)'
<1>1. /\ Top.pid \in Pid /\ q \in Pid /\ Fell(s, Top.pid) /\ ~Alive(Top.pid)
      /\ Top.abnormal = s.abnormal
  BY TopFell
<1>2. /\ \A p \in Pid : links'[p] \subseteq links[p]
      /\ \A p \in Pid : \A r \in links[p] : r \in links'[p] \/ r = Top.pid
      /\ Alive(q) => Top.pid \notin links'[q]
  BY <1>1 DEF TypeOK, Unlinked
<1>3. \A p \in Pid : (Alive(p)' <=> Alive(p)) /\ (Fell(s, p)' <=> Fell(s, p))
  BY LastsFell
<1>4. Spared(s)'
  <2> SUFFICES ASSUME NEW p \in Pid, Alive(p)'
               PROVE  /\ p \in trapExit' <=> p \in s.trapExit
                      /\ links'[p] \subseteq s.links[p]
                      /\ \A r \in s.links[p] : r \in links'[p] \/ Fell(s, r)'
    BY DEF Spared
  <2>1. Alive(p) /\ \A r \in s.links[p] : r \in Pid
    BY <1>3 DEF SnapshotOK
  <2> QED
    BY <1>1, <1>2, <1>3, <2>1 DEF Spared
<1>5. Drops(q)
  BY ShorterDrops
<1>6. Dealt(s)'
  <2> SUFFICES ASSUME NEW p \in Pid, NEW r \in Pid, Fell(s, p)', r \in s.links[p], Alive(r)'
               PROVE  Pending(p, r)' \/ (p \notin links'[r] /\ (r \in s.trapExit \/ ~s.abnormal))
    BY DEF Dealt
  <2>1. Fell(s, p) /\ Alive(r)
    BY <1>3
  <2>2. CASE r = q /\ p = Top.pid
    BY <1>1, <1>2, <2>1, <2>2 DEF Spared
  <2>3. CASE ~(r = q /\ p = Top.pid)
    BY <1>2, <1>5, <2>1, <2>3 DEF Dealt, Drops
  <2> QED
    BY <2>2, <2>3
<1> QED
  BY <1>4, <1>6, ShorterFrames

\* the signal kills q, whose finish() begins
LEMMA KillsLink ==
  ASSUME NEW s, TypeOK, FinSound, fin # <<>>, SnapshotOK(s), Felled(s), Spared(s), Frames(s),
         Dealt(s), Watched(s), Named(s),
         NEW q \in Top.todo, Alive(q), Kills(q), BeginFinish(q), links' = Unlinked(q, Top.pid),
         NEW r, Shorter(r, q),
         fin' = <<Frame(q, Top.reason, TRUE, links[q] \ {Top.pid})>> \o r,
         UNCHANGED <<trapExit, monitors>>
  PROVE  /\ Felled(s)' /\ Spared(s)' /\ Frames(s)' /\ Dealt(s)' /\ Watched(s)' /\ Named(s)'
         /\ \A p \in Pid : Alive(p)' <=> Alive(p) /\ p # q
         /\ \A p : Fell(s, p)' <=> Fell(s, p) \/ p = q
         /\ \A c, a \in Pid : Alive(a)' /\ a \in s.links[c] =>
              (Pending(c, a)' <=> Pending(c, a) \/ c = q)
<1>1. /\ Top.pid \in Pid /\ q \in Pid /\ Fell(s, Top.pid) /\ ~Alive(Top.pid)
      /\ q \in s.links[Top.pid] /\ Top.reason = s.reason /\ Top.abnormal = s.abnormal
  BY TopFell
<1>2. /\ status \in [Pid -> Status] /\ links \in [Pid -> SUBSET Pid]
      /\ status' = [status EXCEPT ![q] = "done"]
  BY DEF TypeOK, Status, BeginFinish
<1>3. /\ \A p \in Pid : status'[p] = IF p = q THEN "done" ELSE status[p]
      /\ \A p \in Pid : p # q => links'[p] = links[p]
  BY <1>1, <1>2 DEF Unlinked
<1>4. PICK f \in Activation :
        /\ f.pid = q /\ f.reason = s.reason /\ f.abnormal = TRUE
        /\ f.todo = links[q] \ {Top.pid} /\ fin' = <<f>> \o r
  <2> DEFINE g == Frame(q, Top.reason, TRUE, links[q] \ {Top.pid})
  <2>1. /\ g \in Activation /\ g.pid = q /\ g.reason = s.reason /\ g.abnormal = TRUE
        /\ g.todo = links[q] \ {Top.pid}
    BY <1>1, <1>2 DEF Frame, Activation, SnapshotOK
  <2>2. fin' = <<g>> \o r
    OBVIOUS
  <2> HIDE DEF g
  <2> QED
    BY <2>1, <2>2
<1>6. /\ \A c, a \in Pid : Pending(c, a)' <=>
           \/ (Pending(c, a) /\ ~(a = q /\ c = Top.pid))
           \/ (c = f.pid /\ a \in f.todo)
      /\ \A i \in DOMAIN fin' : fin'[i] = f \/ (i - 1 \in DOMAIN fin /\ fin'[i] = r[i - 1])
  <2>1. Pushed(q, f, r)
    BY <1>4, PushDrops
  <2> QED
    BY <2>1 DEF Pushed
<1>7. Lived(s, q) /\ status[q] \notin {"absent", "gone", "done"}
  BY <1>1 DEF Felled, Lived, Alive, Exists
<1>8. \A p \in Pid : Alive(p)' <=> Alive(p) /\ p # q
  BY <1>3, <1>7 DEF Alive, Exists
<1>9. \A p : Fell(s, p)' <=> Fell(s, p) \/ p = q
  BY <1>1, <1>3, <1>7 DEF Fell
<1>10. s.abnormal /\ q \notin s.trapExit
  BY <1>1 DEF Kills, Spared
<1>11. Felled(s)'
  <2>1. q \in Reached(s)
    <3>1. Top.pid \in Reached(s)
      BY <1>1 DEF Felled
    <3> QED
      BY <1>1, <1>7, <1>10, <3>1, ReachedClosed
  <2>2. Fell(s, s.pid)' /\ \A p \in Pid : Fell(s, p)' => p \in Reached(s)
    BY <1>9, <2>1 DEF Felled
  <2>3. ASSUME NEW p \in Pid
        PROVE  IF Lived(s, p) THEN status'[p] # "absent" ELSE status'[p] = s.status[p]
    BY <1>3, <1>7 DEF Felled
  <2> QED
    BY <2>2, <2>3 DEF Felled
<1>12. Spared(s)'
  <2> SUFFICES ASSUME NEW p \in Pid, Alive(p)'
               PROVE  /\ p \in trapExit' <=> p \in s.trapExit
                      /\ links'[p] \subseteq s.links[p]
                      /\ \A x \in s.links[p] : x \in links'[p] \/ Fell(s, x)'
    BY DEF Spared
  <2>1. Alive(p) /\ p # q
    BY <1>8
  <2> QED
    BY <1>3, <1>9, <2>1 DEF Spared
<1>13. Frames(s)'
  <2> SUFFICES ASSUME NEW i \in DOMAIN fin'
               PROVE  /\ fin'[i].todo \subseteq s.links[fin'[i].pid]
                      /\ fin'[i].reason = s.reason /\ fin'[i].abnormal = s.abnormal
    BY DEF Frames
  <2>1. CASE fin'[i] = f
    <3>1. links[q] \subseteq s.links[q] /\ s.abnormal = TRUE
      BY <1>1, <1>10 DEF Spared, SnapshotOK
    <3> QED
      BY <1>4, <2>1, <3>1
  <2>2. CASE i - 1 \in DOMAIN fin /\ fin'[i] = r[i - 1]
    <3> DEFINE j == i - 1
    <3>1. j \in DOMAIN fin /\ fin'[i] = r[j]
      BY <2>2
    <3> HIDE DEF j
    <3>2. /\ r[j].pid = fin[j].pid /\ r[j].reason = fin[j].reason /\ r[j].abnormal = fin[j].abnormal
          /\ r[j].todo \subseteq fin[j].todo
      BY <3>1 DEF Shorter
    <3> QED
      BY <3>1, <3>2 DEF Frames
  <2> QED
    BY <1>6, <2>1, <2>2
<1>14. ASSUME NEW c \in Pid, NEW a \in Pid, Alive(a)', a \in s.links[c]
       PROVE  Pending(c, a)' <=> Pending(c, a) \/ c = q
  <2>1. Alive(a) /\ a # q /\ a # Top.pid /\ ~Fell(s, a)
    BY <1>1, <1>8, <1>14 DEF Alive, Exists, Fell
  <2>2. c = q => a \in links[q]
    BY <1>1, <1>14, <2>1 DEF Spared
  <2> QED
    BY <1>4, <1>6, <2>1, <2>2
<1>15. Dealt(s)'
  <2> SUFFICES ASSUME NEW p \in Pid, NEW x \in Pid, Fell(s, p)', x \in s.links[p], Alive(x)'
               PROVE  Pending(p, x)' \/ (p \notin links'[x] /\ (x \in s.trapExit \/ ~s.abnormal))
    BY DEF Dealt
  <2>1. CASE p = q
    BY <1>14, <2>1
  <2>2. CASE p # q
    <3>1. Fell(s, p) /\ Alive(x) /\ x # q
      BY <1>8, <1>9, <2>2
    <3> QED
      BY <1>3, <1>14, <3>1 DEF Dealt
  <2> QED
    BY <2>1, <2>2
<1>16. Watched(s)'
  <2>1. \A m \in monitors : m.by \in Pid /\ m.target \in Pid
    BY DEF TypeOK, Monitor
  <2>2. \A p \in Pid : Over(s, p)' => Over(s, p)
    BY <1>3 DEF Over
  <2> QED
    BY <1>9, <2>1, <2>2 DEF Watched
<1>17. Named(s)'
  <2> SUFFICES ASSUME NEW n \in Names
               PROVE  registry'[n] = IF Fell(s, s.registry[n])' THEN NoPid ELSE s.registry[n]
    BY DEF Named
  <2>1. registry'[n] = IF registry[n] = q THEN NoPid ELSE registry[n]
    BY DEF BeginFinish
  <2>2. ~Fell(s, q) /\ q # NoPid
    BY <1>1, <1>7, SchedulerAssumption DEF Fell, Pid, NoPid
  <2> QED
    BY <1>9, <2>1, <2>2 DEF Named
<1> QED
  BY <1>8, <1>9, <1>11, <1>12, <1>13, <1>14, <1>15, <1>16, <1>17

\* a step that leaves the activations' lists alone
LEMMA SameLists ==
  ASSUME NEW s, SnapshotOK(s), Felled(s), Spared(s), Dealt(s), Lasts,
         \A c, a \in Pid : Pending(c, a)' <=> Pending(c, a),
         \A p \in Pid : Alive(p) => links'[p] = links[p] /\ (p \in trapExit' <=> p \in trapExit)
  PROVE  Spared(s)' /\ Dealt(s)'
<1>1. \A p \in Pid : (Alive(p)' <=> Alive(p)) /\ (Fell(s, p)' <=> Fell(s, p))
  BY LastsFell
<1>2. Spared(s)'
  <2> SUFFICES ASSUME NEW p \in Pid, Alive(p)'
               PROVE  /\ p \in trapExit' <=> p \in s.trapExit
                      /\ links'[p] \subseteq s.links[p]
                      /\ \A r \in s.links[p] : r \in links'[p] \/ Fell(s, r)'
    BY DEF Spared
  <2>1. Alive(p) /\ \A r \in s.links[p] : r \in Pid
    BY <1>1 DEF SnapshotOK
  <2> QED
    BY <1>1, <2>1 DEF Spared
<1>3. Dealt(s)'
  <2> SUFFICES ASSUME NEW p \in Pid, NEW r \in Pid, Fell(s, p)', r \in s.links[p], Alive(r)'
               PROVE  Pending(p, r)' \/ (p \notin links'[r] /\ (r \in s.trapExit \/ ~s.abnormal))
    BY DEF Dealt
  <2>1. Fell(s, p) /\ Alive(r)
    BY <1>1
  <2> QED
    BY <2>1 DEF Dealt
<1> QED
  BY <1>2, <1>3

-----------------------------------------------------------------------------
(* Letters of a death.                                                     *)

LEMMA LetterAdds ==
  ASSUME NEW was \in Seq(Message), NEW now \in Seq(Message), NEW x \in Message, NEW got,
         Letters(now, was, got), x \notin got
  PROVE  Letters(Append(now, x), was, got \cup {x})
<1> DEFINE n == Len(now)  k == Len(was)  new == Append(now, x)
<1>1. /\ n \in Nat /\ k \in Nat /\ k <= n /\ Len(new) = n + 1
      /\ \A i \in 1 .. n : new[i] = now[i]
      /\ new[n + 1] = x
  BY DEF Letters
<1>2. /\ \A i \in 1 .. k : now[i] = was[i]
      /\ \A i \in k + 1 .. n : now[i] \in got
      /\ \A y \in got : \E i \in k + 1 .. n : now[i] = y
      /\ \A i, j \in k + 1 .. n : now[i] = now[j] => i = j
  BY DEF Letters
<1> HIDE DEF new, n, k
<1>3. \A i \in k + 1 .. n + 1 : (i \in k + 1 .. n /\ i \in 1 .. n) \/ i = n + 1
  BY <1>1
<1>4. k <= n + 1 /\ \A i \in 1 .. k : new[i] = was[i]
  BY <1>1, <1>2
<1>5. \A i \in k + 1 .. n + 1 : new[i] \in got \cup {x}
  BY <1>1, <1>2, <1>3
<1>6. \A y \in got \cup {x} : \E i \in k + 1 .. n + 1 : new[i] = y
  <2> SUFFICES ASSUME NEW y \in got \cup {x} PROVE \E i \in k + 1 .. n + 1 : new[i] = y
    OBVIOUS
  <2>1. CASE y = x
    BY <1>1, <2>1
  <2>2. CASE y # x
    <3>1. PICK i \in k + 1 .. n : now[i] = y
      BY <1>2, <2>2
    <3>2. i \in k + 1 .. n + 1 /\ new[i] = y
      BY <1>1, <3>1
    <3> QED
      BY <3>2
  <2> QED
    BY <2>1, <2>2
<1>7. \A i, j \in k + 1 .. n + 1 : new[i] = new[j] => i = j
  <2> SUFFICES ASSUME NEW i \in k + 1 .. n + 1, NEW j \in k + 1 .. n + 1, new[i] = new[j]
               PROVE  i = j
    OBVIOUS
  <2>1. \A h \in k + 1 .. n : new[h] = now[h] /\ new[h] # x
    BY <1>1, <1>2
  <2> QED
    BY <1>1, <1>2, <1>3, <2>1
<1> QED
  BY <1>1, <1>4, <1>5, <1>6, <1>7 DEF Letters, new, n, k

LEMMA GotStays ==
  ASSUME NEW s, NEW p, \A d \in Pid : Served(s, d, p)' <=> Served(s, d, p),
         Fired(s, p)' = Fired(s, p)
  PROVE  Got(s, p)' = Got(s, p)
BY DEF Got

LEMMA GotExit ==
  ASSUME NEW s, NEW p, NEW e \in Pid, ~Served(s, e, p),
         \A d \in Pid : Served(s, d, p)' <=> Served(s, d, p) \/ d = e,
         Fired(s, p)' = Fired(s, p)
  PROVE  Got(s, p)' = Got(s, p) \cup {Exit(e, s.reason)} /\ Exit(e, s.reason) \notin Got(s, p)
<1>1. \A d \in Pid : Exit(d, s.reason) = Exit(e, s.reason) => d = e
  BY DEF Exit
<1>2. \A m : Down(m.ref, m.target, s.reason) # Exit(e, s.reason)
  BY DEF Exit, Down
<1>3. Got(s, p)' = Got(s, p) \cup {Exit(e, s.reason)}
  BY DEF Got
<1> QED
  BY <1>1, <1>2, <1>3 DEF Got

LEMMA GotDown ==
  ASSUME NEW s, NEW p, NEW m \in Monitor, m \notin Fired(s, p), m.by = p,
         Fired(s, p) \subseteq Monitor,
         \A d \in Pid : Served(s, d, p)' <=> Served(s, d, p),
         Fired(s, p)' = Fired(s, p) \cup {m}
  PROVE  /\ Got(s, p)' = Got(s, p) \cup {Down(m.ref, m.target, s.reason)}
         /\ Down(m.ref, m.target, s.reason) \notin Got(s, p)
<1>1. \A o \in Fired(s, p) :
        Down(o.ref, o.target, s.reason) = Down(m.ref, m.target, s.reason) => o = m
  <2> SUFFICES ASSUME NEW o \in Fired(s, p),
                      Down(o.ref, o.target, s.reason) = Down(m.ref, m.target, s.reason)
               PROVE  o = m
    OBVIOUS
  <2>1. o \in Monitor /\ o.by = p
    BY DEF Fired
  <2>2. o.ref = m.ref /\ o.target = m.target
    BY DEF Down
  <2> QED
    BY <2>1, <2>2 DEF Monitor
<1>2. \A d : Down(m.ref, m.target, s.reason) # Exit(d, s.reason)
  BY DEF Exit, Down
<1>3. Got(s, p)' = Got(s, p) \cup {Down(m.ref, m.target, s.reason)}
  BY DEF Got
<1> QED
  BY <1>1, <1>2, <1>3 DEF Got

GotSame(s, p) == Got(s, p)' = Got(s, p)

LEMMA TellsNothing ==
  ASSUME NEW s, Told(s),
         \A p \in Pid : Alive(p)' =>
           Alive(p) /\ mailbox'[p] = mailbox[p] /\ status'[p] = status[p] /\ GotSame(s, p)
  PROVE  Told(s)'
<1> SUFFICES ASSUME NEW p \in Pid, Alive(p)'
             PROVE  /\ Letters(mailbox'[p], s.mailbox[p], Got(s, p)')
                    /\ s.status[p] = "waiting" => status'[p] \in {"waiting", "runnable"}
                    /\ status'[p] = "waiting" => Got(s, p)' = {}
  BY DEF Told
<1>1. Alive(p) /\ mailbox'[p] = mailbox[p] /\ status'[p] = status[p] /\ Got(s, p)' = Got(s, p)
  BY DEF GotSame
<1> QED
  BY <1>1 DEF Told

LEMMA TellsOne ==
  ASSUME NEW s, TypeOK, SnapshotOK(s), Told(s), NEW q \in Pid, Alive(q), NEW x \in Message,
         Post(q, x), x \notin Got(s, q), Got(s, q)' = Got(s, q) \cup {x},
         \A p \in Pid : Alive(p)' => Alive(p),
         \A p \in Pid : Alive(p) /\ p # q => GotSame(s, p)
  PROVE  Told(s)'
<1>1. /\ mailbox \in [Pid -> Seq(Message)] /\ status \in [Pid -> Status]
      /\ mailbox' = [mailbox EXCEPT ![q] = Append(@, x)] /\ Wake(q)
  BY DEF TypeOK, Status, Post
<1>2. /\ \A p \in Pid : p # q => status'[p] = status[p]
      /\ status'[q] = IF status[q] = "waiting" THEN "runnable" ELSE status[q]
  BY <1>1 DEF Wake
<1> SUFFICES ASSUME NEW p \in Pid, Alive(p)'
             PROVE  /\ Letters(mailbox'[p], s.mailbox[p], Got(s, p)')
                    /\ s.status[p] = "waiting" => status'[p] \in {"waiting", "runnable"}
                    /\ status'[p] = "waiting" => Got(s, p)' = {}
  BY DEF Told
<1>3. CASE p # q
  <2>1. Alive(p) /\ mailbox'[p] = mailbox[p] /\ status'[p] = status[p] /\ Got(s, p)' = Got(s, p)
    BY <1>1, <1>2, <1>3 DEF GotSame
  <2> QED
    BY <2>1 DEF Told
<1>4. CASE p = q
  <2>1. /\ Letters(mailbox[q], s.mailbox[q], Got(s, q))
        /\ s.status[q] = "waiting" => status[q] \in {"waiting", "runnable"}
    BY DEF Told
  <2>2. mailbox'[q] = Append(mailbox[q], x) /\ mailbox[q] \in Seq(Message)
        /\ s.mailbox[q] \in Seq(Message)
    BY <1>1 DEF SnapshotOK
  <2>3. Letters(mailbox'[q], s.mailbox[q], Got(s, q)')
    BY <2>1, <2>2, LetterAdds
  <2>4. status'[q] # "waiting"
    BY <1>2
  <2> QED
    BY <1>2, <1>4, <2>1, <2>3, <2>4
<1> QED
  BY <1>3, <1>4

-----------------------------------------------------------------------------
(* Every step of finish() keeps the account of the death.                  *)

LEMMA WakeLasts ==
  ASSUME TypeOK, NEW p \in Pid, Wake(p) \/ UNCHANGED status
  PROVE  /\ Lasts /\ NoneGoes
         /\ \A q \in Pid : q # p => status'[q] = status[q]
<1>1. status \in [Pid -> Status]
  BY DEF TypeOK, Status
<1> QED
  BY <1>1 DEF Wake, Lasts, NoneGoes

\* what finish() does with one link of Top.pid
LinkDealt(q) ==
  \/ ~Alive(q) /\ Shorter(fin', q) /\ UNCHANGED <<status, mailbox, links, registry>>
  \/ /\ Alive(q) /\ links' = Unlinked(q, Top.pid) /\ q \in trapExit
     /\ Post(q, Exit(Top.pid, Top.reason)) /\ Shorter(fin', q) /\ UNCHANGED registry
  \/ /\ Alive(q) /\ links' = Unlinked(q, Top.pid) /\ Kills(q) /\ BeginFinish(q)
     /\ UNCHANGED mailbox
     /\ \E r : /\ Shorter(r, q)
               /\ fin' = <<Frame(q, Top.reason, TRUE, links[q] \ {Top.pid})>> \o r
  \/ /\ Alive(q) /\ links' = Unlinked(q, Top.pid) /\ q \notin trapExit /\ ~Top.abnormal
     /\ Shorter(fin', q) /\ UNCHANGED <<status, mailbox, registry>>

LEMMA DealsLinks ==
  ASSUME TypeOK, FinishLink
  PROVE  /\ \E q \in Top.todo : LinkDealt(q)
         /\ UNCHANGED <<trapExit, monitors>>
<1>1. fin # <<>> /\ UNCHANGED <<trapExit, monitors>>
  BY DEF FinishLink
<1>2. PICK q \in Top.todo :
        \/ ~Alive(q) /\ fin' = Rest(q) /\ UNCHANGED <<status, mailbox, links, registry>>
        \/ /\ Alive(q) /\ links' = Unlinked(q, Top.pid)
           /\ \/ /\ q \in trapExit /\ Post(q, Exit(Top.pid, Top.reason))
                 /\ fin' = Rest(q) /\ UNCHANGED registry
              \/ /\ Kills(q) /\ BeginFinish(q) /\ UNCHANGED mailbox
                 /\ fin' = <<Frame(q, Top.reason, TRUE, links[q] \ {Top.pid})>> \o Rest(q)
              \/ /\ q \notin trapExit /\ ~Top.abnormal
                 /\ fin' = Rest(q) /\ UNCHANGED <<status, mailbox, registry>>
  BY DEF FinishLink, Rest
<1>3. PICK r : r = Rest(q) /\ Shorter(r, q)
  BY <1>1, RestShorter
<1>4. LinkDealt(q)
  BY <1>2, <1>3 DEF LinkDealt
<1> QED
  BY <1>1, <1>4

\* nobody alive but q is served or overlooked when a link to q is dealt with
LEMMA DropsServed ==
  ASSUME NEW s, Lasts, NEW q, Drops(q), UNCHANGED monitors, NEW p \in Pid, p # q
  PROVE  Got(s, p)' = Got(s, p)
<1>1. \A d \in Pid : Served(s, d, p)' <=> Served(s, d, p)
  BY LastsFell DEF Served, Drops
<1>2. Fired(s, p)' = Fired(s, p)
  BY DEF Fired
<1> QED
  BY <1>1, <1>2, GotStays

LEMMA LastsLists ==
  ASSUME NEW s, TypeOK, DeathInv(s), Lasts, NoneGoes, UNCHANGED <<monitors, registry>>
  PROVE  Felled(s)' /\ Watched(s)' /\ Named(s)'
<1>1. SnapshotOK(s) /\ Felled(s) /\ Watched(s) /\ Named(s)
  BY DEF DeathInv
<1>3. Watched(s)'
  BY <1>1, LastsWatched
<1> QED
  BY <1>1, <1>3, LastsFelled, LastsNamed

LEMMA LinkDealtKeeps ==
  ASSUME NEW s, TypeOK, FinSound, fin # <<>>, DeathInv(s), NEW q \in Top.todo, LinkDealt(q),
         UNCHANGED <<trapExit, monitors>>
  PROVE  DeathInv(s)'
<1>1. /\ Top.pid \in Pid /\ q \in Pid /\ Fell(s, Top.pid) /\ ~Alive(Top.pid)
      /\ q \in s.links[Top.pid] /\ Top.reason = s.reason /\ Top.abnormal = s.abnormal
      /\ Pending(Top.pid, q)
  BY TopFell DEF DeathInv
<1>2. SnapshotOK(s) /\ SnapshotOK(s)'
  BY DEF DeathInv
<1>4. CASE ~Alive(q) /\ Shorter(fin', q) /\ UNCHANGED <<status, mailbox, links, registry>>
  <2>1. Lasts /\ NoneGoes
    BY <1>4 DEF Lasts, NoneGoes
  <2>2. Spared(s)' /\ Dealt(s)' /\ Frames(s)'
    BY <1>2, <1>4, <2>1, DealsWithLink DEF DeathInv
  <2>3. Felled(s)' /\ Watched(s)' /\ Named(s)'
    BY <1>4, <2>1, LastsLists
  <2>4. Drops(q)
    BY <1>4, ShorterDrops
  <2>5. \A p \in Pid : Alive(p)' => Alive(p) /\ p # q
    BY <1>4, <2>1, LastsFell
  <2>6. \A p \in Pid : p # q => GotSame(s, p)
    BY <2>1, <2>4, DropsServed DEF GotSame
  <2>7. Told(s)'
    BY <1>4, <2>5, <2>6, TellsNothing DEF DeathInv
  <2> QED
    BY <1>2, <2>2, <2>3, <2>7 DEF DeathInv
<1>5. CASE /\ Alive(q) /\ links' = Unlinked(q, Top.pid) /\ q \in trapExit
           /\ Post(q, Exit(Top.pid, Top.reason)) /\ Shorter(fin', q) /\ UNCHANGED registry
  <2>1. Lasts /\ NoneGoes
    BY <1>1, <1>5, WakeLasts DEF Post
  <2>2. Spared(s)' /\ Dealt(s)' /\ Frames(s)'
    BY <1>2, <1>5, <2>1, DealsWithLink DEF DeathInv
  <2>3. Felled(s)' /\ Watched(s)' /\ Named(s)'
    BY <1>5, <2>1, LastsLists
  <2>4. Drops(q)
    BY <1>5, ShorterDrops
  <2>5. \A p \in Pid : Alive(p)' <=> Alive(p)
    BY <2>1, LastsFell
  <2>6. \A p \in Pid : p # q => GotSame(s, p)
    BY <2>1, <2>4, DropsServed DEF GotSame
  <2>7. q \in s.trapExit
    BY <1>1, <1>5 DEF DeathInv, Spared
  <2>8. ~Served(s, Top.pid, q)
    BY <1>1 DEF Served
  <2>9. \A d \in Pid : Served(s, d, q)' <=> Served(s, d, q) \/ d = Top.pid
    BY <1>1, <2>1, <2>4, <2>7, LastsFell DEF Served, Drops
  <2>10. Fired(s, q)' = Fired(s, q)
    BY DEF Fired
  <2>11. /\ Got(s, q)' = Got(s, q) \cup {Exit(Top.pid, s.reason)}
         /\ Exit(Top.pid, s.reason) \notin Got(s, q)
    BY <1>1, <2>8, <2>9, <2>10, GotExit
  <2>12. Exit(Top.pid, s.reason) \in Message
    BY <1>1, <1>2, MessageType DEF SnapshotOK
  <2>13. Told(s)'
    BY <1>1, <1>2, <1>5, <2>5, <2>6, <2>11, <2>12, TellsOne DEF DeathInv
  <2> QED
    BY <1>2, <2>2, <2>3, <2>13 DEF DeathInv
<1>6. CASE /\ Alive(q) /\ links' = Unlinked(q, Top.pid) /\ q \notin trapExit /\ ~Top.abnormal
           /\ Shorter(fin', q) /\ UNCHANGED <<status, mailbox, registry>>
  <2>1. Lasts /\ NoneGoes
    BY <1>6 DEF Lasts, NoneGoes
  <2>2. Spared(s)' /\ Dealt(s)' /\ Frames(s)'
    BY <1>2, <1>6, <2>1, DealsWithLink DEF DeathInv
  <2>3. Felled(s)' /\ Watched(s)' /\ Named(s)'
    BY <1>6, <2>1, LastsLists
  <2>4. Drops(q)
    BY <1>6, ShorterDrops
  <2>5. \A p \in Pid : Alive(p)' <=> Alive(p)
    BY <2>1, LastsFell
  <2>6. \A p \in Pid : p # q => GotSame(s, p)
    BY <2>1, <2>4, DropsServed DEF GotSame
  <2>7. q \notin s.trapExit
    BY <1>1, <1>6 DEF DeathInv, Spared
  <2>8. GotSame(s, q)
    <3>1. \A d \in Pid : Served(s, d, q)' <=> Served(s, d, q)
      BY <2>7 DEF Served
    <3>2. Fired(s, q)' = Fired(s, q)
      BY DEF Fired
    <3> QED
      BY <3>1, <3>2, GotStays DEF GotSame
  <2>9. Told(s)'
    BY <1>6, <2>5, <2>6, <2>8, TellsNothing DEF DeathInv
  <2> QED
    BY <1>2, <2>2, <2>3, <2>9 DEF DeathInv
<1>7. CASE /\ Alive(q) /\ links' = Unlinked(q, Top.pid) /\ Kills(q) /\ BeginFinish(q)
           /\ UNCHANGED mailbox
           /\ \E r : /\ Shorter(r, q)
                     /\ fin' = <<Frame(q, Top.reason, TRUE, links[q] \ {Top.pid})>> \o r
  <2>1. PICK r : /\ Shorter(r, q)
                 /\ fin' = <<Frame(q, Top.reason, TRUE, links[q] \ {Top.pid})>> \o r
    BY <1>7
  <2>2. /\ Felled(s)' /\ Spared(s)' /\ Frames(s)' /\ Dealt(s)' /\ Watched(s)' /\ Named(s)'
        /\ \A p \in Pid : Alive(p)' <=> Alive(p) /\ p # q
        /\ \A p : Fell(s, p)' <=> Fell(s, p) \/ p = q
        /\ \A c, a \in Pid : Alive(a)' /\ a \in s.links[c] =>
             (Pending(c, a)' <=> Pending(c, a) \/ c = q)
    BY <1>2, <1>7, <2>1, KillsLink DEF DeathInv
  <2>3. ~Fell(s, q)
    BY <1>7 DEF Fell, Alive, Exists
  <2>4. ASSUME NEW p \in Pid, Alive(p)' PROVE GotSame(s, p)
    <3>1. \A d \in Pid : Served(s, d, p)' <=> Served(s, d, p)
      BY <2>2, <2>3, <2>4 DEF Served
    <3>2. Fired(s, p)' = Fired(s, p)
      BY DEF Fired
    <3> QED
      BY <3>1, <3>2, GotStays DEF GotSame
  <2>5. status \in [Pid -> Status] /\ status' = [status EXCEPT ![q] = "done"]
    BY <1>7 DEF TypeOK, Status, BeginFinish
  <2>6. \A p \in Pid : p # q => status'[p] = status[p]
    BY <2>5
  <2>7. Told(s)'
    BY <1>7, <2>2, <2>4, <2>6, TellsNothing DEF DeathInv
  <2> QED
    BY <1>2, <2>2, <2>7 DEF DeathInv
<1> QED
  BY <1>4, <1>5, <1>6, <1>7 DEF LinkDealt

LEMMA MonitorKeeps ==
  ASSUME NEW s, TypeOK, FinSound, DeathInv(s), FinishMonitor
  PROVE  DeathInv(s)'
<1>1. PICK m \in monitors :
        /\ m.target = Top.pid /\ monitors' = monitors \ {m}
        /\ IF Alive(m.by) THEN Post(m.by, Down(m.ref, Top.pid, Top.reason))
                          ELSE UNCHANGED <<mailbox, status>>
  BY DEF FinishMonitor
<1>2. fin # <<>> /\ UNCHANGED <<links, trapExit, registry, fin>>
  BY DEF FinishMonitor
<1>3. /\ Top.pid \in Pid /\ Fell(s, Top.pid) /\ Top.reason = s.reason
      /\ m \in Monitor /\ m.by \in Pid /\ m.ref \in Ref
  BY <1>2, TopFell DEF DeathInv, TypeOK, Monitor
<1>4. /\ SnapshotOK(s) /\ Felled(s) /\ Spared(s) /\ Frames(s)
      /\ Dealt(s) /\ Watched(s) /\ Named(s) /\ Told(s) /\ SnapshotOK(s)'
  BY DEF DeathInv
<1>5. Lasts /\ NoneGoes
  BY <1>1, <1>3, WakeLasts DEF Post
<1>6. \A c, a \in Pid : Pending(c, a)' <=> Pending(c, a)
  BY <1>2 DEF Pending
<1>7. Spared(s)' /\ Dealt(s)'
  BY <1>2, <1>4, <1>5, <1>6, SameLists
<1>8. Frames(s)'
  BY <1>2, <1>4 DEF Frames
<1>9. Felled(s)' /\ Named(s)'
  BY <1>2, <1>4, <1>5, LastsFelled, LastsNamed
<1>10. Watched(s)'
  <2>1. \A o \in monitors \ monitors' : Fell(s, o.by) \/ Fell(s, o.target)
    BY <1>1, <1>3
  <2> QED
    BY <1>1, <1>4, <1>5, <2>1, LastsWatched
<1>11. \A p \in Pid : Alive(p)' <=> Alive(p)
  BY <1>5, LastsFell
<1>12. \A p \in Pid : \A d \in Pid : Served(s, d, p)' <=> Served(s, d, p)
  BY <1>5, <1>6, LastsFell DEF Served
<1>13. ASSUME NEW p \in Pid, p # m.by PROVE GotSame(s, p)
  <2>1. Fired(s, p)' = Fired(s, p)
    BY <1>1, <1>13 DEF Fired
  <2> QED
    BY <1>12, <2>1, GotStays DEF GotSame
<1>14. Told(s)'
  <2>1. CASE ~Alive(m.by)
    BY <1>1, <1>4, <1>11, <1>13, <2>1, TellsNothing
  <2>2. CASE Alive(m.by)
    <3>1. PICK q \in Pid : q = m.by
      BY <1>3
    <3>2. Post(q, Down(m.ref, m.target, s.reason)) /\ Alive(q)
      BY <1>1, <1>3, <2>2, <3>1
    <3>3. m \notin Fired(s, q) /\ Fired(s, q) \subseteq Monitor /\ m \in s.monitors
      BY <1>4 DEF Fired, SnapshotOK, Watched
    <3>4. Fired(s, q)' = Fired(s, q) \cup {m}
      BY <1>1, <3>1, <3>3 DEF Fired
    <3>5. /\ Got(s, q)' = Got(s, q) \cup {Down(m.ref, m.target, s.reason)}
          /\ Down(m.ref, m.target, s.reason) \notin Got(s, q)
      BY <1>3, <1>12, <3>1, <3>3, <3>4, GotDown
    <3>6. Down(m.ref, m.target, s.reason) \in Message
      BY <1>1, <1>3, <1>4, MessageType DEF SnapshotOK
    <3>7. \A p \in Pid : Alive(p) /\ p # q => GotSame(s, p)
      BY <1>13, <3>1
    <3>8. \A p \in Pid : Alive(p)' => Alive(p)
      BY <1>11
    <3> QED
      BY <1>4, <3>2, <3>5, <3>6, <3>7, <3>8, TellsOne
  <2> QED
    BY <2>1, <2>2
<1> QED
  BY <1>4, <1>7, <1>8, <1>9, <1>10, <1>14 DEF DeathInv

LEMMA DoneKeeps ==
  ASSUME NEW s, TypeOK, FinSound, DeathInv(s), FinishDone
  PROVE  DeathInv(s)'
<1>1. PICK t \in Pid :
        /\ t = Top.pid /\ monitors' = {m \in monitors : m.by # t}
        /\ status' = [status EXCEPT ![t] = "gone"]
        /\ mailbox' = [mailbox EXCEPT ![t] = <<>>]
        /\ links' = [links EXCEPT ![t] = {}]
        /\ trapExit' = trapExit \ {t}
        /\ \A m \in monitors : m.target # t
  <2>1. fin # <<>> /\ Top.pid \in Pid
    BY TopIsDone DEF FinishDone
  <2> QED
    BY <2>1 DEF FinishDone
<1>2. fin # <<>> /\ Top.todo = {} /\ fin' = Tail(fin) /\ UNCHANGED registry
  BY DEF FinishDone
<1>3. status[t] = "done" /\ ~Alive(t) /\ Fell(s, t)
  BY <1>1, <1>2, TopFell DEF DeathInv
<1>4. /\ SnapshotOK(s) /\ Felled(s) /\ Spared(s) /\ Frames(s)
      /\ Dealt(s) /\ Watched(s) /\ Named(s) /\ Told(s) /\ SnapshotOK(s)'
  BY DEF DeathInv
<1>5. /\ status \in [Pid -> Status] /\ mailbox \in [Pid -> Seq(Message)]
      /\ links \in [Pid -> SUBSET Pid]
  BY DEF TypeOK, Status
<1>6. \A p \in Pid : p # t => /\ status'[p] = status[p] /\ mailbox'[p] = mailbox[p]
                              /\ links'[p] = links[p]
                              /\ (p \in trapExit' <=> p \in trapExit)
  BY <1>1, <1>5
<1>7. status'[t] = "gone"
  BY <1>1, <1>5
<1>8. Lasts
  BY <1>3, <1>6, <1>7 DEF Lasts
<1>9. /\ \A c, a \in Pid : Pending(c, a)' <=> Pending(c, a)
      /\ \A i \in DOMAIN fin' : i + 1 \in DOMAIN fin /\ fin'[i] = fin[i + 1]
  BY <1>2, PopDrops
<1>10. Spared(s)' /\ Dealt(s)'
  <2>1. \A p \in Pid : Alive(p) => links'[p] = links[p] /\ (p \in trapExit' <=> p \in trapExit)
    BY <1>3, <1>6
  <2> QED
    BY <1>4, <1>8, <1>9, <2>1, SameLists
<1>11. Frames(s)'
  BY <1>4, <1>9 DEF Frames
<1>12. Felled(s)' /\ Named(s)'
  BY <1>2, <1>4, <1>8, LastsFelled, LastsNamed
<1>13. Watched(s)'
  <2>1. \A p : Fell(s, p)' <=> Fell(s, p)
    BY <1>8, LastsFell
  <2>2. \A m \in s.monitors \ monitors' : Fell(s, m.by)' \/ Fell(s, m.target)'
    BY <1>1, <1>3, <1>4, <2>1 DEF Watched
  <2>3. \A m \in monitors' : /\ m \in monitors /\ m.by # t /\ m.target # t
                             /\ m.by \in Pid /\ m.target \in Pid
    BY <1>1 DEF TypeOK, Monitor
  <2>4. \A m \in monitors' : ~Over(s, m.by)' /\ ~Over(s, m.target)'
    BY <1>4, <1>6, <2>3 DEF Watched, Over
  <2> QED
    BY <1>1, <1>4, <2>2, <2>4 DEF Watched
<1>14. Told(s)'
  <2>1. ASSUME NEW p \in Pid, Alive(p)' PROVE Alive(p) /\ p # t
    BY <1>3, <1>8, <2>1, LastsFell
  <2>2. ASSUME NEW p \in Pid, p # t PROVE GotSame(s, p)
    <3>1. \A d \in Pid : Served(s, d, p)' <=> Served(s, d, p)
      BY <1>8, <1>9, LastsFell DEF Served
    <3>2. Fired(s, p)' = Fired(s, p)
      BY <1>1, <2>2 DEF Fired
    <3> QED
      BY <3>1, <3>2, GotStays DEF GotSame
  <2> QED
    BY <1>4, <1>6, <2>1, <2>2, TellsNothing
<1> QED
  BY <1>4, <1>10, <1>11, <1>12, <1>13, <1>14 DEF DeathInv

LEMMA FinishKeepsDeath ==
  ASSUME NEW s, TypeOK, IInv, DeathInv(s), Finish PROVE DeathInv(s)'
<1>1. FinSound
  BY DEF IInv
<1>2. CASE FinishLink
  <2>1. fin # <<>>
    BY <1>2 DEF FinishLink
  <2>2. PICK q \in Top.todo : LinkDealt(q)
    BY <1>2, DealsLinks
  <2>3. UNCHANGED <<trapExit, monitors>>
    BY <1>2, DealsLinks
  <2> QED
    BY <1>1, <2>1, <2>2, <2>3, LinkDealtKeeps
<1> QED
  BY <1>1, <1>2, MonitorKeeps, DoneKeeps DEF Finish

-----------------------------------------------------------------------------
(* The start of a death.                                                   *)

\* between deaths: an orphan is linked to nobody who could still die
OrphansApart ==
  \A p \in Pid : Orphan(p) => \A q \in links[p] : status[q] = "gone"

DeathStarts(p, r, b) ==
  /\ Alive(p) /\ BeginFinish(p) /\ fin' = <<Frame(p, r, b, links[p])>>
  /\ UNCHANGED <<links, trapExit, monitors, mailbox>>

LEMMA StartsDeath ==
  ASSUME TypeOK, IInv, LinkInv, OrphansApart, fin = <<>>,
         NEW p \in Pid, NEW r \in Reasons, NEW b \in BOOLEAN, DeathStarts(p, r, b),
         NEW s, s = Snapshot(fin'[1])
  PROVE  DeathInv(s)'
<1>1. /\ s.pid = p /\ s.reason = r /\ s.abnormal = b /\ s.status = status /\ s.links = links
      /\ s.trapExit = trapExit /\ s.mailbox = mailbox /\ s.monitors = monitors
      /\ s.registry = registry
  <2>1. fin'[1] = Frame(p, r, b, links[p])
    BY DEF DeathStarts
  <2>2. fin'[1].pid = p /\ fin'[1].reason = r /\ fin'[1].abnormal = b
    BY <2>1 DEF Frame
  <2> QED
    BY <2>2 DEF Snapshot
<1>2. /\ DOMAIN fin' = {1} /\ fin'[1].pid = p /\ fin'[1].todo = links[p]
      /\ fin'[1].reason = r /\ fin'[1].abnormal = b
  BY DEF DeathStarts, Frame
<1>3. /\ status \in [Pid -> Status] /\ links \in [Pid -> SUBSET Pid]
      /\ mailbox \in [Pid -> Seq(Message)] /\ monitors \subseteq Monitor
      /\ registry \in [Names -> Pid \cup {NoPid}]
  BY DEF TypeOK, Status
<1>4. \A q \in Pid : status[q] # "done"
  BY DEF IInv, FinSound
<1>5. \A q \in Pid : Lived(s, q) <=> Alive(q)
  BY <1>1, <1>4 DEF Lived, Alive, Exists
<1>6. \A q \in Pid : status'[q] = IF q = p THEN "done" ELSE status[q]
  BY <1>3 DEF DeathStarts, BeginFinish
<1>7. \A q : Fell(s, q)' <=> q = p
  BY <1>4, <1>5, <1>6 DEF Fell, Lived, DeathStarts, Alive, Exists
<1>8. \A q \in Pid : Alive(q)' <=> Alive(q) /\ q # p
  BY <1>6 DEF Alive, Exists
<1>9. SnapshotOK(s)
  <2>1. ASSUME NEW x \in Pid, NEW y \in Pid, Lived(s, x), Lived(s, y), y \in links[x]
        PROVE  x \in links[y]
    <3>1. LinksMutual
      BY LinkInvEnough
    <3>2. ~Orphan(x)
      BY <1>1, <2>1 DEF OrphansApart, Lived
    <3> QED
      BY <2>1, <3>1, <3>2 DEF LinksMutual
  <2> QED
    BY <1>1, <1>3, <2>1 DEF SnapshotOK
<1>10. \A c, a : Pending(c, a)' <=> c = p /\ a \in links[p]
  BY <1>2 DEF Pending
<1>11. Felled(s)'
  <2>1. p \in Reached(s)
    BY <1>1, <1>9, ReachedStart
  <2>2. Fell(s, s.pid)' /\ \A q \in Pid : Fell(s, q)' => q \in Reached(s)
    BY <1>1, <1>7, <2>1
  <2>3. ASSUME NEW q \in Pid
        PROVE  IF Lived(s, q) THEN status'[q] # "absent" ELSE status'[q] = s.status[q]
    BY <1>1, <1>6, <1>5 DEF Lived, DeathStarts
  <2> QED
    BY <2>2, <2>3 DEF Felled
<1>12. Spared(s)'
  BY <1>1 DEF Spared, DeathStarts
<1>13. Frames(s)'
  BY <1>1, <1>2 DEF Frames
<1>14. Dealt(s)'
  <2> SUFFICES ASSUME NEW x \in Pid, NEW y \in Pid, Fell(s, x)', y \in s.links[x], Alive(y)'
               PROVE  Pending(x, y)'
    BY DEF Dealt
  <2> QED
    BY <1>1, <1>7, <1>10
<1>15. Watched(s)'
  <2>1. \A m \in monitors : m.by \in Pid /\ m.target \in Pid
    BY <1>3 DEF Monitor
  <2>2. \A q \in Pid : ~Over(s, q)'
    BY <1>1, <1>6 DEF Over, Lived
  <2> QED
    BY <1>1, <2>1, <2>2 DEF Watched, DeathStarts
<1>16. Named(s)'
  <2> SUFFICES ASSUME NEW n \in Names
               PROVE  registry'[n] = IF Fell(s, s.registry[n])' THEN NoPid ELSE s.registry[n]
    BY DEF Named
  <2> QED
    BY <1>1, <1>7 DEF DeathStarts, BeginFinish
<1>17. Told(s)'
  <2> SUFFICES ASSUME NEW q \in Pid, Alive(q)'
               PROVE  /\ Letters(mailbox'[q], s.mailbox[q], Got(s, q)')
                      /\ s.status[q] = "waiting" => status'[q] \in {"waiting", "runnable"}
                      /\ Got(s, q)' = {}
    BY DEF Told
  <2>1. \A d \in Pid : ~Served(s, d, q)'
    BY <1>1, <1>7, <1>10 DEF Served
  <2>2. Fired(s, q)' = {}
    BY <1>1 DEF Fired, DeathStarts
  <2>3. Got(s, q)' = {}
    BY <2>1, <2>2 DEF Got
  <2>4. mailbox'[q] = s.mailbox[q] /\ Len(s.mailbox[q]) \in Nat
    BY <1>1, <1>3 DEF DeathStarts
  <2>5. Letters(mailbox'[q], s.mailbox[q], {})
    BY <2>4 DEF Letters
  <2> QED
    BY <1>1, <1>6, <1>8, <2>3, <2>5
<1> QED
  BY <1>9, <1>11, <1>12, <1>13, <1>14, <1>15, <1>16, <1>17 DEF DeathInv

-----------------------------------------------------------------------------
(* Orphans stay apart.                                                     *)

Fewer == \A p \in Pid : links'[p] \subseteq links[p]

\* nobody dies for good, and a new process gets at most one link
Calm ==
  /\ \A p \in Pid : status'[p] = "gone" <=> status[p] = "gone"
  /\ \A p \in Pid : \/ status'[p] # "new"
                    \/ status[p] = "new" /\ links'[p] \subseteq links[p]
                    \/ \E c : links'[p] \subseteq {c}

LEMMA CalmKeeps == ASSUME TypeOK, OrphansApart, Calm PROVE OrphansApart'
<1> SUFFICES ASSUME NEW p \in Pid, status'[p] = "new", NEW q \in links'[p], status'[q] = "gone",
                    NEW c \in links'[p]
             PROVE  status'[c] = "gone"
  BY DEF OrphansApart, Orphan
<1>1. links \in [Pid -> SUBSET Pid]
  BY DEF TypeOK
<1>2. CASE status[p] = "new" /\ links'[p] \subseteq links[p]
  <2>1. q \in Pid /\ c \in Pid /\ q \in links[p] /\ c \in links[p]
    BY <1>1, <1>2
  <2>2. status[q] = "gone"
    BY <2>1 DEF Calm
  <2>3. Orphan(p)
    BY <1>2, <2>1, <2>2 DEF Orphan
  <2> QED
    BY <2>1, <2>3 DEF OrphansApart, Calm
<1>3. CASE \E d : links'[p] \subseteq {d}
  BY <1>3
<1> QED
  BY <1>2, <1>3 DEF Calm

LEMMA CalmStill ==
  ASSUME TypeOK, OrphansApart, UNCHANGED status, Fewer PROVE OrphansApart'
<1>1. Calm
  BY DEF Calm, Fewer
<1> QED
  BY <1>1, CalmKeeps

LEMMA CalmMove ==
  ASSUME TypeOK, OrphansApart, NEW p \in Pid, status[p] # "gone",
         NEW as \in {"running", "waiting", "ready", "runnable", "done"},
         status' = [status EXCEPT ![p] = as], Fewer
  PROVE  OrphansApart'
<1>1. \A q \in Pid : status'[q] = IF q = p THEN as ELSE status[q]
  BY DEF TypeOK
<1>2. Calm
  BY <1>1 DEF Calm, Fewer
<1> QED
  BY <1>2, CalmKeeps

LEMMA CalmWake ==
  ASSUME TypeOK, OrphansApart, NEW p \in Pid, MayWake(p), Fewer PROVE OrphansApart'
<1>1. CASE UNCHANGED status
  BY <1>1, CalmStill
<1>2. CASE Woken(p)
  <2>1. PICK as \in {"ready", "runnable"} : status' = [status EXCEPT ![p] = as]
    BY <1>2 DEF Woken
  <2>2. status[p] # "gone"
    BY <1>2 DEF Woken
  <2> QED
    BY <2>1, <2>2, CalmMove
<1> QED
  BY <1>1, <1>2 DEF MayWake

LEMMA CalmLinkFinish ==
  ASSUME TypeOK, IInv, OrphansApart, FinishLink PROVE OrphansApart'
<1>1. Top \in Activation
  BY TopIsDone DEF FinishLink, IInv
<1>2. PICK q \in Top.todo :
        \/ UNCHANGED <<status, links>>
        \/ /\ Alive(q) /\ links' = Unlinked(q, Top.pid)
           /\ \/ Wake(q)
              \/ BeginFinish(q)
              \/ UNCHANGED status
  BY DEF FinishLink, Post
<1>3. q \in Pid
  BY <1>1 DEF Activation
<1>4. CASE UNCHANGED <<status, links>>
  BY <1>4, CalmStill DEF Fewer
<1>5. CASE Alive(q) /\ links' = Unlinked(q, Top.pid)
  <2>1. Fewer
    BY <1>5 DEF Fewer, Unlinked, TypeOK
  <2>2. status[q] # "gone"
    BY <1>5 DEF Alive, Exists
  <2>3. CASE Wake(q)
    BY <1>3, <2>1, <2>3, WakeMayWake, CalmWake
  <2>4. CASE BeginFinish(q)
    BY <1>3, <2>1, <2>2, <2>4, CalmMove DEF BeginFinish
  <2>5. CASE UNCHANGED status
    BY <2>1, <2>5, CalmStill
  <2> QED
    BY <1>2, <1>4, <2>3, <2>4, <2>5
<1> QED
  BY <1>2, <1>4, <1>5

LEMMA CalmDone ==
  ASSUME TypeOK, IInv, LinkInv, OrphansApart, FinishDone PROVE OrphansApart'
<1>0. PICK t \in Pid : t = Top.pid /\ status[t] = "done"
  BY TopIsDone DEF FinishDone, IInv
<1>1. /\ fin # <<>> /\ Top.todo = {} /\ Top.pid = t
      /\ links \in [Pid -> SUBSET Pid]
      /\ \A p \in Pid : status'[p] = IF p = t THEN "gone" ELSE status[p]
      /\ \A p \in Pid : links'[p] = IF p = t THEN {} ELSE links[p]
  BY <1>0 DEF FinishDone, TypeOK
<1>2. \A p \in Pid : ~Pending(t, p)
  <2> SUFFICES ASSUME NEW p \in Pid, NEW i \in DOMAIN fin, fin[i].pid = t, p \in fin[i].todo
               PROVE  FALSE
    BY DEF Pending
  <2>1. 1 \in DOMAIN fin /\ fin[1] = Top
    BY <1>1, TailFacts DEF TypeOK, Top
  <2>2. i = 1
    BY <1>1, <2>1 DEF IInv, FinSound
  <2> QED
    BY <1>1, <2>1, <2>2
<1> SUFFICES ASSUME NEW p \in Pid, status'[p] = "new", NEW q \in links'[p], status'[q] = "gone",
                    NEW c \in links'[p]
             PROVE  status'[c] = "gone"
  BY DEF OrphansApart, Orphan
<1>3. p # t /\ status[p] = "new" /\ Alive(p) /\ q \in links[p] /\ c \in links[p]
  BY <1>1 DEF Alive, Exists
<1>4. q \in Pid /\ c \in Pid
  BY <1>1, <1>3
<1>5. Orphan(p)
  <2>1. CASE q = t
    BY <1>0, <1>2, <1>3, <2>1 DEF LinkInv, Linked, Alive
  <2>2. CASE q # t
    BY <1>1, <1>3, <1>4, <2>2 DEF Orphan
  <2> QED
    BY <2>1, <2>2
<1> QED
  BY <1>1, <1>3, <1>4, <1>5 DEF OrphansApart

LEMMA CalmImport ==
  ASSUME TypeOK, IInv, LinkInv, OrphansApart, Import PROVE OrphansApart'
<1>1. CASE Spawn \/ SpawnLink \/ SpawnLinkThrows
  <2>1. /\ nextPid <= MaxPid /\ NewProc(nextPid)
        /\ \/ UNCHANGED links
           \/ /\ Executing /\ Alive(current)
              /\ links' = [links EXCEPT ![nextPid] = {current}, ![current] = @ \cup {nextPid}]
           \/ links' = [links EXCEPT ![nextPid] = {current}]
    BY <1>1 DEF Spawn, SpawnLink, SpawnLinkThrows, Call
  <2>2. PICK n \in Pid : n = nextPid
    BY <2>1, NewFacts
  <2>3. /\ links[n] = {} /\ current # n /\ status[n] = "absent"
        /\ links \in [Pid -> SUBSET Pid]
        /\ \A p \in Pid : status'[p] = IF p = n THEN "new" ELSE status[p]
    BY <2>1, <2>2, NewFacts
  <2>4. links'[n] \subseteq {current}
    BY <2>1, <2>2, <2>3
  <2>5. \A p \in Pid : p # n /\ p # current => links'[p] = links[p]
    BY <2>1, <2>2, <2>3
  <2>6. status[current] = "new" => links'[current] = links[current]
    <3>1. CASE Executing /\ Alive(current)
      BY <3>1 DEF Executing, IInv, EngineInv, Executes
    <3>2. CASE UNCHANGED links \/ links' = [links EXCEPT ![nextPid] = {current}]
      BY <2>2, <2>3, <3>2 DEF TypeOK
    <3> QED
      BY <2>1, <3>1, <3>2
  <2>7. Calm
    BY <2>3, <2>4, <2>5, <2>6 DEF Calm
  <2> QED
    BY <2>7, CalmKeeps
<1>2. CASE SendAny
  <2>1. ASSUME NEW d, Send(d) PROVE OrphansApart'
    <3>1. CASE Alive(d)
      BY <2>1, <3>1, WakeMayWake, CalmWake DEF Send, Post, Alive, Exists, Fewer
    <3>2. CASE ~Alive(d)
      BY <2>1, <3>2, CalmStill DEF Send, Fewer
    <3> QED
      BY <3>1, <3>2
  <2> QED
    BY <1>2, <2>1 DEF SendAny
<1>3. ASSUME NEW p \in Pid, NEW r \in Reasons, Exit2(p, r) PROVE OrphansApart'
  <2>1. Fewer
    BY <1>3 DEF Exit2, Fewer
  <2>2. CASE UNCHANGED status
    BY <2>1, <2>2, CalmStill
  <2>3. CASE Wake(p)
    BY <2>1, <2>3, WakeMayWake, CalmWake
  <2>4. CASE Alive(p) /\ BeginFinish(p)
    BY <2>1, <2>4, CalmMove DEF BeginFinish, Alive, Exists
  <2> QED
    BY <1>3, <2>2, <2>3, <2>4 DEF Exit2, Post
<1>4. CASE \/ \E i \in DOMAIN mailbox[current] : Receive(i)
           \/ \E v \in BOOLEAN : SetTrapExit(v)
           \/ \E n \in Names, p \in Pid : Register(n, p)
           \/ \E p \in Pid : MonitorProc(p)
           \/ \E ref \in Ref : Demonitor(ref)
  BY <1>4, CalmStill DEF Receive, SetTrapExit, Register, MonitorProc, Demonitor, procVars, Fewer
<1> QED
  BY <1>1, <1>2, <1>3, <1>4 DEF Import

LEMMA StepOrphans ==
  ASSUME TypeOK, IInv, LinkInv, OrphansApart, [Next]_vars PROVE OrphansApart'
<1>1. CASE Finish
  <2>1. CASE FinishMonitor
    <3>1. PICK m \in monitors : /\ UNCHANGED links
                                /\ Wake(m.by) \/ UNCHANGED status
      BY <2>1 DEF FinishMonitor, Post
    <3>2. m.by \in Pid /\ Fewer
      BY <3>1 DEF TypeOK, Monitor, Fewer
    <3> QED
      BY <3>1, <3>2, WakeMayWake, CalmWake, CalmStill
  <2> QED
    BY <1>1, <2>1, CalmLinkFinish, CalmDone DEF Finish
<1>2. CASE Loop
  <2>1. CASE DispatchStart \/ DispatchResume
    <3>1. PICK p \in Pid : Alive(p) /\ status' = [status EXCEPT ![p] = "running"] /\ UNCHANGED links
      BY <2>1, JobHead DEF DispatchStart, DispatchResume, Dispatch
    <3> QED
      BY <3>1, CalmMove DEF Alive, Exists, Fewer
  <2>2. CASE DispatchDead \/ LoopSettle \/ LoopLeave \/ IdleEnds
    BY <2>2, CalmStill DEF DispatchDead, LoopSettle, LoopLeave, IdleEnds, procVars, Fewer
  <2> QED
    BY <1>2, <2>1, <2>2 DEF Loop
<1>3. CASE Engine
  <2>1. ASSUME NEW p \in Pid, RunStack(p) \/ UnwindStack(p) PROVE OrphansApart'
    BY <2>1, CalmStill DEF RunStack, UnwindStack, procVars, Fewer
  <2>2. ASSUME NEW p \in Pid, NEW o \in {"return", "throw"}, Settle(p, o) PROVE OrphansApart'
    <3>1. Fewer
      BY <2>2 DEF Settle, Fewer
    <3>2. CASE UNCHANGED status
      BY <3>1, <3>2, CalmStill
    <3>3. CASE Alive(p) /\ BeginFinish(p)
      BY <3>1, <3>3, CalmMove DEF BeginFinish, Alive, Exists
    <3> QED
      BY <2>2, <3>2, <3>3 DEF Settle
  <2> QED
    BY <1>3, <2>1, <2>2 DEF Engine
<1>4. CASE \E p \in Pid : TimerFires(p)
  <2>1. PICK p \in Pid : TimerFires(p)
    BY <1>4
  <2> QED
    BY <2>1, CalmMove DEF TimerFires, Fewer
<1>5. CASE Stop
  <2>1. CASE RecvWait \/ RecvWaitTimeout \/ Yield
    <3>1. PICK p \in Pid, as \in {"waiting", "ready"} :
            Alive(p) /\ status' = [status EXCEPT ![p] = as] /\ UNCHANGED links
      BY <2>1 DEF RecvWait, RecvWaitTimeout, Yield, Park, Alive, Exists
    <3> QED
      BY <3>1, CalmMove DEF Alive, Exists, Fewer
  <2>2. CASE Return \/ Crash \/ \E r \in Reasons : ExitSelf(r)
    BY <2>2, CalmStill DEF Return, Crash, ExitSelf, procVars, Fewer
  <2> QED
    BY <1>5, <2>1, <2>2 DEF Stop
<1>6. CASE Ended \/ UNCHANGED vars
  BY <1>6, CalmStill DEF Ended, vars, procVars, Fewer
<1> QED
  BY <1>1, <1>2, <1>3, <1>4, <1>5, <1>6, CalmImport DEF Next

LEMMA InitOrphans == Init => OrphansApart
BY DEF Init, OrphansApart, Orphan

-----------------------------------------------------------------------------
(* The history variable follows a death.                                   *)

LEMMA Begins ==
  ASSUME TypeOK, Next, fin = <<>>, fin' # <<>>
  PROVE  \E p \in Pid, r \in Reasons, b \in BOOLEAN : DeathStarts(p, r, b)
<1>1. CASE Engine
  <2>1. PICK p \in Pid, o \in {"return", "throw"} : Settle(p, o)
    BY <1>1 DEF Engine, RunStack, UnwindStack
  <2>2. DeathStarts(p, ReasonRef(p), o = "throw")
    BY <2>1 DEF Settle, DeathStarts
  <2>3. ReasonRef(p) \in Reasons /\ (o = "throw") \in BOOLEAN
    BY ReasonRefType
  <2> QED
    BY <2>2, <2>3
<1>2. CASE Import
  <2>1. PICK p \in Pid, r \in Reasons : Exit2(p, r)
    BY <1>2 DEF Import, Spawn, SpawnLink, SpawnLinkThrows, SendAny, Send, Receive, SetTrapExit,
                Register, MonitorProc, Demonitor
  <2>2. DeathStarts(p, r, TRUE)
    BY <2>1 DEF Exit2, DeathStarts
  <2> QED
    BY <2>2
<1> QED
  BY <1>1, <1>2 DEF Next, Finish, FinishLink, FinishMonitor, FinishDone, Loop, DispatchStart,
                    DispatchResume, DispatchDead, LoopSettle, LoopLeave, IdleEnds, Stop, RecvWait,
                    RecvWaitTimeout, Yield, Park, Return, ExitSelf, Crash, Ended, vars, TimerFires

LEMMA OnlyFinish == ASSUME Next, fin # <<>> PROVE Finish \/ UNCHANGED vars
BY DEF Next, Loop, DispatchStart, DispatchResume, DispatchDead, LoopSettle, LoopLeave, IdleEnds,
       LoopRuns, LoopTurn, EngineTurn, Macrotask, Engine, RunStack, UnwindStack, Settle, Import,
       Spawn, SpawnLink, SpawnLinkThrows, SendAny, Send, Receive, SetTrapExit, Exit2, Register,
       MonitorProc, Demonitor, Call, Executing, Stop, RecvWait, RecvWaitTimeout, Yield, Park,
       Return, ExitSelf, Crash, Ended, TimerFires

DeathLasts(s) == fin # <<>> => DeathInv(s)

\* the invariant of Scheduler's state alone, and what it owes to the snapshot
TableInv == TypeOK /\ IInv /\ LinkInv /\ OrphansApart
MCInv == TableInv /\ DeathLasts(pre)

LEMMA TableStep == TableInv /\ [Next]_vars => TableInv'
<1> SUFFICES ASSUME TypeOK, IInv, LinkInv, OrphansApart, [Next]_vars PROVE TableInv'
  BY DEF TableInv
<1> QED
  BY StepType, StepIInv, StepLinkInv, StepOrphans DEF TableInv

\* the parts of the state that the death of a snapshot is about, unchanged
LEMMA StillDeath == ASSUME NEW s, DeathInv(s), UNCHANGED vars PROVE DeathInv(s)'
<1>1. UNCHANGED <<status, links, trapExit, mailbox, monitors, registry, fin>>
  BY DEF vars, procVars, nameVars
<1>2. SnapshotOK(s)' /\ Felled(s)'
  BY <1>1 DEF DeathInv, SnapshotOK, Felled, Fell, Lived
<1>3. Spared(s)' /\ Frames(s)' /\ Dealt(s)'
  BY <1>1 DEF DeathInv, Spared, Frames, Dealt, Fell, Lived, Alive, Exists, Pending
<1>4. Watched(s)' /\ Named(s)'
  BY <1>1 DEF DeathInv, Watched, Named, Fell, Over, Lived
<1>5. Told(s)'
  BY <1>1 DEF DeathInv, Told, Got, Served, Fired, Fell, Lived, Alive, Exists, Pending
<1> QED
  BY <1>2, <1>3, <1>4, <1>5 DEF DeathInv

LEMMA StepDeath ==
  ASSUME TableInv, NEW s, DeathInv(s), fin # <<>>, [Next]_vars PROVE DeathInv(s)'
<1>1. CASE UNCHANGED vars
  BY <1>1, StillDeath
<1>2. CASE Finish
  BY <1>2, FinishKeepsDeath DEF TableInv
<1> QED
  BY <1>1, <1>2, OnlyFinish

LEMMA MCStep == MCInv /\ [MCNext]_mcvars => MCInv'
<1> SUFFICES ASSUME TableInv, DeathLasts(pre), [MCNext]_mcvars PROVE MCInv'
  BY DEF MCInv
<1>1. [Next]_vars
  BY DEF MCNext, mcvars
<1>2. TableInv'
  BY <1>1, TableStep
<1>3. PICK s : s = pre'
  OBVIOUS
<1>4. ASSUME fin' # <<>> PROVE DeathInv(s)'
  <2>1. CASE fin # <<>>
    <3>1. s = pre
      BY <1>3, <1>4, <2>1 DEF MCNext, mcvars
    <3>2. DeathInv(s)
      BY <2>1, <3>1 DEF DeathLasts
    <3> QED
      BY <1>1, <2>1, <3>2, StepDeath
  <2>2. CASE fin = <<>>
    <3>1. MCNext
      BY <1>4, <2>2 DEF mcvars, vars
    <3>2. s = Snapshot(fin'[1])
      BY <1>3, <1>4, <2>2, <3>1 DEF MCNext
    <3>3. PICK p \in Pid, r \in Reasons, b \in BOOLEAN : DeathStarts(p, r, b)
      BY <1>4, <2>2, <3>1, Begins DEF MCNext, TableInv
    <3> QED
      BY <2>2, <3>2, <3>3, StartsDeath DEF TableInv
  <2> QED
    BY <2>1, <2>2
<1>5. DeathLasts(pre)'
  BY <1>3, <1>4 DEF DeathLasts
<1> QED
  BY <1>2, <1>5 DEF MCInv

LEMMA MCStart == MCInit => MCInv
<1> SUFFICES ASSUME Init PROVE TableInv /\ fin = <<>>
  BY DEF MCInit, MCInv, DeathLasts
<1> QED
  BY InitType, InitIInv, InitLinkInv, InitOrphans DEF TableInv, Init

-----------------------------------------------------------------------------
(* What the letters of a mailbox amount to.                                *)

News(now, was) == SubSeq(now, Len(was) + 1, Len(now))

LEMMA LettersNews ==
  ASSUME NEW now \in Seq(Message), NEW was \in Seq(Message), NEW got, Letters(now, was, got)
  PROVE  /\ SubSeq(now, 1, Len(was)) = was
         /\ ToSet(News(now, was)) = got /\ Len(News(now, was)) = Cardinality(got)
<1> DEFINE w == Len(was)
           n == Len(now) - w
           news == SubSeq(now, w + 1, Len(now))
<1>1. /\ w \in Nat /\ Len(now) \in Nat /\ w <= Len(now) /\ n \in Nat
      /\ DOMAIN now = 1 .. Len(now) /\ \A i \in 1 .. Len(now) : now[i] \in Message
      /\ DOMAIN was = 1 .. w
  BY ElementOfSeq DEF Letters
<1>2. SubSeq(now, 1, w) = was
  <2> DEFINE old == SubSeq(now, 1, w)
  <2>1. \A i \in 1 .. w : now[i] \in Message
    BY <1>1
  <2>2. /\ old \in Seq(Message) /\ Len(old) = IF 1 <= w THEN w - 1 + 1 ELSE 0
        /\ \A i \in 1 .. w - 1 + 1 : old[i] = now[1 + i - 1]
    BY <1>1, <2>1, SubSeqProperties
  <2> HIDE DEF old
  <2>3. Len(old) = w /\ \A i \in 1 .. w : old[i] = was[i]
    <3>1. Len(old) = w
      BY <1>1, <2>2
    <3>2. ASSUME NEW i \in 1 .. w PROVE old[i] = was[i]
      <4>1. i \in Int /\ 1 + i - 1 = i /\ w - 1 + 1 = w
        BY <1>1
      <4>2. old[i] = now[i]
        BY <2>2, <4>1
      <4> QED
        BY <4>2 DEF Letters
    <3> QED
      BY <3>1, <3>2
  <2>4. old = was
    BY <2>2, <2>3, SeqEqual
  <2> QED
    BY <2>4 DEF old
<1>3. /\ DOMAIN news = 1 .. n /\ Len(news) = n
      /\ news = [i \in 1 .. n |-> news[i]]
      /\ \A i \in 1 .. n : news[i] = now[w + i]
  <2>1. \A i \in w + 1 .. Len(now) : now[i] \in Message
    BY <1>1
  <2>2. /\ news \in Seq(Message)
        /\ Len(news) = IF w + 1 <= Len(now) THEN Len(now) - (w + 1) + 1 ELSE 0
        /\ \A i \in 1 .. Len(now) - (w + 1) + 1 : news[i] = now[(w + 1) + i - 1]
    BY <1>1, <2>1, SubSeqProperties
  <2> HIDE DEF news
  <2>3. Len(news) = n
    <3>1. CASE w + 1 <= Len(now)
      BY <1>1, <2>2, <3>1
    <3>2. CASE ~(w + 1 <= Len(now))
      <4>1. Len(now) = w
        <5>1. w \in Nat /\ Len(now) \in Nat /\ w <= Len(now)
          BY <1>1
        <5> HIDE DEF w
        <5> QED
          BY <3>2, <5>1
      <4> QED
        BY <1>1, <2>2, <3>2, <4>1
    <3> QED
      BY <3>1, <3>2
  <2>4. DOMAIN news = 1 .. n /\ news = [i \in 1 .. n |-> news[i]]
    BY <2>2, <2>3
  <2>5. ASSUME NEW i \in 1 .. n PROVE news[i] = now[w + i]
    <3>1. i \in 1 .. Len(now) - (w + 1) + 1 /\ (w + 1) + i - 1 = w + i
      BY <1>1
    <3> QED
      BY <2>2, <3>1
  <2> QED
    BY <2>3, <2>4, <2>5
<1>4. /\ \A i \in 1 .. n : news[i] \in got
      /\ \A x \in got : \E i \in 1 .. n : news[i] = x
      /\ \A i, j \in 1 .. n : news[i] = news[j] => i = j
  <2> HIDE DEF news
  <2>1. \A i \in 1 .. n : w + i \in w + 1 .. Len(now)
    BY <1>1
  <2>2. \A k \in w + 1 .. Len(now) : k - w \in 1 .. n /\ w + (k - w) = k
    BY <1>1
  <2>3. ASSUME NEW i \in 1 .. n PROVE news[i] \in got
    BY <1>3, <2>1 DEF Letters
  <2>4. ASSUME NEW x \in got PROVE \E i \in 1 .. n : news[i] = x
    <3>1. PICK k \in w + 1 .. Len(now) : now[k] = x
      BY DEF Letters
    <3>2. news[k - w] = x /\ k - w \in 1 .. n
      BY <1>3, <2>2, <3>1
    <3> QED
      BY <3>2
  <2>5. ASSUME NEW i \in 1 .. n, NEW j \in 1 .. n, news[i] = news[j] PROVE i = j
    <3>1. w + i = w + j
      BY <1>3, <2>1, <2>5 DEF Letters
    <3> QED
      BY <1>1, <3>1
  <2> QED
    BY <2>3, <2>4, <2>5
<1>5. ToSet(news) = got
  <2> HIDE DEF news
  <2> QED
    BY <1>3, <1>4 DEF ToSet
<1>6. Cardinality(got) = n
  <2> HIDE DEF news
  <2>1. news \in [1 .. n -> got]
    BY <1>3, <1>4
  <2>2. news \in Bijection(1 .. n, got)
    BY <1>4, <2>1 DEF Bijection, Injection, Surjection, IsInjective
  <2>3. ExistsBijection(1 .. n, got) /\ n \in Nat
    BY <1>1, <2>2 DEF ExistsBijection
  <2> HIDE DEF n
  <2> QED
    BY <2>3, FS_CountingElements
<1> QED
  BY <1>2, <1>3, <1>5, <1>6 DEF News

-----------------------------------------------------------------------------
(* The end of a death.                                                     *)

LEMMA NonePends == ASSUME fin' = <<>> PROVE \A p, q : ~Pending(p, q)'
BY DEF Pending

LEMMA FallenAreReached ==
  ASSUME NEW s, TypeOK', DeathInv(s)', fin' = <<>> PROVE \A p : Fell(s, p)' <=> p \in Reached(s)
<1> DEFINE S == {p \in Pid : Fell(s, p)'}
<1>1. SnapshotOK(s) /\ Felled(s)' /\ Dealt(s)'
  BY DEF DeathInv, SnapshotOK, Lived
<1>2. s.pid \in S
  BY <1>1 DEF Felled, SnapshotOK
<1>3. ASSUME s.abnormal PROVE SignalClosed(s, S)
  <2> SUFFICES ASSUME NEW p \in S, NEW q \in s.links[p], Lived(s, q), q \notin s.trapExit
               PROVE  q \in S
    BY DEF SignalClosed
  <2>1. p \in Pid /\ q \in Pid /\ Fell(s, p)'
    BY <1>1 DEF SnapshotOK
  <2>2. CASE Alive(q)'
    BY <1>1, <1>3, <2>1, <2>2, NonePends DEF Dealt
  <2>3. CASE ~Alive(q)'
    <3>1. status'[q] # "absent"
      BY <1>1, <2>1 DEF Felled
    <3>2. Fell(s, q)'
      BY <2>1, <2>3, <3>1 DEF Fell, Lived, Alive, Exists
    <3> QED
      BY <2>1, <3>2
  <2> QED
    BY <2>2, <2>3
<1>4. Reached(s) \subseteq S
  <2> HIDE DEF S
  <2>1. S \in SUBSET Pid
    BY DEF S
  <2> QED
    BY <1>2, <1>3, <2>1, ReachedLeast
<1>5. \A p : Fell(s, p)' => p \in Reached(s)
  BY <1>1 DEF Felled, Fell
<1> QED
  BY <1>4, <1>5

LEMMA FallenAreGone ==
  ASSUME NEW s, FinSound', fin' = <<>>, NEW p, Fell(s, p)' PROVE status'[p] = "gone"
BY DEF FinSound, Fell

\* what is left when the last activation has returned
Bereft(s) ==
  /\ \A p \in Pid : status'[p] = "gone" <=> s.status[p] = "gone" \/ p \in Reached(s)
  /\ \A p \in Pid : Alive(p)' => links'[p] \cap Reached(s) = {}
  /\ monitors' = {m \in s.monitors : m.by \notin Reached(s) /\ m.target \notin Reached(s)}
  /\ \A n \in Names : registry'[n] = IF s.registry[n] \in Reached(s) THEN NoPid
                                     ELSE s.registry[n]

LEMMA DeathIsOver ==
  ASSUME NEW s, TypeOK', FinSound', DeathInv(s)', fin' = <<>> PROVE Bereft(s)
<1>1. /\ SnapshotOK(s) /\ Felled(s)' /\ Spared(s)' /\ Dealt(s)' /\ Watched(s)' /\ Named(s)'
  BY DEF DeathInv, SnapshotOK, Lived
<1>2. \A p : Fell(s, p)' <=> p \in Reached(s)
  BY FallenAreReached
<1>3. \A p : p \in Reached(s) => p \in Pid /\ Lived(s, p) /\ status'[p] = "gone"
  BY <1>2, FallenAreGone DEF Fell, Lived
<1>4. ASSUME NEW p \in Pid, Alive(p)' PROVE Lived(s, p)
  BY <1>1, <1>4 DEF Felled, Alive, Exists, Lived
<1>5. ASSUME NEW p \in Pid
      PROVE  status'[p] = "gone" <=> s.status[p] = "gone" \/ p \in Reached(s)
  BY <1>1, <1>2, <1>3 DEF Felled, Fell, Lived
<1>6. ASSUME NEW p \in Pid, Alive(p)', NEW d \in links'[p], d \in Reached(s) PROVE FALSE
  <2>1. d \in s.links[p]
    BY <1>1, <1>6 DEF Spared
  <2>2. d \in Pid /\ Lived(s, d) /\ Lived(s, p) /\ Fell(s, d)'
    BY <1>2, <1>3, <1>4, <1>6
  <2>3. p \in s.links[d]
    BY <1>1, <2>1, <2>2 DEF SnapshotOK
  <2> QED
    BY <1>1, <1>6, <2>2, <2>3, NonePends DEF Dealt
<1>7. monitors' = {m \in s.monitors : m.by \notin Reached(s) /\ m.target \notin Reached(s)}
  <2>1. ASSUME NEW m \in monitors'
        PROVE  m \in s.monitors /\ m.by \notin Reached(s) /\ m.target \notin Reached(s)
    BY <1>1, <1>3 DEF Watched, Over, Lived
  <2>2. ASSUME NEW m \in s.monitors, m.by \notin Reached(s), m.target \notin Reached(s)
        PROVE  m \in monitors'
    BY <1>1, <1>2, <2>2 DEF Watched
  <2> QED
    BY <2>1, <2>2
<1>8. ASSUME NEW n \in Names
      PROVE  registry'[n] = IF s.registry[n] \in Reached(s) THEN NoPid ELSE s.registry[n]
  BY <1>1, <1>2 DEF Named
<1> QED
  BY <1>5, <1>6, <1>7, <1>8 DEF Bereft

\* the messages p is owed, of a snapshot
Due(s, p) ==
  {Exit(d, s.reason) : d \in {d \in Reached(s) : p \in s.links[d] \cap s.trapExit}}
  \cup {Down(m.ref, m.target, s.reason) :
          m \in {m \in s.monitors : m.by = p /\ m.target \in Reached(s)}}

LEMMA SurvivorsAreTold ==
  ASSUME NEW s, TypeOK', FinSound', DeathInv(s)', fin' = <<>>,
         NEW p \in Pid \ Reached(s), Lived(s, p)
  PROVE  /\ Letters(mailbox'[p], s.mailbox[p], Due(s, p))
         /\ s.status[p] = "waiting" /\ Due(s, p) # {} => status'[p] = "runnable"
<1>1. SnapshotOK(s) /\ Felled(s)' /\ Told(s)' /\ Bereft(s)
  BY DeathIsOver DEF DeathInv, SnapshotOK, Lived
<1>2. \A d : Fell(s, d)' <=> d \in Reached(s)
  BY FallenAreReached
<1>3. Alive(p)'
  BY <1>1, <1>2 DEF Felled, Fell, Alive, Exists
<1>4. Got(s, p)' = Due(s, p)
  <2>1. \A d : d \in Pid /\ Served(s, d, p)'
                <=> d \in Reached(s) /\ p \in s.links[d] \cap s.trapExit
    BY <1>2, NonePends DEF Served, Fell
  <2>2. {d \in Pid : Served(s, d, p)'} = {d \in Reached(s) : p \in s.links[d] \cap s.trapExit}
    BY <2>1
  <2>3. Fired(s, p)' = {m \in s.monitors : m.by = p /\ m.target \in Reached(s)}
    <3>1. \A m : m \in Fired(s, p)' <=> m \in s.monitors /\ m \notin monitors' /\ m.by = p
      BY DEF Fired
    <3> QED
      BY <1>1, <3>1 DEF Bereft
  <2>4. Got(s, p)' = {Exit(d, s.reason) : d \in {d \in Pid : Served(s, d, p)'}}
                     \cup {Down(m.ref, m.target, s.reason) : m \in Fired(s, p)'}
    BY DEF Got
  <2> QED
    BY <2>2, <2>3, <2>4 DEF Due
<1>5. /\ Letters(mailbox'[p], s.mailbox[p], Got(s, p)')
      /\ s.status[p] = "waiting" => status'[p] \in {"waiting", "runnable"}
      /\ status'[p] = "waiting" => Got(s, p)' = {}
  BY <1>1, <1>3 DEF Told
<1> QED
  BY <1>4, <1>5

-----------------------------------------------------------------------------
LEMMA DyingReached == Dying = Reached(pre) /\ \A p : WasAlive(p) <=> Lived(pre, p)
BY DEF Dying, Reached, SignalClosed, WasAlive, Lived

\* a step that ends a death, for the snapshot taken when it began
LEMMA DeathStep ==
  ASSUME MCInv, MCNext, DeathEnds
  PROVE  \E s : s = pre /\ TypeOK' /\ FinSound' /\ DeathInv(s)' /\ fin' = <<>>
<1>1. PICK s : s = pre
  OBVIOUS
<1>2. /\ TableInv /\ DeathInv(s) /\ fin # <<>> /\ fin' = <<>> /\ [Next]_vars
  BY <1>1 DEF MCInv, DeathLasts, DeathEnds, MCNext
<1>3. DeathInv(s)' /\ TableInv'
  BY <1>2, StepDeath, TableStep
<1> QED
  BY <1>1, <1>2, <1>3 DEF TableInv, IInv

LEMMA DeathTakes == ASSUME MCInv, MCNext, DeathEnds PROVE TakesTheDying
<1>1. PICK s : s = pre /\ TypeOK' /\ FinSound' /\ DeathInv(s)' /\ fin' = <<>>
  BY DeathStep
<1>2. Bereft(s)
  BY <1>1, DeathIsOver
<1>3. Dying = Reached(s)
  BY <1>1, DyingReached
<1> QED
  BY <1>1, <1>2, <1>3 DEF Bereft, TakesTheDying

LEMMA DeathTells == ASSUME MCInv, MCNext, DeathEnds PROVE TellsTheOthers
<1>1. PICK s : s = pre /\ TypeOK' /\ FinSound' /\ DeathInv(s)' /\ fin' = <<>>
  BY DeathStep
<1>2. Dying = Reached(s)
  BY <1>1, DyingReached
<1> SUFFICES ASSUME NEW p \in Pid, p \notin Reached(s), WasAlive(p)
             PROVE  /\ SubSeq(mailbox'[p], 1, Len(s.mailbox[p])) = s.mailbox[p]
                    /\ ToSet(News(mailbox'[p], s.mailbox[p])) = Owed(p)
                    /\ Len(News(mailbox'[p], s.mailbox[p])) = Cardinality(Owed(p))
                    /\ s.status[p] = "waiting" /\ Owed(p) # {} => status'[p] = "runnable"
  BY <1>1, <1>2 DEF TellsTheOthers, News
<1>3. Lived(s, p)
  BY <1>1, DyingReached
<1>4. Owed(p) = Due(s, p)
  BY <1>1, <1>2 DEF Owed, Due
<1>5. /\ Letters(mailbox'[p], s.mailbox[p], Due(s, p))
      /\ s.status[p] = "waiting" /\ Due(s, p) # {} => status'[p] = "runnable"
  BY <1>1, <1>3, SurvivorsAreTold
<1>6. mailbox'[p] \in Seq(Message) /\ s.mailbox[p] \in Seq(Message)
  <2>1. SnapshotOK(s)
    BY <1>1 DEF DeathInv, SnapshotOK, Lived
  <2> QED
    BY <1>1, <2>1 DEF TypeOK, SnapshotOK
<1>7. /\ SubSeq(mailbox'[p], 1, Len(s.mailbox[p])) = s.mailbox[p]
      /\ ToSet(News(mailbox'[p], s.mailbox[p])) = Due(s, p)
      /\ Len(News(mailbox'[p], s.mailbox[p])) = Cardinality(Due(s, p))
  BY <1>5, <1>6, LettersNews
<1> QED
  BY <1>4, <1>5, <1>7

\* A whole death, from the first finish() to the return of the outermost one
\* (scheduler.mjs:139-187): whatever the links, the order in which the recursion walks
\* them and the processes that trap exits, exactly the processes its exit signal reaches
\* are gone, and no link, monitor or name of a survivor still leads to one of them.
THEOREM DeathsReach == MCSpec => DeathReaches
<1>1. MCInit => MCInv
  BY MCStart
<1>2. MCInv /\ [MCNext]_mcvars => MCInv'
  BY MCStep
<1>3. MCInv /\ [MCNext]_mcvars => [DeathEnds => TakesTheDying]_mcvars
  BY DeathTakes
<1> QED
  BY <1>1, <1>2, <1>3, PTL DEF MCSpec, DeathReaches

\* Each survivor finds after what its mailbox held every {:EXIT, ...} and {:DOWN, ...}
\* that death owes it, once and nothing else, and is runnable if it waited: the
\* activations of finish() (scheduler.mjs:139-187) drop no message and send none twice.
THEOREM DeathsAreTold == MCSpec => DeathIsTold
<1>1. MCInit => MCInv
  BY MCStart
<1>2. MCInv /\ [MCNext]_mcvars => MCInv'
  BY MCStep
<1>3. MCInv /\ [MCNext]_mcvars => [DeathEnds => TellsTheOthers]_mcvars
  BY DeathTells
<1> QED
  BY <1>1, <1>2, <1>3, PTL DEF MCSpec, DeathIsTold
=============================================================================
