----------------------------- MODULE Scheduler -----------------------------
(***************************************************************************)
(* The process scheduler of runtime/scheduler.mjs: Elixir processes as JSPI *)
(* stacks under one FIFO run queue, with links, exit signals, monitors,     *)
(* a name registry and `receive ... after N' timers.                        *)
(*                                                                         *)
(* Everything runs on one JavaScript thread.  At any moment either a stack  *)
(* is executing (`slice'), or finish() is running (`fin'), or the engine    *)
(* takes the next microtask (`micro'), or the event loop waits in a         *)
(* macrotask (`loop' = "idle").  A stack runs without interruption from its *)
(* dispatch to its next park, yield, return or throw; the order of the      *)
(* microtasks that follow is the engine's and is kept exactly.              *)
(***************************************************************************)
EXTENDS Integers, Sequences, FiniteSets

CONSTANTS
  MaxPid,     \* bound: pids are 1 .. MaxPid, never reused by the code
  MaxRef,     \* bound: monitor references are 1 .. MaxRef
  MaxMail,    \* bound: a program sends only to a mailbox shorter than this
  Budget,     \* reductions of a dispatch; one per import call here
  Names,      \* registered names
  Reasons,    \* exit reasons
  Imports     \* bound: the proc imports the compiled program calls

Normal == "normal"
NoReason == "null"
NoPid == 0
Main == 1
Pid == 1 .. MaxPid
Ref == 1 .. MaxRef

ASSUME SchedulerAssumption ==
  /\ MaxPid \in Nat \ {0}
  /\ MaxRef \in Nat
  /\ MaxMail \in Nat
  /\ Budget \in Nat \ {0}
  /\ Normal \in Reasons /\ NoReason \notin Reasons

VARIABLES
  status,        \* p.status; "absent": no record yet, "gone": record deleted
  mailbox,       \* p.mailbox
  links,         \* p.links
  trapExit,      \* the processes with p.trapExit set
  exitReason,    \* p.exitReason, set with p.abnormal by exit/1
  timer,         \* the processes with p.timer armed
  pendingTimers, \* the counter the main loop reads
  timedOut,      \* the processes with p.timedOut set
  parked,        \* what p.resolve/p.reject hold: the wait of a parked stack
  registry,      \* name -> pid
  monitors,      \* {by, target, ref}
  nextPid, nextRef,
  runq,          \* <<pid, "start" | "resume">>
  current,       \* the pid P() looks up
  slice,         \* the process whose stack executes, or NoPid
  reds,          \* reductions left to it
  micro,         \* the engine's microtask queue
  loop,          \* main(): "turn", "idle", "done" or "deadlock"
  mainDone,
  fin            \* the activations of finish(), innermost first

procVars  == <<status, mailbox, links, trapExit, exitReason>>
parkVars  == <<timer, pendingTimers, timedOut, parked>>
nameVars  == <<registry, monitors, nextPid, nextRef>>
loopVars  == <<runq, current, slice, reds, micro, loop, mainDone>>
vars == <<procVars, parkVars, nameVars, loopVars, fin>>

-----------------------------------------------------------------------------
Exists(p) == p \in Pid /\ status[p] \notin {"absent", "gone"}

\* procs.get(p) with the test of p.dead
Alive(p) == Exists(p) /\ status[p] # "done"

Job == Pid \X {"start", "resume"}
Enqueued(p) == \E i \in DOMAIN runq : runq[i][1] = p

Message == [kind : {"data", "EXIT", "DOWN"}, from : Pid, ref : Ref \cup {0},
            reason : Reasons \cup {NoReason}]
Data(from) == [kind |-> "data", from |-> from, ref |-> 0, reason |-> NoReason]
Exit(from, reason) == [kind |-> "EXIT", from |-> from, ref |-> 0, reason |-> reason]
Down(ref, from, reason) ==
  [kind |-> "DOWN", from |-> from, ref |-> ref, reason |-> reason]

Monitor == [by : Pid, target : Pid, ref : Ref]

(* Microtasks: the continuation of main(), a resumed stack, a rejected one, *)
(* and the two handlers of run.then().                                      *)
LoopTask == <<"loop", NoPid>>
Task == {LoopTask} \cup ({"run", "unwind", "return", "throw"} \X Pid)
LoopQueued == \E i \in DOMAIN micro : micro[i] = LoopTask

Init ==
  /\ status = [p \in Pid |-> IF p = Main THEN "running" ELSE "absent"]
  /\ mailbox = [p \in Pid |-> <<>>]
  /\ links = [p \in Pid |-> {}]
  /\ trapExit = {} /\ exitReason = [p \in Pid |-> NoReason]
  /\ timer = {} /\ pendingTimers = 0 /\ timedOut = {}
  /\ parked = [p \in Pid |-> "none"]
  /\ registry = [n \in Names |-> NoPid]
  /\ monitors = {} /\ nextPid = 2 /\ nextRef = 1
  /\ runq = <<>> /\ micro = <<>>
  /\ current = Main /\ slice = Main /\ reds = Budget
  /\ loop = "turn" /\ mainDone = FALSE
  /\ fin = <<>>

-----------------------------------------------------------------------------
(* Waking, timers and the start of finish().                               *)

ClearTimer(p) ==
  /\ timer' = timer \ {p}
  /\ pendingTimers' = IF p \in timer THEN pendingTimers - 1 ELSE pendingTimers

EnqueueFirst(p, kind) == runq' = <<<<p, kind>>>> \o runq   \* mutant: not FIFO
Enqueue(p, kind) == runq' = Append(runq, <<p, kind>>)

\* mutants: wake() without its test of p.status; wake() that leaves the timer armed
WakeAny(p) ==
  /\ status' = [status EXCEPT ![p] = "runnable"]
  /\ ClearTimer(p)
  /\ Enqueue(p, "resume")
WakeKeepsTimer(p) ==
  /\ IF status[p] = "waiting"
     THEN status' = [status EXCEPT ![p] = "runnable"] /\ Enqueue(p, "resume")
     ELSE UNCHANGED <<status, runq>>
  /\ UNCHANGED <<timer, pendingTimers>>
Wake(p) ==
  IF status[p] = "waiting"
  THEN /\ status' = [status EXCEPT ![p] = "runnable"]
       /\ ClearTimer(p)
       /\ Enqueue(p, "resume")
  ELSE UNCHANGED <<status, timer, pendingTimers, runq>>

\* mailbox.push followed by wake; the mutant only pushes
PostOnly(p, msg) ==
  /\ mailbox' = [mailbox EXCEPT ![p] = Append(@, msg)]
  /\ UNCHANGED <<status, timer, pendingTimers, runq>>
Post(p, msg) ==
  /\ mailbox' = [mailbox EXCEPT ![p] = Append(@, msg)]
  /\ Wake(p)

\* reject the promise a parked stack waits on: its unwinding is a microtask
Unwound(p, tasks) ==
  IF parked[p] # "none" THEN Append(tasks, <<"unwind", p>>) ELSE tasks

\* finish(p, _) up to its loop over the links; the mutant abandons the parked stack
BeginFinishParked(p) ==
  /\ status' = [status EXCEPT ![p] = "done"]
  /\ ClearTimer(p)
  /\ registry' = [n \in Names |-> IF registry[n] = p THEN NoPid ELSE registry[n]]
  /\ UNCHANGED parked
BeginFinish(p) ==
  /\ status' = [status EXCEPT ![p] = "done"]
  /\ ClearTimer(p)
  /\ parked' = [parked EXCEPT ![p] = "none"]
  /\ registry' = [n \in Names |-> IF registry[n] = p THEN NoPid ELSE registry[n]]

Frame(p, reason, abnormal, todo) ==
  [pid |-> p, reason |-> reason, abnormal |-> abnormal, todo |-> todo]

-----------------------------------------------------------------------------
(* finish(): the links, then the monitors, then the record.  A `Set' and   *)
(* the recursion through it are walked one element at a time; nothing else  *)
(* runs until the outermost activation returns.                             *)

Top == fin[1]

\* L.links.delete(pid); the mutant keeps the link
LinkKept(q, p) == links
Unlinked(q, p) == [links EXCEPT ![q] = @ \ {p}]

\* an exit signal kills q; the mutant also lets a normal exit kill it
KillsAnyway(q) == q \notin trapExit
Kills(q) == q \notin trapExit /\ Top.abnormal

\* a linked process is already dead, traps, is killed too, or just loses the link
FinishLink ==
  /\ fin # <<>>
  /\ \E q \in Top.todo :
       LET rest == <<[Top EXCEPT !.todo = @ \ {q}]>> \o Tail(fin)
       IN \/ /\ ~Alive(q)
             /\ fin' = rest
             /\ UNCHANGED <<status, mailbox, links, timer, pendingTimers, parked,
                            runq, micro, registry>>
          \/ /\ Alive(q)
             /\ links' = Unlinked(q, Top.pid)
             /\ \/ /\ q \in trapExit
                   /\ Post(q, Exit(Top.pid, Top.reason))
                   /\ fin' = rest
                   /\ UNCHANGED <<parked, micro, registry>>
                \/ /\ Kills(q)
                   /\ BeginFinish(q)
                   /\ micro' = Unwound(q, micro)
                   /\ fin' = <<Frame(q, Top.reason, TRUE, links[q] \ {Top.pid})>> \o rest
                   /\ UNCHANGED <<mailbox, runq>>
                \/ /\ q \notin trapExit /\ ~Top.abnormal
                   /\ fin' = rest
                   /\ UNCHANGED <<status, mailbox, timer, pendingTimers, parked,
                                  runq, micro, registry>>
  /\ UNCHANGED <<trapExit, exitReason, timedOut, monitors, nextPid, nextRef,
                 current, slice, reds, loop, mainDone>>

\* the monitors list is walked from its end: the latest reference first
FinishMonitor ==
  /\ fin # <<>> /\ Top.todo = {}
  /\ \E m \in monitors :
       /\ m.target = Top.pid
       /\ \A o \in monitors : o.target = Top.pid => o.ref <= m.ref
       /\ monitors' = monitors \ {m}
       /\ IF Alive(m.by) THEN Post(m.by, Down(m.ref, Top.pid, Top.reason))
                         ELSE UNCHANGED <<mailbox, status, timer, pendingTimers, runq>>
  /\ UNCHANGED <<links, trapExit, exitReason, timedOut, parked, registry,
                 nextPid, nextRef, current, slice, reds, micro, loop, mainDone, fin>>

FinishDone ==
  /\ fin # <<>> /\ Top.todo = {}
  /\ \A m \in monitors : m.target # Top.pid
  /\ LET p == Top.pid IN
       /\ monitors' = {m \in monitors : m.by # p}
       /\ status' = [status EXCEPT ![p] = "gone"]
       /\ mailbox' = [mailbox EXCEPT ![p] = <<>>]
       /\ links' = [links EXCEPT ![p] = {}]
       /\ trapExit' = trapExit \ {p}
       /\ exitReason' = [exitReason EXCEPT ![p] = NoReason]
       /\ timedOut' = timedOut \ {p}
  /\ fin' = Tail(fin)
  /\ UNCHANGED <<timer, pendingTimers, parked, registry, nextPid, nextRef,
                 runq, current, slice, reds, micro, loop, mainDone>>
-----------------------------------------------------------------------------
(* The event loop: what runs when no stack and no finish() does.           *)

EngineTurn(task) ==
  /\ slice = NoPid /\ fin = <<>> /\ loop # "deadlock"
  /\ micro # <<>> /\ Head(micro) = task

\* the top of main()'s while loop; the mutant does not test mainDone
LoopTurn == EngineTurn(LoopTask) /\ loop = "turn"
LoopAlways == LoopTurn
LoopRuns == LoopTurn /\ ~mainDone

NoneRunning == FALSE   \* mutant of AnyRunning
AnyRunning == \E p \in Pid : status[p] = "running"

\* current = p; p.status = "running"; fresh()
Dispatch(p) ==
  /\ status' = [status EXCEPT ![p] = "running"]
  /\ current' = p
  /\ reds' = Budget
  /\ runq' = Tail(runq)

\* startChild: the stack runs at once, main() continues when it stops
DispatchStart ==
  /\ LoopRuns
  /\ runq # <<>> /\ Head(runq)[2] = "start"
  /\ LET p == Head(runq)[1] IN Alive(p) /\ Dispatch(p) /\ slice' = p
  /\ micro' = Tail(micro)
  /\ UNCHANGED <<mailbox, links, trapExit, exitReason, parkVars, nameVars, loop,
                 mainDone, fin>>

\* r() queues the stack's reaction, then main() awaits a tick; the mutant lets main()
\* go on before the stack has run
ResumeLater(p, tasks) == tasks \o <<LoopTask, <<"run", p>>>>
Resume(p, tasks) ==
  IF parked[p] # "none" THEN tasks \o <<<<"run", p>>, LoopTask>>
                        ELSE Append(tasks, LoopTask)

\* resume: the stack's promise is resolved, it runs in a microtask of its own
DispatchResume ==
  /\ LoopRuns
  /\ runq # <<>> /\ Head(runq)[2] = "resume"
  /\ LET p == Head(runq)[1] IN
       /\ Alive(p) /\ Dispatch(p)
       /\ parked' = [parked EXCEPT ![p] = "none"]
       /\ micro' = Resume(p, Tail(micro))
  /\ UNCHANGED <<mailbox, links, trapExit, exitReason, timer, pendingTimers, timedOut,
                 nameVars, slice, loop, mainDone, fin>>

\* killed while queued
DispatchDead ==
  /\ LoopRuns
  /\ runq # <<>> /\ ~Alive(Head(runq)[1])
  /\ runq' = Tail(runq)
  /\ micro' = Append(Tail(micro), LoopTask)
  /\ UNCHANGED <<procVars, parkVars, nameVars, current, slice, reds, loop, mainDone, fin>>

\* a dispatched stack is still settling on microtasks
LoopSettle ==
  /\ LoopRuns /\ runq = <<>> /\ AnyRunning
  /\ micro' = Append(Tail(micro), LoopTask)
  /\ UNCHANGED <<procVars, parkVars, nameVars, runq, current, slice, reds, loop,
                 mainDone, fin>>

\* the loop waits in a macrotask, ends, or gives up
LoopLeave ==
  /\ \/ LoopTurn /\ mainDone /\ loop' = "done"
     \/ /\ LoopRuns /\ runq = <<>> /\ ~AnyRunning
        /\ loop' = IF pendingTimers > 0 THEN "idle" ELSE "deadlock"
  /\ micro' = Tail(micro)
  /\ UNCHANGED <<procVars, parkVars, nameVars, runq, current, slice, reds, mainDone, fin>>

\* macrotasks run when no microtask is left
Macrotask == slice = NoPid /\ fin = <<>> /\ micro = <<>> /\ loop = "idle"

\* the callback of setTimeout in recv_wait_timeout
TimerFires(p) ==
  /\ Macrotask /\ p \in timer /\ status[p] = "waiting"
  /\ status' = [status EXCEPT ![p] = "ready"]
  /\ timedOut' = timedOut \cup {p}
  /\ ClearTimer(p)
  /\ Enqueue(p, "resume")
  /\ UNCHANGED <<mailbox, links, trapExit, exitReason, parked, nameVars, current,
                 slice, reds, micro, loop, mainDone, fin>>

IdleEnds ==
  /\ Macrotask
  /\ loop' = "turn" /\ micro' = <<LoopTask>>
  /\ UNCHANGED <<procVars, parkVars, nameVars, runq, current, slice, reds, mainDone, fin>>

RunStack(p) ==
  /\ EngineTurn(<<"run", p>>)
  /\ slice' = p /\ micro' = Tail(micro)
  /\ UNCHANGED <<procVars, parkVars, nameVars, runq, current, reds, loop, mainDone, fin>>

\* ProcKill reaches the stack's bottom: run.then's second handler is queued
UnwindStack(p) ==
  /\ EngineTurn(<<"unwind", p>>)
  /\ micro' = Append(Tail(micro), <<"throw", p>>)
  /\ UNCHANGED <<procVars, parkVars, nameVars, runq, current, slice, reds, loop,
                 mainDone, fin>>

\* p.exitReason ?? :normal; the mutant forgets the default
RawReason(p) == exitReason[p]
ReasonRef(p) == IF exitReason[p] = NoReason THEN Normal ELSE exitReason[p]

\* run.then(() => finish(p, true), () => finish(p, false)); main's sets mainDone
Settle(p, outcome) ==
  /\ EngineTurn(<<outcome, p>>)
  /\ \/ /\ p = Main
        /\ mainDone' = TRUE
        /\ micro' = Tail(micro)
        /\ UNCHANGED <<status, parkVars, registry, fin>>
     \/ /\ p # Main /\ Alive(p)
        /\ BeginFinish(p)
        /\ micro' = Unwound(p, Tail(micro))
        /\ fin' = <<Frame(p, ReasonRef(p), outcome = "throw", links[p])>>
        /\ UNCHANGED <<timedOut, mainDone>>
     \/ /\ p # Main /\ ~Alive(p)
        /\ micro' = Tail(micro)
        /\ UNCHANGED <<status, parkVars, registry, fin, mainDone>>
  /\ UNCHANGED <<mailbox, links, trapExit, exitReason, monitors, nextPid, nextRef,
                 runq, current, slice, reds, loop>>
-----------------------------------------------------------------------------
(* The proc imports.  A slice makes at most Budget of them: the compiled     *)
(* code counts a reduction at every function entry and must yield at zero.   *)
(* `current' may be a process whose record finish() has deleted: then P() is  *)
(* undefined, and every import that uses it throws (Crash).                   *)

Executing == slice # NoPid /\ fin = <<>>

Call(import) ==
  /\ Executing /\ import \in Imports
  /\ reds > 0 /\ reds' = reds - 1

\* the stack stops; `settled' is the microtask its run promise queues, if any.
\* startChild runs inside main(), which awaits a tick when the stack stops; the
\* first slice of the main process stops inside main() before the loop's first turn.
\* The mutant has no handler for a run promise that rejects.
StackStopsUnheard(settled) ==
  /\ slice' = NoPid /\ reds' = 0
  /\ LET heard == SelectSeq(settled, LAMBDA t : t[1] = "return") IN
       micro' = IF LoopQueued THEN micro \o heard
                ELSE IF slice = Main THEN micro \o <<LoopTask>> \o heard
                ELSE micro \o heard \o <<LoopTask>>
StackStops(settled) ==
  /\ slice' = NoPid /\ reds' = 0
  /\ micro' = IF LoopQueued THEN micro \o settled
              ELSE IF slice = Main THEN micro \o <<LoopTask>> \o settled
              ELSE micro \o settled \o <<LoopTask>>

NewProc(p) == status' = [status EXCEPT ![p] = "new"] /\ nextPid' = nextPid + 1

Spawn ==
  /\ Call("spawn") /\ nextPid <= MaxPid
  /\ NewProc(nextPid)
  /\ Enqueue(nextPid, "start")
  /\ UNCHANGED <<mailbox, links, trapExit, exitReason, parkVars, registry, monitors,
                 nextRef, current, slice, micro, loop, mainDone, fin>>

SpawnLink ==
  /\ Call("spawn_link") /\ Alive(current) /\ nextPid <= MaxPid
  /\ NewProc(nextPid)
  /\ links' = [links EXCEPT ![nextPid] = {current}, ![current] = @ \cup {nextPid}]
  /\ Enqueue(nextPid, "start")
  /\ UNCHANGED <<mailbox, trapExit, exitReason, parkVars, registry, monitors,
                 nextRef, current, slice, micro, loop, mainDone, fin>>

\* procs.set and links.add(current) come before P(), which throws when the caller's
\* record is deleted: the child is left behind, linked to it and never enqueued
SpawnLinkThrows ==
  /\ Executing /\ "spawn_link" \in Imports /\ ~Alive(current)
  /\ reds > 0 /\ nextPid <= MaxPid
  /\ NewProc(nextPid)
  /\ links' = [links EXCEPT ![nextPid] = {current}]
  /\ StackStops(<<<<"throw", slice>>>>)
  /\ UNCHANGED <<mailbox, trapExit, exitReason, parkVars, registry, monitors,
                 nextRef, runq, current, loop, mainDone, fin>>

\* resolve_dest: a pid, a registered name, or a monitor reference used as alias
AliasPid(ref) ==
  IF \E m \in monitors : m.ref = ref
  THEN (CHOOSE m \in monitors : m.ref = ref).by ELSE NoPid

Send(dest) ==
  /\ Call("send")
  /\ IF Alive(dest)
     THEN Len(mailbox[dest]) < MaxMail /\ Post(dest, Data(current))
     ELSE UNCHANGED <<mailbox, status, timer, pendingTimers, runq>>
  /\ UNCHANGED <<links, trapExit, exitReason, timedOut, parked, nameVars, current,
                 slice, micro, loop, mainDone, fin>>

SendAny ==
  \/ \E p \in Pid : p < nextPid /\ Send(p)
  \/ \E n \in Names : Send(registry[n])
  \/ \E m \in monitors : Send(AliasPid(m.ref))

\* recv_cur and recv_remove of a selective receive: any message of the mailbox
Receive(i) ==
  /\ Call("recv") /\ Alive(current)
  /\ mailbox' = [mailbox EXCEPT ![current] =
                   [k \in 1 .. Len(@) - 1 |-> @[IF k < i THEN k ELSE k + 1]]]
  /\ UNCHANGED <<status, links, trapExit, exitReason, parkVars, nameVars, runq,
                 current, slice, micro, loop, mainDone, fin>>

SetTrapExit(v) ==
  /\ Call("set_trap_exit") /\ Alive(current)
  /\ trapExit' = IF v THEN trapExit \cup {current} ELSE trapExit \ {current}
  /\ UNCHANGED <<status, mailbox, links, exitReason, parkVars, nameVars, runq,
                 current, slice, micro, loop, mainDone, fin>>

\* signal_exit; a program signals any process it knows, itself included
Exit2(p, reason) ==
  /\ Call("exit2") /\ p < nextPid
  /\ \/ /\ ~Alive(p) \/ (p \notin trapExit /\ reason = Normal)
        /\ UNCHANGED <<status, mailbox, exitReason, timer, pendingTimers, parked,
                       registry, runq, micro, fin>>
     \/ /\ Alive(p) /\ p \in trapExit
        /\ Len(mailbox[p]) < MaxMail
        /\ Post(p, Exit(current, reason))
        /\ UNCHANGED <<exitReason, parked, registry, micro, fin>>
     \/ /\ Alive(p) /\ p \notin trapExit /\ reason # Normal
        /\ exitReason' = [exitReason EXCEPT ![p] = reason]
        /\ BeginFinish(p)
        /\ micro' = Unwound(p, micro)
        /\ fin' = <<Frame(p, reason, TRUE, links[p])>>
        /\ UNCHANGED <<mailbox, runq>>
  /\ UNCHANGED <<links, trapExit, timedOut, monitors, nextPid, nextRef, current,
                 slice, loop, mainDone>>

Register(n, p) ==
  /\ Call("register") /\ p < nextPid
  /\ registry' = [registry EXCEPT ![n] = p]
  /\ UNCHANGED <<procVars, parkVars, monitors, nextPid, nextRef, runq, current,
                 slice, micro, loop, mainDone, fin>>

MonitorProc(p) ==
  /\ Call("monitor") /\ p < nextPid /\ nextRef <= MaxRef
  /\ monitors' = monitors \cup {[by |-> current, target |-> p, ref |-> nextRef]}
  /\ nextRef' = nextRef + 1
  /\ UNCHANGED <<procVars, parkVars, registry, nextPid, runq, current, slice,
                 micro, loop, mainDone, fin>>

Demonitor(ref) ==
  /\ Call("demonitor")
  /\ monitors' = {m \in monitors : m.ref # ref}
  /\ UNCHANGED <<procVars, parkVars, registry, nextPid, nextRef, runq, current, slice,
                 micro, loop, mainDone, fin>>

\* recv_wait, recv_wait_timeout and sched.yield suspend the stack
Park(kind, as) ==
  /\ Executing /\ Alive(current)
  /\ status' = [status EXCEPT ![current] = as]
  /\ parked' = [parked EXCEPT ![current] = kind]
  /\ StackStops(<<>>)
  /\ UNCHANGED <<mailbox, links, trapExit, exitReason, nameVars, current, loop,
                 mainDone, fin>>

RecvWait ==
  /\ Park("wait", "waiting")
  /\ UNCHANGED <<timer, pendingTimers, timedOut, runq>>

\* the mutant does not reset p.timedOut
RecvWaitTimeoutStale ==
  /\ "recv_wait_timeout" \in Imports
  /\ Park("timed", "waiting")
  /\ timer' = timer \cup {current} /\ pendingTimers' = pendingTimers + 1
  /\ UNCHANGED <<timedOut, runq>>

RecvWaitTimeout ==
  /\ "recv_wait_timeout" \in Imports
  /\ Park("timed", "waiting")
  /\ timedOut' = timedOut \ {current}
  /\ timer' = timer \cup {current} /\ pendingTimers' = pendingTimers + 1
  /\ UNCHANGED runq

Yield ==
  /\ Park("yield", "ready")
  /\ Enqueue(current, "resume")
  /\ UNCHANGED <<timer, pendingTimers, timedOut>>

\* the process function returns
Return ==
  /\ Executing
  /\ StackStops(<<<<"return", slice>>>>)
  /\ UNCHANGED <<procVars, parkVars, nameVars, runq, current, loop, mainDone, fin>>

\* exit/1
ExitSelf(reason) ==
  /\ Executing /\ Alive(current)
  /\ exitReason' = [exitReason EXCEPT ![current] = reason]
  /\ StackStops(<<<<"throw", slice>>>>)
  /\ UNCHANGED <<status, mailbox, links, trapExit, parkVars, nameVars, runq, current,
                 loop, mainDone, fin>>

\* an exception nobody rescues: raised by the program, or P() undefined
Crash ==
  /\ Executing
  /\ StackStops(<<<<"throw", slice>>>>)
  /\ UNCHANGED <<procVars, parkVars, nameVars, runq, current, loop, mainDone, fin>>

-----------------------------------------------------------------------------
Finish == FinishLink \/ FinishMonitor \/ FinishDone

Loop == DispatchStart \/ DispatchResume \/ DispatchDead \/ LoopSettle \/ LoopLeave
        \/ IdleEnds

Engine == \E p \in Pid : \/ RunStack(p)
                         \/ UnwindStack(p)
                         \/ Settle(p, "return")
                         \/ Settle(p, "throw")

Import ==
  \/ Spawn \/ SpawnLink \/ SpawnLinkThrows \/ SendAny
  \/ \E i \in DOMAIN mailbox[current] : Receive(i)
  \/ \E v \in BOOLEAN : SetTrapExit(v)
  \/ \E p \in Pid, r \in Reasons : Exit2(p, r)
  \/ \E n \in Names, p \in Pid : Register(n, p)
  \/ \E p \in Pid : MonitorProc(p)
  \/ \E ref \in Ref : Demonitor(ref)

Stop == RecvWait \/ RecvWaitTimeout \/ Yield \/ Return \/ Crash
        \/ \E r \in Reasons : ExitSelf(r)

\* main() has returned, or process.exit(2) has followed the DEADLOCK message
Ended ==
  /\ loop = "deadlock" \/ (loop = "done" /\ micro = <<>> /\ slice = NoPid /\ fin = <<>>)
  /\ UNCHANGED vars

Next ==
  \/ Finish \/ Loop \/ Engine \/ Import \/ Stop \/ Ended
  \/ \E p \in Pid : TimerFires(p)

Spec == Init /\ [][Next]_vars

(* The event loop always takes its next step, and a slice is bounded by its  *)
(* budget.  A timer whose delay is over fires in one of the macrotask phases *)
(* the loop goes through, if it goes through them again and again.           *)
Fairness ==
  /\ WF_vars(Next)
  /\ \A p \in Pid : SF_vars(TimerFires(p))

FairSpec == Spec /\ Fairness

-----------------------------------------------------------------------------
(* Properties.                                                             *)

Activation == [pid : Pid, reason : Reasons, abnormal : BOOLEAN, todo : SUBSET Pid]

\* The shape of the scheduler's state.
TypeOK ==
  /\ status \in [Pid -> {"absent", "new", "running", "waiting", "ready", "runnable",
                         "done", "gone"}]
  /\ mailbox \in [Pid -> Seq(Message)]
  /\ links \in [Pid -> SUBSET Pid]
  /\ trapExit \in SUBSET Pid
  /\ exitReason \in [Pid -> Reasons \cup {NoReason}]
  /\ timer \in SUBSET Pid /\ pendingTimers \in Int /\ timedOut \in SUBSET Pid
  /\ parked \in [Pid -> {"none", "wait", "timed", "yield"}]
  /\ registry \in [Names -> Pid \cup {NoPid}]
  /\ monitors \in SUBSET Monitor
  /\ nextPid \in 2 .. MaxPid + 1 /\ nextRef \in 1 .. MaxRef + 1
  /\ runq \in Seq(Job)
  /\ current \in Pid /\ slice \in Pid \cup {NoPid} /\ reds \in 0 .. Budget
  /\ micro \in Seq(Task)
  /\ loop \in {"turn", "idle", "done", "deadlock"} /\ mainDone \in BOOLEAN
  /\ fin \in Seq(Activation)

\* a child whose spawn_link threw after its record was made: its parent was dead
Orphan(p) == status[p] = "new" /\ \E q \in links[p] : status[q] = "gone"

\* The run queue and the process table agree: a live process is queued exactly
\* when it is new, preempted or woken, once, and as what it is; a second entry
\* would resolve a promise that is gone and leave the process "running" for good.
RunQueueSound ==
  /\ \A i, j \in DOMAIN runq : runq[i][1] = runq[j][1] => i = j
  /\ \A i \in DOMAIN runq : Alive(runq[i][1]) =>
       IF runq[i][2] = "start" THEN status[runq[i][1]] = "new"
                               ELSE status[runq[i][1]] \in {"ready", "runnable"}
  /\ \A p \in Pid : status[p] \in {"new", "ready", "runnable"} =>
       Enqueued(p) \/ Orphan(p)

\* A live process marked "running" executes, is about to, or is about to be
\* finished: otherwise anyRunning() would keep main() spinning on microtasks.
RunningSettles ==
  \A p \in Pid : status[p] = "running" =>
    \/ slice = p
    \/ \E i \in DOMAIN micro : micro[i] \in {"run", "return", "throw"} \X {p}
    \/ p = Main /\ mainDone

\* "the host's `current' pid is always correct": P() names the executing stack.
CurrentIsExecuting == slice # NoPid => current = slice

\* Every parked stack belongs to a live process that waits or is queued: a dead
\* process's stack has been rejected, never abandoned (engine-rooted, it leaks).
NoAbandonedStack ==
  \A p \in Pid : parked[p] # "none" <=> status[p] \in {"waiting", "ready", "runnable"}

\* recv_wait_timeout answers 0 exactly when its timer, and no message, woke it.
TimeoutXorMessage ==
  \A p \in Pid : parked[p] = "timed" =>
    /\ status[p] = "runnable" => p \notin timedOut
    /\ status[p] = "ready" => p \in timedOut

\* pendingTimers counts the armed timers, and only timed waits have one: a count
\* too high keeps a dead loop alive, a count too low ends it under a timer.
TimersBalanced ==
  /\ pendingTimers = Cardinality(timer)
  /\ \A p \in Pid : p \in timer <=> status[p] = "waiting" /\ parked[p] = "timed"

\* Between calls of finish(), links are mutual and lead to live processes.
LinksMutual ==
  fin = <<>> =>
    \A p, q \in Pid : q \in links[p] => Orphan(p) \/ (Alive(q) /\ p \in links[q])

\* The DEADLOCK exit is taken only when no process could run again.
DeadlockIsReal ==
  loop = "deadlock" =>
    /\ timer = {}
    /\ \A p \in Pid : Alive(p) => status[p] = "waiting" \/ Orphan(p)

-----------------------------------------------------------------------------
(* What the sources say of the scheduler and the code does not do: TLC finds *)
(* each violated, with SchedulerZombie.cfg, SchedulerNormalExit.cfg,        *)
(* SchedulerDeadMonitor.cfg, and TimedWaitEnds with SchedulerTimerStarved.cfg. *)

\* scheduler.mjs:195, "killed while queued -> skip the dispatch": a killed process
\* executes nothing more.  exit2 and the link cascade reach a process that executes,
\* or that was dispatched and has not run yet, and neither is unwound.
KilledNeverExecutes == Executing => Alive(slice)

\* scheduler.mjs:149, "killed too if the exit was abnormal": a process killed through
\* a link dies of a reason other than :normal.  exit(:normal) sets p.abnormal, and a
\* crash leaves p.exitReason null, which finish() reports as :normal.
LinkKillIsAbnormal == \A i \in DOMAIN fin : i < Len(fin) => fin[i].reason # Normal

\* runtime/README.md:47, "when the target dies, the monitoring process gets {:DOWN,
\* ...}": no monitor outlives its target.  monitor() of a dead pid is never fired.
MonitorsWatchLive == fin = <<>> => \A m \in monitors : status[m.target] # "gone"

-----------------------------------------------------------------------------
(* Liveness, under FairSpec.                                               *)

\* "no class of work starves another": what is queued leaves the queue, while others
\* go on spawning, sending and yielding, unless main() ends first.
EveryJobRuns ==
  \A p \in Pid : Enqueued(p) ~> (~Enqueued(p) \/ loop = "done")

\* When the main process has returned, main() sees it, however busy the others are.
MainReturnEnds == mainDone ~> loop \in {"done", "deadlock"}

\* scheduler.mjs:73, "park up to `ms'": a finite receive timeout ends the wait.  Does
\* not hold: the loop goes to a macrotask only when the run queue is empty, so timers
\* starve while any process keeps yielding.
TimedWaitEnds ==
  \A p \in Pid : p \in timer ~> (p \notin timer \/ loop \in {"done", "deadlock"})
=============================================================================
