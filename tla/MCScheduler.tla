---------------------------- MODULE MCScheduler ----------------------------
(***************************************************************************)
(* Scheduler for TLC.  `pre' is a history variable: what the process table  *)
(* was when the outermost finish() began, so that what a whole death did    *)
(* can be compared with what it should have done.                           *)
(***************************************************************************)
EXTENDS Scheduler, SequencesExt

VARIABLE pre

mcvars == <<vars, pre>>

NotDying == [pid |-> NoPid]

Snapshot(activation) ==
  [pid |-> activation.pid, reason |-> activation.reason,
   abnormal |-> activation.abnormal,
   status |-> status, links |-> links, trapExit |-> trapExit, mailbox |-> mailbox,
   monitors |-> monitors, registry |-> registry]

MCInit == Init /\ pre = NotDying

MCNext ==
  /\ Next
  /\ pre' = CASE fin = <<>> /\ fin' # <<>> -> Snapshot(fin'[1])
              [] fin # <<>> /\ fin' # <<>> -> pre
              [] fin' = <<>> -> NotDying

MCSpec == MCInit /\ [][MCNext]_mcvars

\* a process of the snapshot that was there to be killed or told
WasAlive(p) == pre.status[p] \notin {"absent", "gone"}

\* the processes that die with pre.pid: an abnormal exit follows the links through
\* every process that does not trap exits, and through no other
Dying ==
  LET Closed(S) == \A p \in S : \A q \in pre.links[p] :
                     WasAlive(q) /\ q \notin pre.trapExit => q \in S
  IN IF pre.abnormal
     THEN {p \in Pid : \A S \in SUBSET Pid : pre.pid \in S /\ Closed(S) => p \in S}
     ELSE {pre.pid}

\* the messages p is owed: one {:EXIT, ...} for each dying process it was linked to
\* while trapping exits, one {:DOWN, ...} for each of its monitors of a dying process
Owed(p) ==
  {Exit(d, pre.reason) : d \in {d \in Dying : p \in pre.links[d] \cap pre.trapExit}}
  \cup {Down(m.ref, m.target, pre.reason) :
          m \in {m \in pre.monitors : m.by = p /\ m.target \in Dying}}

DeathEnds == fin # <<>> /\ fin' = <<>>

\* A death takes with it exactly the processes that its exit signal reaches, however
\* the recursion of finish() walked the links, and leaves no name, link or monitor.
TakesTheDying ==
  /\ \A p \in Pid : (status'[p] = "gone") <=> (pre.status[p] = "gone" \/ p \in Dying)
  /\ \A p \in Pid : Alive(p)' => links'[p] \cap Dying = {}
  /\ monitors' = {m \in pre.monitors : m.by \notin Dying /\ m.target \notin Dying}
  /\ \A n \in Names : registry'[n] = IF pre.registry[n] \in Dying THEN NoPid
                                     ELSE pre.registry[n]
DeathReaches == [][DeathEnds => TakesTheDying]_mcvars

\* Each survivor gets every message it is owed for that death, once, after what its
\* mailbox held, and is woken if it waited.
TellsTheOthers ==
  \A p \in Pid \ Dying : WasAlive(p) =>
    LET was == Len(pre.mailbox[p])
        news == SubSeq(mailbox'[p], was + 1, Len(mailbox'[p]))
    IN /\ SubSeq(mailbox'[p], 1, was) = pre.mailbox[p]
       /\ ToSet(news) = Owed(p) /\ Len(news) = Cardinality(Owed(p))
       /\ pre.status[p] = "waiting" /\ Owed(p) # {} => status'[p] = "runnable"
DeathIsTold == [][DeathEnds => TellsTheOthers]_mcvars
=============================================================================
