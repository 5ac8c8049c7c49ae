--------------------------- MODULE ReceiveProofs ---------------------------
(***************************************************************************)
(* The compiled receive implements Mailbox.tla, for every program whose     *)
(* `after 0' receives are catch-alls, for any messages and any mailbox      *)
(* length.  The liveness of Mailbox!Spec is left to TLC.                    *)
(***************************************************************************)
EXTENDS Receive, TLAPS

\* every `receive ... after 0' of the program accepts every message
PollsCatchAll == \A r \in Receives : r.after = "zero" => r.accepts = Msg

\* where the code is, the status and the receive agree
ControlOK ==
  /\ pc \in Suspended <=> status # "running"
  /\ pc \in {"body", "hibernate", "yield"} <=> receive = NoReceive
  /\ pc = "wait_timeout" => receive.after = "finite"
  /\ timer => pc = "wait_timeout" /\ status = "waiting"
  /\ pc = "wait_timeout" => (status = "ready" <=> timedOut)

\* the inductive invariant: the scan's promise, and what parking made of it
IInv == TypeOK /\ ControlOK /\ PassedOver /\ ParkedMeansNoMatch

\* Removing a message leaves a shorter mailbox.
LEMMA WithoutType ==
  ASSUME NEW s \in Seq(Msg), NEW i \in 1 .. Len(s)
  PROVE  Without(s, i) \in Seq(Msg) /\ Len(Without(s, i)) = Len(s) - 1
<1> DEFINE n == Len(s) - 1
           w == [k \in 1 .. n |-> s[IF k < i THEN k ELSE k + 1]]
<1>1. n \in Nat
  OBVIOUS
<1>2. ASSUME NEW k \in 1 .. n PROVE s[IF k < i THEN k ELSE k + 1] \in Msg
  OBVIOUS
<1>3. w \in Seq(Msg)
  BY <1>1, <1>2
<1>4. Len(w) = n
  BY <1>1, <1>3
<1> QED
  BY <1>3, <1>4 DEF Without

LEMMA InitIInv == Init => IInv
<1> SUFFICES ASSUME Init PROVE IInv
  OBVIOUS
<1> USE DEF Init, Suspended
<1>1. TypeOK
  <2>1. mailbox \in Seq(Msg) /\ Len(mailbox) = 0
    OBVIOUS
  <2>2. timer \in BOOLEAN /\ timedOut \in BOOLEAN
    OBVIOUS
  <2>3. cursor \in 0 .. Len(mailbox) /\ result \in Msg \cup {Expired}
    BY <2>1
  <2> QED
    BY <2>1, <2>2, <2>3 DEF TypeOK
<1>2. ControlOK
  BY DEF ControlOK
<1>3. PassedOver
  BY DEF PassedOver, Scanning
<1>4. ParkedMeansNoMatch
  BY DEF ParkedMeansNoMatch
<1> QED
  BY <1>1, <1>2, <1>3, <1>4 DEF IInv

LEMMA StepIInv ==
  ASSUME PollsCatchAll
  PROVE  IInv /\ [Next]_vars => IInv'
<1> SUFFICES ASSUME IInv, [Next]_vars PROVE IInv'
  OBVIOUS
<1> USE ReceiveAssumption
    DEF IInv, TypeOK, ControlOK, PassedOver, Scanning, ParkedMeansNoMatch, Suspended, At
<1>1. CASE UNCHANGED vars
  BY <1>1 DEF vars
<1>2. ASSUME NEW r \in Receives, Enter(r) PROVE IInv'
  BY <1>2 DEF Enter
<1>3. CASE LoopRec
  BY <1>3 DEF LoopRec
<1>4. CASE RemoveMessage
  <2>1. cursor + 1 \in 1 .. Len(mailbox)
    BY <1>4 DEF RemoveMessage
  <2>2. mailbox' \in Seq(Msg) /\ Len(mailbox') = Len(mailbox) - 1
    BY <1>4, <2>1, WithoutType DEF RemoveMessage
  <2> QED
    BY <1>4, <2>1, <2>2 DEF RemoveMessage
<1>5. CASE LoopRecEnd
  BY <1>5 DEF LoopRecEnd, Accepted
<1>6. CASE Wait
  BY <1>6 DEF Wait
<1>7. CASE WaitTimeout
  <2>1. timer' \in BOOLEAN /\ timedOut' \in BOOLEAN
    BY <1>7 DEF WaitTimeout
  <2>2. TypeOK'
    BY <1>7, <2>1 DEF WaitTimeout
  <2>3. ControlOK'
    BY <1>7 DEF WaitTimeout
  <2>4. PassedOver' /\ ParkedMeansNoMatch'
    BY <1>7 DEF WaitTimeout
  <2> QED
    BY <2>2, <2>3, <2>4
<1>8. CASE Timeout
  <2>1. cursor = 0
    \* a catch-all passes over nothing
    <3>1. receive \in Receives /\ receive.accepts = Msg
      BY <1>8 DEF Timeout, PollsCatchAll
    <3>2. \A i \in 1 .. cursor : mailbox[i] \in Msg /\ mailbox[i] \notin receive.accepts
      BY <1>8 DEF Timeout
    <3> QED
      BY <3>1, <3>2
  <2> QED
    BY <1>8, <2>1 DEF Timeout
<1>9. ASSUME NEW m \in Msg, SendSelf(m) PROVE IInv'
  BY <1>9 DEF SendSelf
<1>10. CASE Yield
  BY <1>10 DEF Yield
<1>11. CASE Hibernate
  BY <1>11 DEF Hibernate
<1>12. CASE Resume
  BY <1>12 DEF Resume
<1>13. CASE TimerFires
  BY <1>13 DEF TimerFires
<1>14. ASSUME NEW m \in Msg, Send(m) PROVE IInv'
  <2>1. timer' \in BOOLEAN /\ timedOut' \in BOOLEAN
    BY <1>14 DEF Send, Wake
  <2>2. mailbox' \in Seq(Msg) /\ Len(mailbox') = Len(mailbox) + 1
    BY <1>14 DEF Send
  <2>3. TypeOK'
    BY <1>14, <2>1, <2>2 DEF Send, Wake
  <2>4. ControlOK'
    BY <1>14 DEF Send, Wake
  <2>5. PassedOver'
    BY <1>14 DEF Send
  <2>6. ParkedMeansNoMatch'
    BY <1>14 DEF Send, Wake
  <2> QED
    BY <2>3, <2>4, <2>5, <2>6
<1> QED
  BY <1>1, <1>2, <1>3, <1>4, <1>5, <1>6, <1>7, <1>8, <1>9, <1>10, <1>11, <1>12,
     <1>13, <1>14 DEF Next, Execute, Scheduled

\* The receive state keeps its shape, scans take messages in order, and a process
\* never parks in a receive, or stays parked, with a matching message in its mailbox.
THEOREM ReceiveInvariant ==
  ASSUME PollsCatchAll
  PROVE  Spec => [](TypeOK /\ PassedOver /\ ParkedMeansNoMatch)
<1>1. IInv => TypeOK /\ PassedOver /\ ParkedMeansNoMatch
  BY DEF IInv
<1> QED
  BY InitIInv, StepIInv, <1>1, PTL DEF Spec

-----------------------------------------------------------------------------
(* The refinement: the box is the mailbox; a receive ends for Mailbox.tla   *)
(* when its message is removed, or when its timer fires.                    *)

LEMMA InitRefines == Init => Promise!Init
BY DEF Init, Promise!Init, HasExpired

LEMMA StepRefines ==
  ASSUME PollsCatchAll
  PROVE  IInv /\ [Next]_vars => [Promise!Next]_Promise!vars
<1> SUFFICES ASSUME IInv, [Next]_vars PROVE [Promise!Next]_Promise!vars
  OBVIOUS
<1> USE ReceiveAssumption DEF IInv, TypeOK, ControlOK, Suspended, At, HasExpired
<1>1. CASE UNCHANGED vars
  BY <1>1 DEF vars, Promise!vars
<1>2. ASSUME NEW r \in Receives, Enter(r) PROVE Promise!Ask(r)
  BY <1>2 DEF Enter, Promise!Ask
<1>3. CASE LoopRec
  BY <1>3 DEF LoopRec, Promise!vars
<1>4. CASE RemoveMessage
  <2>1. cursor + 1 \in 1 .. Len(mailbox) /\ mailbox[cursor + 1] \in receive.accepts
    BY <1>4 DEF RemoveMessage, Accepted, PassedOver
  <2>2. \A j \in 1 .. (cursor + 1) - 1 : mailbox[j] \notin receive.accepts
    BY <1>4 DEF RemoveMessage, PassedOver, Scanning
  <2>3. ~HasExpired /\ ~HasExpired' /\ receive # NoReceive /\ receive' = NoReceive
    BY <1>4 DEF RemoveMessage
  <2>4. /\ mailbox' = Promise!Without(mailbox, cursor + 1)
        /\ result' = mailbox[cursor + 1]
    BY <1>4 DEF RemoveMessage, Without, Promise!Without
  <2>5. Promise!Take
    BY <2>1, <2>2, <2>3, <2>4 DEF Promise!Take, Promise!Matches
  <2> QED
    BY <2>5 DEF Promise!Next
<1>5. CASE LoopRecEnd
  BY <1>5 DEF LoopRecEnd, Promise!vars
<1>6. CASE Wait
  BY <1>6 DEF Wait, Promise!vars
<1>7. CASE WaitTimeout
  BY <1>7 DEF WaitTimeout, Promise!vars
<1>8. CASE Timeout
  <2>1. \A i \in 1 .. Len(mailbox) : mailbox[i] \notin receive.accepts
    BY <1>8 DEF Timeout, PassedOver, Scanning
  <2>2. Promise!Expire
    BY <1>8, <2>1 DEF Timeout, Promise!Expire, Promise!Matches
  <2> QED
    BY <2>2 DEF Promise!Next
<1>9. ASSUME NEW m \in Msg, SendSelf(m) PROVE Promise!Deliver(m)
  BY <1>9 DEF SendSelf, Promise!Deliver
<1>10. CASE Yield
  BY <1>10 DEF Yield, Promise!vars
<1>11. CASE Hibernate
  BY <1>11 DEF Hibernate, Promise!vars
<1>12. CASE Resume
  \* an expired receive has ended already, the others go on
  BY <1>12 DEF Resume, Promise!vars
<1>13. CASE TimerFires
  <2>1. /\ pc = "wait_timeout" /\ receive.after = "finite"
        /\ \A i \in 1 .. Len(mailbox) : mailbox[i] \notin receive.accepts
    BY <1>13 DEF TimerFires, ParkedMeansNoMatch
  <2>2. Promise!Expire
    BY <1>13, <2>1 DEF TimerFires, Promise!Expire, Promise!Matches
  <2> QED
    BY <2>2 DEF Promise!Next
<1>14. ASSUME NEW m \in Msg, Send(m) PROVE Promise!Deliver(m)
  \* a wake-up makes a process runnable, never ready: it does not expire a receive
  BY <1>14 DEF Send, Wake, Promise!Deliver
<1> QED
  BY <1>1, <1>2, <1>3, <1>4, <1>5, <1>6, <1>7, <1>8, <1>9, <1>10, <1>11, <1>12,
     <1>13, <1>14 DEF Next, Execute, Scheduled, Promise!Next

\* Every behaviour of the compiled receive is one that Mailbox.tla allows: messages
\* are taken in arrival order, once, and `after' bodies run only on an empty match.
THEOREM ReceiveImplementsMailbox ==
  ASSUME PollsCatchAll
  PROVE  Spec => Promise!Safe
BY InitRefines, StepRefines, InitIInv, StepIInv, PTL DEF Spec, Promise!Safe
=============================================================================
