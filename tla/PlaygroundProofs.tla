-------------------------- MODULE PlaygroundProofs --------------------------
(***************************************************************************)
(* The safety of Playground.tla for every program, workspace and number of *)
(* intents and timeouts.  The liveness of its Spec is left to TLC.         *)
(***************************************************************************)
EXTENDS Playground, SequenceTheorems, TLAPS

RunMessage == [type : {"run"}, id : Nat, code : Programs, files : Files]
WorkerMessage ==
    [type : {"result"}, id : Nat, ok : {TRUE}, code : Programs, files : Files]
    \cup [type : {"result"}, id : Nat, ok : {FALSE}, code : Programs]
    \cup {Ready, BootError}

PageOK ==
    /\ code \in Programs /\ files \in Files
    /\ ready \in BOOLEAN /\ running \in BOOLEAN
    /\ result \in [id : Nat, ok : BOOLEAN, code : Programs \cup {NoCode}]
    /\ edit \in [Paths -> [content : Contents \cup {Output, NoFile}, at : Nat]]

ChannelOK ==
    /\ isReady \in BOOLEAN /\ runId \in Nat
    /\ inbox \in Seq(RunMessage) /\ outbox \in Seq(WorkerMessage)

\* Run ids only grow, and what bears one was made when it was the latest.
IdsOK ==
    /\ latest = runId /\ result.id <= runId
    /\ \A p \in Paths : edit[p].at <= runId

\* Only a ready worker was sent anything, or says that it is ready.
WorkerOK ==
    /\ isReady => worker = "ready"
    /\ worker \in {"booting", "ready", "failed"}
    /\ worker = "booting" => outbox = <<>>
    /\ worker = "failed" => \A i \in DOMAIN outbox : outbox[i].type # "ready"
    /\ ~isReady => inbox = <<>> /\ ~running

IInv ==
    /\ PageOK /\ ChannelOK /\ IdsOK /\ WorkerOK
    /\ RunningIsLatest /\ NoRunLost /\ WatchdogGuardsLatest /\ EditsOutliveOldRuns
-----------------------------------------------------------------------------
\* The id a message is about, if any.
IdOf(m) == IF m.type \in {"run", "result"} THEN {m.id} ELSE {}

\* A message that is posted adds its id, one that is taken at most removes it.
LEMMA IdsAppend ==
  ASSUME NEW S, NEW s \in Seq(S), NEW m \in S
  PROVE  Ids(Append(s, m)) = Ids(s) \cup IdOf(m)
<1>1. \A x : x \in ToSet(Append(s, m)) <=> x \in ToSet(s) \/ x = m
  <2>1. DOMAIN Append(s, m) = DOMAIN s \cup {Len(s) + 1}
    OBVIOUS
  <2>2. \A i \in DOMAIN s : Append(s, m)[i] = s[i]
    OBVIOUS
  <2>3. Append(s, m)[Len(s) + 1] = m
    OBVIOUS
  <2> QED
    BY <2>1, <2>2, <2>3, Zenon DEF ToSet
<1> QED
  BY <1>1, Zenon DEF Ids, IdOf

LEMMA IdsTail ==
  ASSUME NEW S, NEW s \in Seq(S), s # <<>>
  PROVE  Ids(s) = Ids(Tail(s)) \cup IdOf(Head(s))
<1>1. \A x : x \in ToSet(s) <=> x \in ToSet(Tail(s)) \/ x = Head(s)
  <2>1. \A i \in DOMAIN s : s[i] = Head(s) \/ \E j \in DOMAIN Tail(s) : s[i] = Tail(s)[j]
    <3> SUFFICES ASSUME NEW i \in DOMAIN s, i # 1
                 PROVE  \E j \in DOMAIN Tail(s) : s[i] = Tail(s)[j]
      OBVIOUS
    <3>1. i - 1 \in DOMAIN Tail(s) /\ s[i] = Tail(s)[i - 1]
      OBVIOUS
    <3> QED
      BY <3>1
  <2>2. \A j \in DOMAIN Tail(s) : \E i \in DOMAIN s : s[i] = Tail(s)[j]
    <3> TAKE j \in DOMAIN Tail(s)
    <3>1. j + 1 \in DOMAIN s /\ s[j + 1] = Tail(s)[j]
      OBVIOUS
    <3> QED
      BY <3>1
  <2>3. \E i \in DOMAIN s : s[i] = Head(s)
    OBVIOUS
  <2>4. ASSUME NEW t, NEW x PROVE x \in ToSet(t) <=> \E i \in DOMAIN t : x = t[i]
    BY DEF ToSet
  <2> DEFINE tail == Tail(s)
             head == Head(s)
  <2>5. \A x : x \in ToSet(tail) <=> \E i \in DOMAIN tail : x = tail[i]
    BY <2>4
  <2>6. \A x : x \in ToSet(s) <=> \E i \in DOMAIN s : x = s[i]
    BY <2>4
  <2>7. /\ \A i \in DOMAIN s : s[i] = head \/ \E j \in DOMAIN tail : s[i] = tail[j]
        /\ \A j \in DOMAIN tail : \E i \in DOMAIN s : s[i] = tail[j]
        /\ \E i \in DOMAIN s : s[i] = head
    BY <2>1, <2>2, <2>3
  <2> HIDE DEF tail, head
  <2>8. \A x : x \in ToSet(s) <=> x \in ToSet(tail) \/ x = head
    BY <2>5, <2>6, <2>7, Zenon
  <2> QED
    BY <2>8 DEF tail, head
<1> QED
  BY <1>1, Zenon DEF Ids, IdOf

LEMMA IdsEmpty == Ids(<<>>) = {}
  BY DEF Ids, ToSet

LEMMA HeadTail ==
  ASSUME NEW S, NEW s \in Seq(S), s # <<>>
  PROVE  Head(s) \in S /\ Tail(s) \in Seq(S)
  OBVIOUS

LEMMA AnswerType ==
  ASSUME NEW m \in WorkerMessage, m.type = "result"
  PROVE  m.ok \in BOOLEAN /\ m.code \in Programs \cup {NoCode} /\ (m.ok => m.files \in Files)
<1>1. m \notin {Ready, BootError}
  BY DEF Ready, BootError
<1>2. CASE m \in [type : {"result"}, id : Nat, ok : {TRUE}, code : Programs, files : Files]
  BY <1>2
<1>3. CASE m \in [type : {"result"}, id : Nat, ok : {FALSE}, code : Programs]
  BY <1>3
<1> QED
  BY <1>1, <1>2, <1>3 DEF WorkerMessage

\* What a run comes to is an answer to it.
LEMMA OutcomesAnswer ==
  ASSUME NEW run \in RunMessage, NEW answer \in Outcomes(run)
  PROVE  answer \in WorkerMessage /\ IdOf(answer) = IdOf(run)
<1>1. run.type = "run" /\ run.id \in Nat /\ run.code \in Programs /\ run.files \in Files
  BY DEF RunMessage
<1>2. ASSUME NEW fs \in Files
      PROVE  Answer(run, fs) \in WorkerMessage /\ IdOf(Answer(run, fs)) = {run.id}
  BY <1>1 DEF Answer, WorkerMessage, IdOf
<1>3. Failure(run) \in WorkerMessage /\ IdOf(Failure(run)) = {run.id}
  BY <1>1 DEF Failure, WorkerMessage, IdOf
<1>4. \A p \in Paths : [run.files EXCEPT ![p] = Output] \in Files
  BY <1>1 DEF Files
<1>5. \/ answer = Failure(run)
      \/ \E fs \in Files : answer = Answer(run, fs)
  BY <1>1, <1>4 DEF Outcomes
<1>6. IdOf(run) = {run.id}
  BY <1>1 DEF IdOf
<1> QED
  BY <1>2, <1>3, <1>5, <1>6
-----------------------------------------------------------------------------
\* A page whose contents alone are changed by its user.
EditorKept == UNCHANGED <<ready, running, result, handle, channel>>

LEMMA UserChanges ==
  ASSUME IInv, EditorKept,
         code' \in Programs, files' \in Files,
         edit' \in [Paths -> [content : Contents \cup {Output, NoFile}, at : Nat]],
         \A p \in Paths : \/ edit'[p] = edit[p] /\ files'[p] = files[p]
                          \/ edit'[p].at = runId /\ files'[p] = edit'[p].content
  PROVE  IInv'
<1> USE DEF IInv, EditorKept, handle, channel
<1>1. PageOK' /\ ChannelOK' /\ WorkerOK'
  BY DEF PageOK, ChannelOK, WorkerOK
<1>2. IdsOK'
  BY DEF IdsOK, ChannelOK
<1>3. RunningIsLatest' /\ NoRunLost' /\ WatchdogGuardsLatest'
  BY DEF RunningIsLatest, NoRunLost, WatchdogGuardsLatest
<1>4. EditsOutliveOldRuns'
  BY DEF EditsOutliveOldRuns
<1> QED
  BY <1>1, <1>2, <1>3, <1>4

\* Posting a run, whatever timer or key asked for it.
LEMMA RunNowKeeps ==
  ASSUME IInv, RunNow,
         UNCHANGED <<code, files, ready, result, isReady, worker, outbox, edit>>
  PROVE  IInv'
<1> USE DEF IInv
<1>1. CASE ~isReady
  <2>1. UNCHANGED <<code, files, ready, result, edit, running, runId, latest, inbox, watchdog, isReady, worker, outbox>>
    BY <1>1 DEF RunNow
  <2> QED
    BY <2>1 DEF PageOK, ChannelOK, IdsOK, WorkerOK, RunningIsLatest, NoRunLost,
                WatchdogGuardsLatest, EditsOutliveOldRuns
<1>2. CASE isReady
  <2> DEFINE m == Run(runId + 1, code, files)
  <2>1. /\ running' = TRUE /\ runId' = runId + 1 /\ latest' = runId + 1 /\ watchdog' = runId + 1
        /\ inbox' = Append(inbox, m)
    BY <1>2 DEF RunNow, PostRun
  <2>2. m \in RunMessage /\ IdOf(m) = {runId + 1}
    BY DEF Run, RunMessage, IdOf, PageOK, ChannelOK
  <2> HIDE DEF m
  <2>3. Ids(inbox') = Ids(inbox) \cup {runId + 1}
    BY <2>1, <2>2, IdsAppend DEF ChannelOK
  <2>4. PageOK' /\ ChannelOK'
    BY <2>1, <2>2 DEF PageOK, ChannelOK
  <2>5. IdsOK' /\ WorkerOK'
    BY <1>2, <2>1 DEF IdsOK, WorkerOK, ChannelOK, PageOK
  <2>6. RunningIsLatest' /\ WatchdogGuardsLatest'
    BY <2>1 DEF RunningIsLatest, WatchdogGuardsLatest, IdsOK, ChannelOK, PageOK
  <2>7. NoRunLost'
    BY <2>1, <2>3 DEF NoRunLost
  <2>8. EditsOutliveOldRuns'
    BY DEF EditsOutliveOldRuns
  <2> QED
    BY <2>4, <2>5, <2>6, <2>7, <2>8
<1> QED
  BY <1>1, <1>2 DEF ChannelOK

\* The page takes an answer: of its latest run, or in its stead.
LEMMA OnResultKeeps ==
  ASSUME IInv, NEW answer, OnResult(answer), answer.id = latest,
         answer.ok \in BOOLEAN, answer.code \in Programs \cup {NoCode},
         answer.ok => answer.files \in Files,
         watchdog' = NoWatchdog, UNCHANGED <<runId, latest, edit>>, ChannelOK', WorkerOK'
  PROVE  IInv'
<1> USE DEF IInv
<1>1. /\ running' = FALSE /\ result' = [id |-> latest, ok |-> answer.ok, code |-> answer.code]
      /\ files' \in Files /\ UNCHANGED <<code, ready>>
  BY DEF OnResult, PageOK
<1>2. latest \in Nat /\ latest = runId
  BY DEF IdsOK, ChannelOK
<1>3. PageOK'
  BY <1>1, <1>2 DEF PageOK
<1>4. IdsOK'
  BY <1>1, <1>2 DEF IdsOK
<1>5. RunningIsLatest' /\ NoRunLost' /\ WatchdogGuardsLatest'
  BY <1>1 DEF RunningIsLatest, NoRunLost, WatchdogGuardsLatest
<1>6. EditsOutliveOldRuns'
  BY <1>1, <1>2 DEF EditsOutliveOldRuns, IdsOK
<1> QED
  BY <1>3, <1>4, <1>5, <1>6
-----------------------------------------------------------------------------
LEMMA InitIInv == Init => IInv
<1> SUFFICES ASSUME Init PROVE IInv
  OBVIOUS
<1> USE DEF Init
<1>1. PageOK
  BY DEF PageOK, NoRun, Empty, Files, Edit
<1>2. ChannelOK /\ WorkerOK
  <2>1. \A S : <<>> \in Seq(S)
    OBVIOUS
  <2> QED
    BY <2>1 DEF ChannelOK, WorkerOK
<1>3. IdsOK
  BY DEF IdsOK, NoRun, Edit
<1>4. RunningIsLatest /\ NoRunLost /\ WatchdogGuardsLatest /\ EditsOutliveOldRuns
  BY DEF RunningIsLatest, NoRunLost, WatchdogGuardsLatest, EditsOutliveOldRuns, NoRun, Empty, Edit
<1> QED
  BY <1>1, <1>2, <1>3, <1>4 DEF IInv

LEMMA NextIInv == IInv /\ [Next]_vars => IInv'
<1> SUFFICES ASSUME IInv, [Next]_vars PROVE IInv'
  OBVIOUS
<1> USE DEF IInv
<1>1. ASSUME NEW c \in Programs, EditCode(c) PROVE IInv'
  BY <1>1, UserChanges DEF EditCode, EditorKept, PageOK
<1>2. ASSUME NEW p \in Paths, NEW content \in Contents \cup {NoFile}, ChangeFile(p, content) PROVE IInv'
  <2>1. EditorKept /\ UNCHANGED code
    BY <1>2 DEF ChangeFile, EditorKept
  <2>2. files' \in Files
    BY <1>2 DEF ChangeFile, Files, PageOK
  <2>3. edit' \in [Paths -> [content : Contents \cup {Output, NoFile}, at : Nat]]
    BY <1>2 DEF ChangeFile, PageOK, Edit, ChannelOK
  <2>4. ASSUME NEW q \in Paths
        PROVE  \/ edit'[q] = edit[q] /\ files'[q] = files[q]
               \/ edit'[q].at = runId /\ files'[q] = edit'[q].content
    BY <1>2 DEF ChangeFile, PageOK, Files, Edit
  <2> QED
    BY <2>1, <2>2, <2>3, <2>4, UserChanges DEF PageOK
<1>3. ASSUME NEW c \in Programs, NEW content \in Contents, LoadExample(c, [p \in Paths |-> content])
      PROVE  IInv'
  <2>1. EditorKept /\ code' \in Programs
    BY <1>3 DEF LoadExample, EditorKept
  <2>2. files' \in Files
    BY <1>3 DEF LoadExample, Files
  <2>3. edit' \in [Paths -> [content : Contents \cup {Output, NoFile}, at : Nat]]
    BY <1>3 DEF LoadExample, Edit, ChannelOK
  <2>4. ASSUME NEW q \in Paths PROVE edit'[q].at = runId /\ files'[q] = edit'[q].content
    BY <1>3 DEF LoadExample, Edit
  <2> QED
    BY <2>1, <2>2, <2>3, <2>4, UserChanges
<1>4. ASSUME PressRun PROVE IInv'
  BY <1>4, RunNowKeeps DEF PressRun
<1>5. ASSUME Effect PROVE IInv'
  BY <1>5 DEF Effect, handle, channel, bounds, PageOK, ChannelOK, IdsOK, WorkerOK,
              RunningIsLatest, NoRunLost, WatchdogGuardsLatest, EditsOutliveOldRuns
<1>6. ASSUME DebounceFires PROVE IInv'
  BY <1>6, RunNowKeeps DEF DebounceFires, bounds
<1>7. ASSUME Boots PROVE IInv'
  <2> PICK m \in {Ready, BootError} :
        /\ outbox' = Append(outbox, m)
        /\ worker' = IF m = Ready THEN "ready" ELSE "failed"
    BY <1>7 DEF Boots, Ready, BootError
  <2>0. m.type \notin {"run", "result"}
    BY DEF Ready, BootError
  <2>1. m \in WorkerMessage /\ IdOf(m) = {} /\ outbox = <<>>
    BY <1>7, <2>0 DEF WorkerMessage, IdOf, Boots, WorkerOK
  <2>2. Ids(outbox') = Ids(outbox)
    <3>1. Ids(Append(outbox, m)) = Ids(outbox) \cup IdOf(m)
      BY <2>1, IdsAppend DEF ChannelOK
    <3> QED
      BY <2>1, <3>1
  <2>3. UNCHANGED <<page, handle, inbox, edit>>
    BY <1>7 DEF Boots, bounds
  <2>4. ~isReady
    BY <1>7 DEF Boots, WorkerOK
  <2>5. outbox' \in Seq(WorkerMessage) /\ Len(outbox') = 1 /\ outbox'[1] = m
    BY <2>1
  <2>6. WorkerOK'
    BY <2>3, <2>4, <2>5 DEF WorkerOK, page, handle, Ready, BootError
  <2>7. PageOK' /\ ChannelOK' /\ IdsOK'
    BY <2>3, <2>5 DEF PageOK, ChannelOK, IdsOK, page, handle
  <2> QED
    BY <2>2, <2>3, <2>6, <2>7 DEF page, handle, RunningIsLatest, NoRunLost, WatchdogGuardsLatest,
                                EditsOutliveOldRuns
<1>8. ASSUME OnMessage PROVE IInv'
  <2> DEFINE run == Head(inbox)
  <2>1. isReady /\ worker = "ready" /\ inbox # <<>>
    BY <1>8 DEF OnMessage, WorkerOK
  <2>2. PICK answer \in Outcomes(run) : outbox' = Append(outbox, answer)
    BY <1>8, <2>1 DEF OnMessage
  <2>3. run \in RunMessage /\ inbox' \in Seq(RunMessage) /\ Ids(inbox) = Ids(inbox') \cup IdOf(run)
    BY <1>8, <2>1, HeadTail, IdsTail DEF OnMessage, ChannelOK
  <2> HIDE DEF run
  <2>4. answer \in WorkerMessage /\ IdOf(answer) = IdOf(run)
    BY <2>3, OutcomesAnswer
  <2>5. Ids(outbox') = Ids(outbox) \cup IdOf(run)
    BY <2>2, <2>4, IdsAppend DEF ChannelOK
  <2>6. UNCHANGED <<page, handle, worker, edit>>
    BY <1>8 DEF OnMessage, bounds
  <2>7. outbox' \in Seq(WorkerMessage)
    BY <2>2, <2>4 DEF ChannelOK
  <2>8. PageOK' /\ ChannelOK' /\ IdsOK' /\ WorkerOK'
    BY <2>1, <2>3, <2>6, <2>7 DEF PageOK, ChannelOK, IdsOK, WorkerOK, page, handle
  <2> QED
    BY <2>3, <2>5, <2>6, <2>8 DEF page, handle, RunningIsLatest, NoRunLost, WatchdogGuardsLatest,
                                EditsOutliveOldRuns
<1>9. ASSUME PageReceives PROVE IInv'
  <2> DEFINE m == Head(outbox)
  <2>1. outbox # <<>> /\ UNCHANGED <<worker, inbox, edit>>
    BY <1>9 DEF PageReceives, bounds
  <2>2. m \in WorkerMessage /\ outbox' \in Seq(WorkerMessage) /\ Ids(outbox) = Ids(outbox') \cup IdOf(m)
    BY <1>9, <2>1, HeadTail, IdsTail DEF PageReceives, ChannelOK
  <2>3. /\ \A i \in DOMAIN outbox' : i + 1 \in DOMAIN outbox /\ outbox'[i] = outbox[i + 1]
        /\ 1 \in DOMAIN outbox /\ m = outbox[1]
    BY <1>9, <2>1 DEF PageReceives, ChannelOK
  <2>4. WorkerOK' \/ ~(isReady' => worker' = "ready") \/ ~(~isReady' => inbox' = <<>> /\ ~running')
    BY <2>1, <2>3 DEF WorkerOK
  <2> HIDE DEF m
  <2>5. CASE OnReady
    <3>1. UNCHANGED <<code, files, running, result, runId, latest, watchdog>> /\ isReady' = TRUE /\ ready' = TRUE
          /\ m.type = "ready"
      BY <2>5 DEF OnReady, m
    <3>2. worker = "ready"
      BY <2>1, <2>3, <3>1 DEF WorkerOK
    <3>3. IdOf(m) = {}
      BY <3>1 DEF IdOf
    <3>4. PageOK' /\ ChannelOK' /\ IdsOK' /\ WorkerOK'
      BY <2>1, <2>2, <2>4, <3>1, <3>2 DEF PageOK, ChannelOK, IdsOK
    <3> QED
      BY <2>1, <2>2, <3>1, <3>3, <3>4 DEF RunningIsLatest, NoRunLost, WatchdogGuardsLatest, EditsOutliveOldRuns
  <2>6. CASE OnBootError
    <3>1. UNCHANGED <<page, handle>> /\ IdOf(m) = {}
      BY <2>6 DEF OnBootError, IdOf, m
    <3>2. PageOK' /\ ChannelOK' /\ IdsOK' /\ WorkerOK'
      BY <2>1, <2>2, <2>4, <3>1 DEF PageOK, ChannelOK, IdsOK, WorkerOK, page, handle
    <3> QED
      BY <2>1, <2>2, <3>1, <3>2 DEF RunningIsLatest, NoRunLost, WatchdogGuardsLatest, EditsOutliveOldRuns,
                                   page, handle
  <2>7. CASE OnAnswer
    <3>1. /\ m.type = "result" /\ watchdog' = NoWatchdog /\ UNCHANGED <<isReady, runId, latest>>
          /\ IF m.id = latest THEN OnResult(m) ELSE UNCHANGED page
      BY <2>7 DEF OnAnswer, m
    <3>2. ChannelOK'
      BY <2>1, <2>2, <3>1 DEF ChannelOK
    <3>3. CASE m.id = latest
      <4>1. /\ m.ok \in BOOLEAN /\ m.code \in Programs \cup {NoCode}
            /\ m.ok => m.files \in Files
        BY <2>2, <3>1, AnswerType
      <4>2. OnResult(m) /\ running' = FALSE
        BY <3>1, <3>3 DEF OnResult
      <4>3. WorkerOK'
        BY <2>1, <2>4, <3>1, <4>2 DEF WorkerOK
      <4> QED
        BY <2>1, <3>1, <3>2, <3>3, <4>1, <4>2, <4>3, OnResultKeeps
    <3>4. CASE m.id # latest
      <4>1. UNCHANGED page /\ latest \notin IdOf(m)
        BY <3>1, <3>4 DEF IdOf
      <4>2. PageOK' /\ IdsOK' /\ WorkerOK'
        BY <2>1, <2>4, <3>1, <4>1 DEF PageOK, IdsOK, WorkerOK, page
      <4> QED
        BY <2>1, <2>2, <3>1, <3>2, <4>1, <4>2 DEF RunningIsLatest, NoRunLost, WatchdogGuardsLatest,
                                                EditsOutliveOldRuns, page
    <3> QED
      BY <3>3, <3>4
  <2> QED
    BY <1>9, <2>5, <2>6, <2>7 DEF PageReceives
<1>10. ASSUME WatchdogFires PROVE IInv'
  <2> DEFINE answer == [id |-> watchdog, ok |-> FALSE, code |-> NoCode]
  <2>1. /\ OnResult(answer) /\ watchdog # NoWatchdog /\ watchdog' = NoWatchdog /\ isReady' = FALSE
        /\ worker' = "booting" /\ inbox' = <<>> /\ outbox' = <<>> /\ UNCHANGED <<runId, latest, edit>>
    BY <1>10 DEF WatchdogFires, Spawn
  <2>2. answer.id = latest /\ answer.ok \in BOOLEAN /\ answer.code \in Programs \cup {NoCode} /\ ~answer.ok
    BY <2>1 DEF WatchdogGuardsLatest
  <2>3. running' = FALSE
    BY <2>1 DEF OnResult
  <2>4. \A S : <<>> \in Seq(S)
    OBVIOUS
  <2>5. ChannelOK' /\ WorkerOK'
    BY <2>1, <2>3, <2>4 DEF ChannelOK, WorkerOK
  <2> HIDE DEF answer
  <2> QED
    BY <2>1, <2>2, <2>5, OnResultKeeps
<1>11. ASSUME UNCHANGED vars PROVE IInv'
  BY <1>11 DEF vars, page, handle, channel, bounds, PageOK, ChannelOK, IdsOK, WorkerOK,
               RunningIsLatest, NoRunLost, WatchdogGuardsLatest, EditsOutliveOldRuns
<1> QED
  BY <1>1, <1>2, <1>3, <1>4, <1>5, <1>6, <1>7, <1>8, <1>9, <1>10, <1>11 DEF Next, User

\* Whatever the user does and whatever overtakes what, the page says `running'
\* exactly while its latest run has no answer, that run is with the worker or
\* on its way back, the watchdog guards no other, and an answer older than a
\* change of a file does not take it back (lib/pyex.ts:27-56, App.tsx:87-142).
THEOREM PlaygroundSound ==
  Spec => [](RunningIsLatest /\ NoRunLost /\ WatchdogGuardsLatest /\ EditsOutliveOldRuns)
<1>1. IInv => RunningIsLatest /\ NoRunLost /\ WatchdogGuardsLatest /\ EditsOutliveOldRuns
  BY DEF IInv
<1> QED
  BY InitIInv, NextIInv, <1>1, PTL DEF Spec
=============================================================================
