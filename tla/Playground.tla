----------------------------- MODULE Playground -----------------------------
(***************************************************************************)
(* The pyex playground, demo/pyex-web/app/src: the page (App.tsx), its     *)
(* handle on the interpreter (lib/pyex.ts) and the Web Worker that runs it *)
(* (pyex.worker.ts).  The user edits; 450 ms later the page posts a run;   *)
(* its result comes back, is overtaken by a newer run, or a watchdog       *)
(* restarts the worker.  Time is not modelled: an armed timer may fire at  *)
(* any moment.                                                             *)
(***************************************************************************)
EXTENDS Naturals, Sequences, SequencesExt, FiniteSets

CONSTANTS Programs,    \* contents of program.py
          Paths,       \* files of the workspace
          Contents,    \* contents of a file
          Output,      \* what a program may write into one
          NoFile,      \* a file that is not there
          MaxIntents,  \* bound on what the user does
          MaxTimeouts  \* bound on the watchdog's restarts

Files == [Paths -> Contents \cup {Output, NoFile}]

ASSUME PlaygroundAssumption ==
    /\ Programs # {} /\ Paths # {} /\ Contents # {}
    /\ MaxIntents \in Nat /\ MaxTimeouts \in Nat

VARIABLES
    code, files,        \* codeRef, filesRef
    ready, running,     \* React state of the page
    result,             \* the answer it shows
    effectDue,          \* rev or ready changed, the effect has not run yet
    debounce,           \* its timer is armed
    isReady, runId, latest, watchdog,  \* fields of Pyex
    worker,             \* "booting", "ready" or "failed"
    inbox, outbox,      \* messages to and from the worker
    intents, timeouts,  \* counters of the bounds
    edit                \* history: the user's last change of a file, and the run id then

page == <<code, files, ready, running, result, effectDue, debounce>>
handle == <<isReady, runId, latest, watchdog>>
channel == <<worker, inbox, outbox>>
bounds == <<intents, timeouts, edit>>
vars == <<page, handle, channel, bounds>>

NoWatchdog == 0
NoCode == NoFile
NoRun == [id |-> 0, ok |-> FALSE, code |-> NoCode]
Empty == [p \in Paths |-> NoFile]

Run(id, c, fs) == [type |-> "run", id |-> id, code |-> c, files |-> fs]
Answer(run, fs) == [type |-> "result", id |-> run.id, ok |-> TRUE, code |-> run.code, files |-> fs]
Failure(run) == [type |-> "result", id |-> run.id, ok |-> FALSE, code |-> run.code]
Ready == [type |-> "ready"]
BootError == [type |-> "boot-error"]

Edit(content) == [content |-> content, at |-> runId]
Spawn == worker' = "booting" /\ inbox' = <<>> /\ outbox' = <<>>

Init ==
    /\ code \in Programs /\ files = Empty
    /\ ready = FALSE /\ running = FALSE /\ result = NoRun
    /\ effectDue = TRUE /\ debounce = FALSE
    /\ isReady = FALSE /\ runId = 0 /\ latest = 0 /\ watchdog = NoWatchdog
    /\ worker = "booting" /\ inbox = <<>> /\ outbox = <<>>
    /\ intents = 0 /\ timeouts = 0 /\ edit = [p \in Paths |-> Edit(NoFile)]
-----------------------------------------------------------------------------
(* The user.                                                               *)
Intent == intents < MaxIntents /\ intents' = intents + 1
BumpRev == effectDue' = TRUE

EditCode(c) ==
    /\ Intent /\ code' = c /\ BumpRev
    /\ UNCHANGED <<files, ready, running, result, debounce, handle, channel, timeouts, edit>>

\* editActive of a file, addFile and deleteFile
ChangeFile(p, content) ==
    /\ Intent /\ BumpRev
    /\ files' = [files EXCEPT ![p] = content]
    /\ edit' = [edit EXCEPT ![p] = Edit(content)]
    /\ UNCHANGED <<code, ready, running, result, debounce, handle, channel, timeouts>>

LoadExample(c, fs) ==
    /\ Intent /\ BumpRev
    /\ code' = c /\ files' = fs
    /\ edit' = [p \in Paths |-> Edit(fs[p])]
    /\ UNCHANGED <<ready, running, result, debounce, handle, channel, timeouts>>

(* runNow() and Pyex.run().                                                *)
PostRun ==
    /\ running' = TRUE
    /\ runId' = runId + 1 /\ latest' = runId + 1
    /\ inbox' = Append(inbox, Run(runId + 1, code, files))
    /\ watchdog' = runId + 1

RunNow ==
    IF isReady THEN PostRun ELSE UNCHANGED <<running, runId, latest, inbox, watchdog>>

PressRun ==
    /\ Intent /\ RunNow
    /\ UNCHANGED <<code, files, ready, result, effectDue, debounce, isReady, worker, outbox, timeouts, edit>>

(* The effect of [rev, ready], and its timer.                              *)
Effect ==
    /\ effectDue /\ effectDue' = FALSE
    /\ debounce' = ready
    /\ UNCHANGED <<code, files, ready, running, result, handle, channel, bounds>>

DebounceFires ==
    /\ debounce /\ debounce' = FALSE
    /\ RunNow
    /\ UNCHANGED <<code, files, ready, result, effectDue, isReady, worker, outbox, bounds>>
-----------------------------------------------------------------------------
(* The worker.  It executes one message at a time; a run that has not      *)
(* finished is the head of inbox.                                          *)
Boots ==
    /\ worker = "booting"
    /\ \/ worker' = "ready" /\ outbox' = Append(outbox, Ready)
       \/ worker' = "failed" /\ outbox' = Append(outbox, BootError)
    /\ UNCHANGED <<page, handle, inbox, bounds>>

\* A run may write one file, fail, or be dropped by a worker that is not ready.
Outcomes(run) ==
    {Failure(run), Answer(run, run.files)} \cup
    {Answer(run, [run.files EXCEPT ![p] = Output]) : p \in Paths}

OnMessage ==
    /\ inbox # <<>> /\ inbox' = Tail(inbox)
    /\ IF worker = "ready"
       THEN \E answer \in Outcomes(Head(inbox)) : outbox' = Append(outbox, answer)
       ELSE UNCHANGED outbox
    /\ UNCHANGED <<page, handle, worker, bounds>>
-----------------------------------------------------------------------------
(* The handle's onmessage, and the watchdog.                               *)
\* mutant: readiness does not ask for a run
OnReadySilent ==
    /\ Head(outbox).type = "ready"
    /\ isReady' = TRUE /\ ready' = TRUE
    /\ UNCHANGED <<code, files, running, result, effectDue, debounce, runId, latest, watchdog>>

OnReady ==
    /\ Head(outbox).type = "ready"
    /\ isReady' = TRUE /\ ready' = TRUE /\ BumpRev
    /\ UNCHANGED <<code, files, running, result, debounce, runId, latest, watchdog>>

OnBootError ==
    /\ Head(outbox).type = "boot-error"
    /\ UNCHANGED <<page, handle>>

OnResult(answer) ==
    /\ running' = FALSE
    /\ result' = [id |-> answer.id, ok |-> answer.ok, code |-> answer.code]
    /\ files' = IF answer.ok THEN answer.files ELSE files
    /\ UNCHANGED <<code, ready, effectDue, debounce>>

\* mutants: an answer that does not check for a newer run; one that leaves the
\* watchdog armed; one that keeps the files of the page
OnAnswerOfAny ==
    /\ Head(outbox).type = "result"
    /\ watchdog' = NoWatchdog
    /\ OnResult(Head(outbox))
    /\ UNCHANGED <<isReady, runId, latest>>
OnAnswerUnwatched ==
    /\ Head(outbox).type = "result"
    /\ IF Head(outbox).id = latest THEN OnResult(Head(outbox)) ELSE UNCHANGED page
    /\ UNCHANGED <<isReady, runId, latest, watchdog>>
OnAnswerFilesOfAny ==
    /\ Head(outbox).type = "result"
    /\ watchdog' = NoWatchdog
    /\ IF Head(outbox).id = latest THEN OnResult(Head(outbox))
       ELSE /\ files' = IF Head(outbox).ok THEN Head(outbox).files ELSE files
            /\ UNCHANGED <<code, ready, running, result, effectDue, debounce>>
    /\ UNCHANGED <<isReady, runId, latest>>

OnAnswer ==
    /\ Head(outbox).type = "result"
    /\ watchdog' = NoWatchdog
    /\ IF Head(outbox).id = latest THEN OnResult(Head(outbox)) ELSE UNCHANGED page
    /\ UNCHANGED <<isReady, runId, latest>>

PageReceives ==
    /\ outbox # <<>> /\ outbox' = Tail(outbox)
    /\ OnReady \/ OnBootError \/ OnAnswer
    /\ UNCHANGED <<worker, inbox, bounds>>

\* mutant: the new worker keeps the old one's readiness
WatchdogFiresReady ==
    /\ watchdog # NoWatchdog /\ watchdog' = NoWatchdog
    /\ timeouts < MaxTimeouts /\ timeouts' = timeouts + 1
    /\ OnResult([id |-> watchdog, ok |-> FALSE, code |-> NoCode])
    /\ Spawn
    /\ UNCHANGED <<isReady, runId, latest, intents, edit>>

\* The worker is terminated with whatever it was sent and has posted.
WatchdogFires ==
    /\ watchdog # NoWatchdog /\ watchdog' = NoWatchdog
    /\ timeouts < MaxTimeouts /\ timeouts' = timeouts + 1
    /\ isReady' = FALSE
    /\ OnResult([id |-> watchdog, ok |-> FALSE, code |-> NoCode])
    /\ Spawn
    /\ UNCHANGED <<runId, latest, intents, edit>>
-----------------------------------------------------------------------------
User ==
    \/ \E c \in Programs : EditCode(c)
    \/ \E p \in Paths, content \in Contents \cup {NoFile} : ChangeFile(p, content)
    \/ \E c \in Programs, content \in Contents : LoadExample(c, [p \in Paths |-> content])
    \/ PressRun

Next ==
    \/ User \/ Effect \/ DebounceFires
    \/ Boots \/ OnMessage
    \/ PageReceives \/ WatchdogFires

\* Timers of the page fire, messages arrive, and a run comes to its end: the
\* interpreter counts its steps.
Fairness == WF_vars(Effect) /\ WF_vars(DebounceFires) /\ WF_vars(Boots)
            /\ WF_vars(OnMessage) /\ WF_vars(PageReceives)
Spec == Init /\ [][Next]_vars /\ Fairness
-----------------------------------------------------------------------------
Ids(messages) == {m.id : m \in {n \in ToSet(messages) : n.type \in {"run", "result"}}}

\* The page says `running' exactly while its latest run has no answer: no
\* answer of an older run and no restart makes it say otherwise.
RunningIsLatest == running <=> latest # result.id

\* The latest run cannot get lost: while it has no answer it is with the
\* worker or on its way back.
NoRunLost == running => latest \in Ids(inbox) \cup Ids(outbox)

\* The watchdog guards the latest run alone.
WatchdogGuardsLatest == watchdog # NoWatchdog => running /\ watchdog = latest

\* What a file holds is the user's last change of it, or the answer of a run
\* that was the latest when the change was made, or of a later one: no older
\* run takes the change back (the one under way then still may, for the page
\* takes its files as they were posted: App.tsx:91).
EditsOutliveOldRuns ==
    \A p \in Paths : files[p] # edit[p].content => result.id >= edit[p].at

\* When the user stops, the page comes to show the answer to what the editor
\* holds, through debouncing, overtaken runs and restarts, unless the browser
\* cannot run the interpreter.
SettlesOnCode == <>[](worker = "failed" \/ (~running /\ result.code = code))
=============================================================================
