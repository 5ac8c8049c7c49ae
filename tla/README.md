# elixir_wasm in TLA+

`beam2wasm` compiles BEAM files to WebAssembly GC. The compiled program brings
its own term runtime (maps, integers, term order) and, when it uses processes,
runs on a scheduler written in JavaScript: `runtime/scheduler.mjs`, one JSPI
stack per process on one thread. Around it stand host shims (big integers,
regular expressions) and programs that use compiled modules as the pure step of
something durable or interactive: Durable Objects and a playground page. This
directory holds TLA+ models of the parts of that system that carry state or a
delicate algorithm, their TLC runs and their TLAPS proofs. Paths below are relative to the repository.

Run `tlc -config <cfg> <module>` for a model, `tlapm <module>Proofs.tla` for its
proofs; `PROJECT.json` lists which source lines each definition stands for.

## 1. Inventory

| Component | State it keeps | Operations | What is hard | What makes it correct | Here |
|---|---|---|---|---|---|
| **Process scheduler** `runtime/scheduler.mjs` (`priv/scheduler.mjs` is its copy for builds) | process table (status, mailbox, links, trap flag, exit reason, timer, `resolve`/`reject` of the parked stack), registry, monitors, run queue, `current`, `pendingTimers`, `mainDone` | spawn, spawn_link, send, exit/1, exit/2, trap_exit, register, monitor, demonitor, alias, recv_*, yield, the run loop `main()`, `finish()`, timer callbacks | microtask order, kills between dispatch and execution, recursion of `finish()` over changing sets, timers only in macrotasks | a death reaches exactly whom it should; nothing is lost, resumed twice or left `running`; the loop ends when, and only when, it should | `Scheduler`, `MCScheduler`, `SchedulerProofs`, `ProcessProofs` |
| **Compiled receive** `codegen/emit.ex` 1271-1313 with the cursor of the scheduler | mailbox, cursor, timer, where the code is suspended | loop_rec, remove_message, loop_rec_end, wait, wait_timeout, timeout, hibernate | wake-ups during a scan, a cursor that outlives a receive | first match in arrival order; no lost wake-up; `after` only when nothing matches | `Mailbox`, `Receive`, `MCReceive`, `ReceiveProofs` |
| **Process operations** of `emit.ex`, `beam2wasm.ex` (make_exit, make_down, start_process) | none of their own | the imports above, reduction check | arguments resolved at run time (`resolve_dest`) | each becomes the right import | partly, in `Scheduler` |
| **Term runtime** `codegen/runtime.ex` | immutable terms; maps as persistent trees | term order, map operations, tiered integers, floats, bit strings, UTF-8 | rotations; two implementations of one order; tier boundaries; rounding | a map is a dictionary; order is total; equal integers have one representation | partly: `Terms`, `WeightBalance`, `TermMap`, `Dictionary`, `MapDictionary`, `MCTermMap`, `TermMapProofs`; `TieredIntegers`, `IntegerProofs` |
| **Instruction selection** `codegen/emit.ex` | none (counters of names) | one clause per opcode; integer specialization; i64 chain fusion | values that are known only modulo 2^64; operands and results of different tiers | fused and specialized code computes what the plain code does | partly: `ChainFusion`, `MCChainFusion`, and receive, process operations, map literals above |
| **Host shims** `runtime/imports.mjs` (three more copies) | cache of RegExp objects; BigInt handles, files, SQL handles | re_split, re_scan, re_replace(_fun), re_test, re_run; makeBig | `lastIndex` of shared objects, callbacks into the module during a search, matches of length zero | a call answers as on a fresh object and returns | partly: `HostRegex`, `HostRegexProofs`, `TieredIntegers` |
| **Durable GenServer** `durable-genserver/worker.js` | balance and history in Durable Object storage | deposit, withdraw, balance | four awaits; a restart between two puts | the history accounts for the balance | `Accounts`, `AccountMachine`, `ObjectStorage`, `DurableObjects`, `DurableProofs` |
| **Order objects** `attic/spikes/03-durable-statem-eval` | order state and ledger of charges | authorize, capture, refund, read; the fault-injection harness | read, await, charge, await, commit; retries, concurrent calls, crashes | charged once; the state follows the charge | `Orders`, `DurableObjects`, `DurableProofs` |
| **Account object** `attic/durable-object` | balance, status, history | new, deposit, withdraw, freeze, unfreeze, read | three reads, one put | changes by one whole event at a time | `Accounts`, refining `SerialAccount`; `DurableProofs` |
| **SQL ledger** `demo/durable-sql` | rows of the object's SQLite, AUTOINCREMENT | add, list, update, delete, balance | answers and restarts | an id that was answered stays that entry's | `Ledger`, `DurableProofs` |
| **pyex playground** `demo/pyex-web/app/src` | editor contents, files, run in progress, debounce, readiness, run ids, watchdog, messages to and from the worker | edits, run, answers, boot, watchdog restart | answers overtaken by newer runs; a restart that loses messages | shows the answer to what the editor holds | `Playground`, `PlaygroundProofs` |
| **Compiler driver** `lib/beam2wasm.ex` | module set, closure table, atom table | parse chunks, reachability, closure numbering, protocol consolidation | | keeps every function that can be called | no |
| **Instantiation helpers** `priv/host.mjs`, `runtime/deepstack.mjs` | none | wire imports, worker with a larger stack | | | no |
| **Mix tasks, toolchain** `lib/mix/tasks/*`, `lib/beam2wasm/toolchain.ex` | none | run external programs, compare output | | | no |
| **BEAM interpreter** `interp/interp.ex` | registers, stack of a small VM | a handful of opcodes | | same results as compiled code | no |
| **Other demos, examples; tests, benchmarks** | | | | | no: users of the system, read as documentation |

**Interaction.** A process's compiled code calls the scheduler's imports
synchronously; the scheduler enters the code only through `start_process` and
by resolving the promise a stack is parked on. All scheduler state is shared by
all imports through module variables, and the identity of the caller is the
variable `current`. `finish()` calls itself through the links and calls back
into Wasm only to build messages. Timers and the run loop meet in the event
loop: a timer callback runs only when `main()` awaits a macrotask. Receives use
the scheduler's mailbox and cursor through `recv_has`, `recv_cur`,
`recv_remove`, `recv_advance` and the two waits. Maps rest on `$term_compare`;
the compiler lays out map literals itself, in the order of the BEAM it runs on.
`$int_` functions call `makeBig` for the third tier; fused chains enter and
leave it through `$term_u64bits` and `$narrow_u64`. `re_replace_fun` calls back
into the module, which may call any regex import. A Durable Object's class calls
the compiled step between two awaits of storage; the platform interleaves
events at other awaits only, and holds answers until the writes before them are
on disk. The playground's page, its handle on the interpreter and the worker
exchange messages in order, and the handle kills the worker.

The hazards that follow from this, each at its line and with the properties
that cover it, are in `PROJECT.json` under `hazards`.

## 2. Modules and how they correspond to the code

### Scheduler

One variable per field of the process record or module variable of
`scheduler.mjs`, with the same name where there is one. The engine is part of
the model: `micro` is the microtask queue and keeps its exact order, `slice` is
the process whose stack executes, `loop` is where `main()` is, `fin` is the
stack of activations of `finish()`. Status `absent` means "no record yet",
`gone` "record deleted".

- Imports: `Spawn`, `SpawnLink` (`SpawnLinkThrows` when the caller's record is
  gone), `Send`, `SendAny`, `Receive`, `SetTrapExit`, `Exit2`, `Register`,
  `MonitorProc`, `Demonitor`. Each takes one reduction.
- A stack stops in `RecvWait`, `RecvWaitTimeout`, `Yield`, `Return`,
  `ExitSelf`, `Crash`.
- `finish()` is small-step: `BeginFinish` (status, timer, name), then
  `FinishLink` per linked process in any order (the order of a JavaScript `Set`
  is left open), which may push an activation for a process it kills,
  `FinishMonitor`, `FinishDone`. Nothing else runs while `fin` is not empty.
- `main()`: `DispatchStart`, `DispatchResume`, `DispatchDead`, `LoopSettle`,
  `LoopLeave`, `IdleEnds`. The engine: `RunStack`, `UnwindStack`, `Settle`
  (the two handlers of `run.then`), and `TimerFires` for the macrotasks.

`MCScheduler` adds a history variable, the process table at the start of the
outermost `finish()`, so that a whole death can be compared with what it should
have done (`Dying`, `Owed`).

Abstractions. Message contents, process dictionary and debug output are left
out; a message is its kind, sender, reference and reason. Time is not modelled:
an armed timer may fire in any macrotask, in any order. One import call counts
as one reduction; in the code function entries count. The process dictionary
belongs to its process alone. `main()`'s guard against 200 million iterations
and the extra microtask that a `TypeError` inside a promise executor takes are
not modelled. The program is arbitrary: any process makes any call at any time,
subject to `Imports` and the bounds.

### Receive, Mailbox

`Receive` is one process among senders: `pc` is a label of the compiled code
(`loop_rec`, `match`, `empty`, ...) or a suspension point, `cursor` is
`p.cursor`. The actions are the opcodes and the imports they call; senders act
only while the process does not execute, which is what one thread gives.
`Mailbox` is the abstract promise: the messages not yet taken, oldest first; `Take`
the first that matches, `Expire` only when none does. `Receive!KeepsPromise` is
the refinement `Mailbox!Spec` with its liveness. A non-literal timeout is
compiled as infinity (`docs/LIMITATIONS.md`), so `after` is `infinity`,
`finite` or `zero`.

### Terms, WeightBalance, TermMap, Dictionary, MapDictionary

`Terms` has `$term_rank`, `$int_cmp`, `$to_f64` and `$term_compare`, and, as
code outside the repository, the term order of the BEAM that `Enum.sort` uses
inside the compiler. `WeightBalance` has `$mnew`, the four rotations and
`$mbal`. `TermMap` has `$mput`, `$mfind`, `$msel`, `$mflat`, `$map_from_kv`,
the compile-time tree of a literal (`build_tree_expr`, `const_tree`), and one
action per operation that makes a new map: put, update, remove (take leaves the
same map), merge, from_keys, literal. `Dictionary` is what a map promises, and
`MapDictionary` runs the map and the dictionary in step.

`TermMap` takes the two orders as constants, `TermOrder` and `CompilerOrder`;
`MCTermMap` gives them `$term_compare` and the order of the BEAM from `Terms`.
`OrderAssumption` says that each is a total order of the program's keys, which is
all the map relies on. It is not true of all terms: `1` and `1.0` compare as
equal numbers, and above 2^53 equality of mixed numbers is not transitive. A
recursive function over trees needs its domain written down: `TreesTo(n)` are the
trees of up to `n` levels, `Within(t)` those that `t` can be made of.

Abstractions. A key-value array is a sequence of pairs. Atoms, references and
pids are ordered numbers, which is what the runtime makes of them. Integers are
compared by value whatever their tier; numbers are non-negative; lists are
proper; `Mantissa` stands for the 53 bits of a double. An operation that raises
leaves the map as it was and is no step. Dead versions of a map are not kept:
nodes have no mutable field.

### TieredIntegers, ChainFusion

`TieredIntegers` has the three tiers, `$narrow`, `$from_big`, the u64 bit
patterns and `$int_add` ... `$int_rem` with their overflow tests, for any widths
of an i31 and an i64 (`Small`, `Half`). `Term(v)` is the one term that stands for
an integer. `ChainFusion` computes the same program three ways at once: `value`
as Erlang means it, `term` by the plain code (a `$int_` function, or inline i32
instructions when the result's bounds fit an i31), and `node`, the raw i64 of a
fused chain with its domain in the lattice of `emit.ex` 1866-2118. Every register
is compared after every operation, so every prefix that `try_plan` may settle on
is covered. Bitwise operators are defined digit by digit on integers of any sign
(`Digitwise`; `Width` digits hold every value). `MaxShift` bounds the shift counts,
`MaxFusedBsr` those of the fused shifts to the right: below the width in `integers`,
equal to it in `ChainFusionShift.cfg`. Left out: floats, the choice of a run's extent
and of dead registers.

### HostRegex

A pattern is a function from positions to the length of its match there (a host
RegExp, external); `reCache` holds the `lastIndex` of each cached object, `stack`
the calls under way, for a replacement's function may call again. `Jsre` is the
lookup, `SplitAt` and `SplitEnds`, `Collect`, `CalledBack`, `Test` the loops.
`CacheLimit` 1 makes a call meet objects that the cache had no room for. Left out:
the translation of PCRE text, captures but the whole match, framing and byte
offsets.

### ObjectStorage, Orders, Accounts, AccountMachine, SerialAccount, Ledger, DurableObjects

`ObjectStorage` is external, what the classes rest on: `versions` is the disk and
every later write; a request runs from one await of storage to the next, with
other events kept out (input gate); a response waits for the writes before it
(output gate); `Restart` keeps the disk and fails what is under way. The actions
of `Orders`, `Accounts` and `Ledger` are the pieces of the handlers between two
awaits. `AccountMachine` is the compiled Elixir they call. `DurableObjects` adds
the client: the harness of spike 03, stage by stage, and retries of calls that a
restart failed. `SerialAccount` is the promise of `attic/durable-object`, which
the disk implements. Idempotency keys and ids of ledger entries are strings, written
as the sequence of their parts between colons: `CaptureId` and `RefundId` put `ledger`
and `ledger`, `refund` before a key, in the one name space of `worker.js` 63 and 71.
`given` is a history variable: the ids that earlier stages answered to adds of the SQL
ledger. Left out: the texts of responses, the kinds of ledger entries, alarms (no class
uses one).

### Playground

`code`, `files`, `ready`, `running`, `result` are the page's state and refs,
`effectDue` says that the effect of `[rev, ready]` has not run, `debounce` that its
timer is armed; `isReady`, `runId`, `latest`, `watchdog` are fields of `Pyex`;
`inbox` and `outbox` the messages to and from the worker. Time is not modelled: an
armed timer, the watchdog too, may fire at any moment. `edit` is a history
variable. Left out: rendering, tabs, traces; a run's outcome is a failure, or its
files with or without one written.

## 3. Runs

Passing runs:

| Run | Asks | Bounds, and why they suffice |
|---|---|---|
| `deaths` | `DeathReaches`, `DeathIsTold`, `LinksMutual`, `NoAbandonedStack`, `RunQueueSound`, `TypeOK` while processes spawn, link, monitor, trap, kill and die | 3 processes: links come from spawn_link only and form trees, and a chain, a star, a trapping neighbour and a dead one all occur; 1 monitor, 2 reasons, no data messages: 1.6 million states |
| `messages` | `TimersBalanced`, `TimeoutXorMessage`, `CurrentIsExecuting`, `RunningSettles`, `DeadlockIsReal` with sends, timed and untimed receives, names, links and signals | 2 processes, mailboxes to 1 message by sends (signals go beyond), 1 name: a message, a timer and a kill through a link race for one receiver, and a process is killed between its dispatch and its microtask, sent a message by a linked one that then exits. exit/2 only tells or does nothing here, for the only reason is `normal`; it kills in `deaths`: 2.1 million states |
| `scheduler_liveness` | `EveryJobRuns`, `MainReturnEnds` | 3 processes that spawn, link, send and yield for ever: 104 thousand states |
| `receive` | `KeepsPromise` (refinement, with liveness), `PassedOver`, `ParkedMeansNoMatch`, `TypeOK` | 2 messages, 5 receives (selective, with and without timeout, a flush), mailboxes to 5: passes over, rescans and removals behind a passed-over message occur: 8.9 thousand states. Deadlock is not checked: senders may stop for good |
| `maps` | `KeysOrdered`, `Balanced`, `ReadsAgree`, `ActsAsDictionary`, `TypeOK` | 7 keys of all kinds that need comparing by parts, 2 values: trees of 7 nodes meet single and double rotations both ways: 10.7 thousand states |
| `durable_objects` | `NeverOvercharged`, `StateFollowsLedger`, `AnswerStands`, `Verdict`, `BankHistoryLags`, `AccountIsSerial` (refinement), `ScenarioEnds` | the harness's five scenarios for both order classes, seven more with refunds, a second key (`refund:k2`), accounts and the SQL ledger, whose newest entry is deleted beside adds; 3 calls at a time, 2 restarts at any moment: a retry can itself be cut off: 187 thousand states |
| `playground` | `RunningIsLatest`, `NoRunLost`, `WatchdogGuardsLatest`, `EditsOutliveOldRuns`, `SettlesOnCode` | 2 programs, 1 file, 3 things the user does, 2 watchdog restarts: a run is overtaken twice, and restarted while one is: 408 thousand states. Deadlock is not checked: a settled page waits for its user |
| `regex` | `AsIfFresh`, `SplitTiles`, `CallsReturn` | subjects of 3 units and every function that a pattern may be on them, limits 0 to 3, 2 calls, nested or in a row: 71 thousand states. Deadlock is not checked: calls are bounded |
| `integers` | `IntegersExact`, `FusedAgrees` | 4-bit i64, 2-bit i31, all values to +-34 (beyond 2^5), 2 registers, chains of 2 operations over all ten operators; 6 digits hold every value, shifts by up to 7 places, fused right shifts by up to 3: 124 thousand states. Deadlock is not checked: chains are bounded |

`Budget` is 2 in the passing runs of the scheduler: a slice makes up to two calls,
so two calls run with nothing between them and, since a stack may yield at any
moment, with a preemption between them. Longer slices are left to the proofs,
which hold for every budget. The runs that must find a violation use 1.

Runs that must find a violation. Each states what a comment or document of the
repository says:

| Run | The code | The source says |
|---|---|---|
| `poll_hides_messages` | a failed `receive ... after 0` leaves the cursor behind messages that the next receive then never sees | a process parks on an empty or non-matching mailbox |
| `map_literal_keys` | a literal with maps as keys is laid out by Elixir's order, searched by `$term_compare`, which compares maps key by value instead of keys first: a key is not found | "Elixir's term order matches $term_compare" |
| `inline_operands` | an operation on bounded integers is compiled to i32 instructions when its result fits an i31, whatever its operands: with both operands beyond an i31 the cast traps | "result provably fits i31 -> inline i32" |

TLC refutes four promises more, and two properties once a bound or an assumption is
lifted; their configurations are kept as counterexamples to look at
(`tlc -config <cfg> Scheduler.tla`, the last two with `MCChainFusion.tla` and
`MCDurableObjects.tla`):

| Configuration | The code | The source says |
|---|---|---|
| `SchedulerZombie.cfg`, `KilledNeverExecutes` | a process killed between its dispatch and its stack's microtask, or by its own exit/2, executes on without a record | a killed process's stack is unwound or its dispatch skipped |
| `SchedulerNormalExit.cfg`, `LinkKillIsAbnormal` | exit(:normal) marks the exit abnormal; linked processes die | only abnormal exits propagate |
| `SchedulerDeadMonitor.cfg`, `MonitorsWatchLive` | monitor of a dead process is kept and never fires | DOWN is delivered when the target dies, spent entries are pruned |
| `SchedulerTimerStarved.cfg`, `TimedWaitEnds` | a process that keeps yielding keeps every timeout from firing | "park up to `ms`" |
| `ChainFusionShift.cfg`, `FusedAgrees` | the lattice bounds a right shift by any constant (emit.ex:2031), also by the width or more, which `shr_u` takes modulo the width; the clause for left shifts asks for less than the width. Whether the BEAM compiler, which may fold such a shift itself, leaves one in a module is not modelled | "true value, bounds proven" (emit.ex:1868) |
| `DurableObjectsKeys.cfg`, `NeverOvercharged` | a capture under the key `refund:k1` and a refund under `k1` write one entry of the ledger (worker.js:63, 71): the refund replaces the charge and the order is charged -100 | nothing: no document speaks of such keys, so it is no finding |

**Fairness.** `Scheduler!Fairness` is weak fairness of `Next` (the engine runs
while there is work) and strong fairness of each timer (an armed timer fires if
the event loop comes to macrotasks again and again). Nothing makes a process
stop computing except its budget, send, return or receive. `Receive` has weak
fairness of the process's own steps and of its resumption once woken; the
latter is what `EveryJobRuns` shows of the scheduler. Nothing makes a sender
send or a timer fire. `DurableObjects` has weak fairness of every step but
restarts: the platform runs handlers, writes and answers. `Playground` has weak
fairness of the effect, the debounce timer, the worker and the delivery of
messages; nothing makes the user act or the watchdog fire, and a run ends, for
the interpreter counts its steps. `HostRegex` has weak fairness of the loops: a
call that runs goes on running.

## 4. Proofs

Assumptions on the constants: `SchedulerAssumption`, `ReceiveAssumption`,
`PlaygroundAssumption`, `RegexAssumption` (types, positive bounds); for receives `PollsCatchAll`: every `after 0` receive accepts
every message, without which the claim is false, as `poll_hides_messages` shows;
`TierAssumption`; `FusionAssumption` (2^`Bits` is twice 2^63, types and literals are i64,
`Width` digits hold every value and every i64); for maps `ProgramAssumption` and `OrderAssumption` (above); for Durable
Objects `ScenarioAssumption` (a scenario has a class and finite sequences of calls,
amounts are integers) and `StorageAssumption`. A hypothesis that is not an assumption
stands in the theorem: `LiteralsAgree`, `OrdersApart`, `OneSale`, `KeysApart`,
`OperandsFit`, `MaxFusedBsr < Bits`, `1 \in Requests` (there is a request at all).

Scheduler (`SchedulerProofs`, `ProcessProofs`), for any number of processes:

- `TypeCorrect`: `Spec => []TypeOK`.
- `SchedulerSound`: `RunQueueSound`, `NoAbandonedStack`, `RunningSettles` and
  `CurrentIsExecuting`. None of them is inductive. A queue entry is right only if `wake`
  finds a waiting process unqueued (`Once`, `AsWhatItIs`, `NoAbandonedStack`); pids must
  be fresh (`Known`); a process that is `done` must have its `finish()` on the stack,
  once, or its removal would leave another activation behind (`FinSound`); and `current`
  is right because a dispatched stack's microtask always comes before main's
  continuation and there is one of each (`MicroOrder`, `RunSound`, `Executes`). `IInv` is
  their conjunction; its preservation is proved by lemmas on the few ways the process
  table changes (waking, ending, pushing and popping an activation) and one step per
  action.
- `TimersSound`: `TimersBalanced`, `TimeoutXorMessage` and `DeadlockIsReal`. Timed waits,
  armed timers and the counter move together (`TimerInv` adds that a timed wait has not
  timed out yet), and once `main()` has given up nothing executes (`GivenUp`).
- `LinksSound`: `LinksMutual`. Within a cascade links are one-sided: `LinkInv` says that
  a one-sided link is the unfinished work of an activation on the stack (`Pending`) or
  the child of a `spawn_link` that threw (`Orphan`).
- `DeathsReach` and `DeathsAreTold`: `DeathReaches` and `DeathIsTold`, of `MCSpec`, for
  any graph of links and any order in which the recursion walks it. They compare the
  end of a death with its start, so the invariant `DeathInv` relates every state between
  to the snapshot `pre`. Only those whom the signal reaches have fallen (`Felled`); the
  others are as they were, but for links to the fallen (`Spared`); a link of a fallen
  process is on the list of an activation, or its other end lives, has lost it, and
  trapped or the exit was normal (`Dealt`); a monitor that is gone had a fallen end
  (`Watched`); names are freed at once (`Named`); a survivor's mailbox holds what it
  held and then, once each, the messages owed for the links and monitors dealt with so
  far (`Told`). When the stack is empty no link is on a list: those who fell are closed
  under the signal, hence all that it reaches (`FallenAreReached`). `OrphansApart`,
  inductive by itself, says that the half-made links of orphans lead to gone processes
  only, so that the links of the snapshot are mutual among the living.

Receives (`ReceiveProofs`): `ReceiveInvariant`: type, `PassedOver` and
`ParkedMeansNoMatch`; `ReceiveImplementsMailbox`: every step of `Receive` is a step or a
stutter of `Mailbox` (safety).

Maps (`TermMapProofs`), for any keys, values, literals and trees of any size. The
functions of `TermMap` recur over trees. The library's induction theorems take an
operator as a parameter, which the provers cannot instantiate, so induction is
built from its principle of least elements in a set: a set of naturals with 0 and closed under
successor is all of them (`SetInduction`), hence a set of trees that holds the empty one
and every node over two of its members is all of them (`TreeInduction`), and a recursive
function over trees exists and unfolds (`TreeRecursion`; `PutUnfolds`, `FindUnfolds`, ...).

- `InsertRightBalances`, `InsertLeftBalances`: if a node was balanced and one side has
  grown by one, `$mbal` gives a balanced node with balanced children: delta 3 and gamma 2
  are enough. `BalanceKeepsOrder`: `$mbal` never loses, adds or moves a pair.
- `PutBalances`, `PutBinds`, `FindFinds`, `SelectCounts`: what `$mput`, `$mfind` and
  `$msel` do to any tree; `BuildTreeLists`: what the compiler's tree of a literal holds.
- `MapIsTree`, `MapIsBalanced`, `MapIsOrdered`, `MapReadsAgree`: the four invariants of
  the run `maps`. Balance needs nothing of the order; order and searches need that it is
  total and, for literals, `LiteralsAgree`: the compiler's order of a literal's keys is
  the runtime's. `map_literal_keys` shows that this hypothesis cannot be dropped.
- `MapActsAsDictionary`: the pairs of the tree are the graph of the dictionary
  (`DictInv`), so a search by key or index reads the dictionary. `DictionaryIsGhost`: the
  dictionary does not restrict the map.

Integers (`IntegerProofs`), for all widths of the tiers, registers, types and operands:

- `AdditionExact`, `SubtractionExact`, `MultiplicationExact`, `DivisionExact`: on the
  terms of any two integers the functions give the term of the exact result, their
  overflow tests finding exactly what no i64 holds. `BitsKeepU64`: the way into a fused
  chain and out of it. `OperationsExact`: all ten operators. That `$int_band`, `$int_bor`
  and `$int_bxor` need no BigInt for two i64 is an induction over digits: numbers of m
  digits give numbers of m digits (`DigitwiseFits`). `2^n` and the operators are
  recursive functions; that they exist and unfold is proved from `SetInduction`
  (`Recursion`, `Pow2Unfolds`, `DigitwiseUnfolds`).
- `TermsExact`: `IntegersExact`. The invariant (`TermsInv`) keeps the values of registers
  within their types, which is what bounds the operands of an inline instruction
  (`UnfusedExact`). `inline_operands` shows that `OperandsFit` cannot be dropped.
- `LatticeSound`: each clause of the lattice, for any domains and the values behind
  them. `NodeOK` says what a domain means: `s64` bounds the value and has it for its
  bits, `u64` is a value below 2^64, `u64raw` a class modulo 2^64. Sums, products and
  bitwise operators respect the class (`CongruentProduct`, `CongruentBitwise`: the low
  digits of a result depend on those of the operands only); bounds of products, shifts,
  masks and remainders hold what they bound (`ProductWithin`, `BslSound`, `BandSound`, ...).
- `ChainSound`: `FusedAgrees`, for chains of any length, from `TermsInv` and `NodesInv`
  (every register's node is `NodeOK`). It assumes `MaxFusedBsr < Bits`: the code has no such
  test, which is what `ChainFusionShift.cfg` shows.

Regular expressions (`HostRegexProofs`): `RegexAnswersAsFresh` and `RegexSplitTiles`, for
any subject, pattern, cache and depth of calls. A call that runs holds the `lastIndex` it
needs, while a call that waits for its replacement function does not: the function's
own calls may reset the object it holds. It keeps its answer right because all matches
were collected before the first call back. So the invariant (`RegexInv`) says of
every frame what it has collected so far (`FrameOK`) and of the innermost one alone where
its object stands (`HeldBy`).

Playground (`PlaygroundProofs`): `PlaygroundSound`, the four invariants for any programs,
files and bounds. The strengthening says that run ids only grow and `latest` is the last
one given (`IdsOK`), and that only a ready worker was sent anything or says that it is
ready (`WorkerOK`).

Durable Objects (`DurableProofs`), for any calls, scenarios and restarts. All rest on
`OneInside` (one handler at most is between two awaits of storage), so that what a
handler has read is what it writes over, and on invariants of every version that is not
on disk yet: a restart falls back on one of them, so it needs nothing more.

- `AccountSerial`: `Spec => AccountIsSerial`, the whole refinement (the serial account
  asks for no fairness). Consecutive versions are one event apart (`VersionsOK`).
- `StatemFollows`: `StateFollowsLedger`. Each version tells of no charge that it does
  not hold (`OrdersOK`).
- `AnswersStand`: `AnswerStands`. A response waits for a number of writes; every version
  from the last of those on tells of what it answers (`Standing`), and no two answers
  carry one ledger id (`Distinct`), for the counter of ids is part of every version. When
  a stage ends its answers are out, so the disk is at one of those versions and a restart
  cannot fall back behind it: every version then has each id in `given` below its counter
  and among its rows, unless a call so far asked to delete it (`GivenKept`), and no id is
  given again (`GivenOnce`). For
  orders it assumes `OrdersApart`: no stage of the client calls an authorize together
  with a capture, since an authorize is free to start an order over.
- `OrderNeverOvercharged`: `NeverOvercharged`. Distinct keys of captures have distinct
  entries, and with `KeysApart` (no capture is made under `refund:` and the key of a
  refund) no entry is both a charge and a refund: a version's charges are the price times
  the number of the captures it holds, less its one refund (`Booked`, `SumCounts`).
  `DurableObjectsKeys.cfg` shows that `KeysApart` cannot be dropped. `OneSale` assumes one price for an order and one key for its refunds; a
  restart between a refund and its commit, followed by a refund under another key, does
  pay back twice.
- `BankLagsByRestarts`: `BankHistoryLags`. What the balance has and the history has not
  is a sum of amounts of events: one for each restart so far and one for a handler
  between its two puts (`LastingOK` of the versions). Its lemmas show that the
  order of a finite sum does not matter (`AnyOrder`, `SumAdds`).

- `HarnessVerdict`: `Verdict` of the harness's scenarios, for any number of concurrent
  captures and of restarts; it assumes that request 1 is among the requests, and
  `OrdersApart` of other scenarios that may be run besides. That the reading finds the
  expected charge needs what every step of the scenario left: a call is where the
  harness makes it (`HarnessInv`); a version holds one charge at most, under the key of
  the capture, none in the scenario "invalid", and from the stages that have been
  answered on it is authorized or captured (`RightVersions`), because what was answered
  is told by every version that a restart may fall back on (`Standing` again); an answer
  to a capture is ok, and that to a read is the sum (`Replied`). A NaiveOrder has no key
  to rest on: `NaiveInv` speaks of its last version alone, and lasts only while nothing
  restarts and nobody crashes (`Undisturbable`); a charge without its state belongs to a
  capture between its two puts, which is why no other capture charges again.

Only model-checked:

- Liveness: `EveryJobRuns`, `MainReturnEnds`, `ScenarioEnds`, `SettlesOnCode`,
  `CallsReturn` and that part of `KeepsPromise`. The prover has no fairness or ENABLED.
- `Verdict` of other scenarios that end with a reading than those of the harness: the
  theorem's are the five that the repository's table tells of.

## 5. Not modelled

- The compiler driver: BEAM chunks in, WAT out, one pass over immutable data. What
  could be wrong is the text it prints.
- The clauses of `emit.ex` and `runtime.ex` that print one instruction or convert
  data: floats and their formatting, bit strings, UTF-8, strings, exceptions.
- `$int_cmp` with floats is in `Terms`, but the runs keep to keys for which it is an
  order: above 2^53 it is none.
- `imports.mjs`: PCRE text, byte offsets, framing, libm, files, SQL, terms to and
  from JavaScript. `priv/imports.mjs` and the demos' `imports.mjs` and
  `scheduler.mjs` are copies of `runtime/`; a definition stands for one place.
- `attic/spikes/04-beam-loader-smoketest/runbeam.mjs` and `interp/interp.ex`: toy
  interpreters of a dozen opcodes without concurrency or persistence.
- Workers of the markdown, pyex, rebalancer demos: a request in, a text out. The
  other files of the playground: components, examples as text, build scripts.
- Benchmarks, spikes 01 and 02, tests and Mix tasks: programs that measure or
  compare, and keep no state.

More than half of the repository's JavaScript and TypeScript is of the last four
kinds; the compiler and the runtime, where most of the modelled algorithms are,
are Elixir that prints WAT.
