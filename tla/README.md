# A verification of fabric-study

TLA+ models of the cross-chain courier of `fabric-study`, of the chaincode it drives, of
its log, and of the command line client `fabric-cli` – executor, tasks, commands and
printers –, model-checked with TLC and proved about with TLAPS.  Paths without a
directory are under `src/courier/`; `cli/` stands for `src/fabric-cli/` and `log/` for
`src/log/`.

- [1. The system](#1-the-system) – parts, state, operations, interactions
- [2. What is hard about it](#2-what-is-hard-about-it)
- [3. The modules](#3-the-modules) – how they correspond to the code
- [4. The environment](#4-the-environment) – what is assumed, and why
- [5. The runs](#5-the-runs) – what each one asks, its bounds, its fairness
- [6. The proofs](#6-the-proofs)
- [7. What the code does that its documents do not say](#7-what-the-code-does-that-its-documents-do-not-say)
- [8. What is not modelled, and the plan](#8-what-is-not-modelled-and-the-plan)

## 1. The system

A contract on Fabric says "when I am paid on the other chain (the *outchain*), a
pays b here".  The two halves are kept together by a two-phase protocol that the
**courier** runs between the chains:

    Fabric ledger --block--> syncer --CrossTx--> txmanager --Send--> outchain
        ^                                         |   ^                 |
        |                                     database |                |
        +------ commit <---- fabric client <------+   httpserver <-receipt

1. somebody invokes `precommit` of the chaincode: a contract at `Init` and a
   *precommit* event;
2. the **syncer** walks the blocks, finds the event and hands a CrossTx to the
   **txmanager**, which records it at `Init` and sends it: `Pending`;
3. the outchain executes it and posts a receipt to the **httpserver**:
   `Executed`;
4. the courier invokes `commit` of the chaincode, which makes the payment,
   finishes the contract and emits a *commit* event;
5. the syncer finds that event and the record becomes `Completed`.

| component | state it keeps | operations |
|---|---|---|
| txmanager (`txmanager.go`) | two priority queues under one mutex each, two token channels, the goroutines of `ProcessCrossTxs` and `ProcessCrossTxReceipts`, and one anonymous goroutine per sent batch and per committed batch | `Start`, `reload`, `AddCrossTxs`, `ProcessCrossTxs`, `AddCrossTxReceipts`, `ProcessCrossTxReceipts`, `Stop` |
| database (`database.go`) | a bolt file: a bucket of records by cross ID, a bucket with the block number | `Save`, `Updates`, `Query`, `Set`, `Get` |
| syncer (`syncer.go`) | the next block number, a timer, two unbuffered channels, two goroutines | `syncBlock`, `processPreTxs`, `Stop` |
| event filter (`filter.go`, `utils/`) | none | `GetPrepareCrossTxs` |
| httpserver (`handler.go`, `server.go`) | one goroutine per posted receipt | `ServeHTTP`, `RecvMsg`, `Handler.Stop` |
| priority queue (`utils/prque/`) | a heap in blocks | `Push`, `Pop`, `Empty`, `Size` |
| contract library (`contractlib/type.go`) | none | the contract variants, their JSON |
| outchain client, fabric client (`client/`) | SDK handles | `Send`; `QueryBlockByNum`, `InvokeChainCode` |
| chaincode (`../chaincode/chaincode_example02/go/`) | the ledger | `Init`, `invoke`, `delete`, `query`, `precommit`, `commit` |
| fabric-cli executor (`cli/executor/`) | a queue, a pool of workers, two wait groups | `Submit`, `SubmitDelayed`, `Start`, `Stop`, `Wait` |
| fabric-cli tasks (`cli/chaincode/`: `invokecmd.go`, `querycmd.go`, `invoketask`, `querytask`, `multitask`) | per command: counters under a mutex, a wait group, a ticker; per task: attempts, the last error | `invoke`, `query`; `Task.Invoke`, `MultiTask.Invoke` |
| argument expressions (`cli/chaincode/utils/util.go`) | a global sequence number, the variables of an iteration | `AsBytes`: `$seq()`, `$rand()`, `$pad()`, `$file()`, `$set()`, `${}` |
| fabric-cli commands (`cli/action/`, `cli/channel/`, `cli/event/`, `cli/query/`, the others of `cli/chaincode/`) | per process: an SDK, the selected peers, an event registration | `Initialize`, one `run` or `invoke` per command, `Terminate` |
| fabric-cli printers (`cli/printer/`) | the indentation, or whether a comma is due | `PrintBlock` and ten other documents |
| fabric-cli configuration (`cli/config/`) | flags | readers of flags |
| log (`log/`) | level, patterns, a cache of levels per call site, the longest value per key | `Log`, `Verbosity`, `Vmodule`, `BacktraceAt` |
| test network (`../first-network/`) | – | shell scripts |

Who talks to whom: the syncer calls `AddCrossTxs` synchronously, and so does not
move on while the token channel is full; the sender and the receipt loop are woken
by tokens; the receipt goroutines of the HTTP server push into the same queue that
the receipt loop and the commit goroutines push back into; `txmanager` and syncer
share the database, and only the database survives a crash; everything the courier
knows about the ledger comes from blocks, everything it knows about the outchain
from receipts.

`fabric-cli` is a process of its own per command.  `invoke` and `query` give one
multi-task per iteration to an executor, whose workers evaluate the arguments, call the
SDK and print, and count under a mutex that a ticker shares.  The other commands call the
SDK from one goroutine; a listener has another that reads the terminal.  All print
through one printer, which has no lock.  Nothing but the network relates two commands.

What makes each part correct:

- **txmanager** – never commits what the outchain has not answered; while it lives, never
  forgets a transaction it has recorded; a record's status agrees with the ledger; no wake-up lost;
  receipts do not get stuck.
- **syncer** – each block with cross transactions reaches the database, in order,
  across restarts; it stops when asked to.
- **chaincode** – a contract pays at most once however often commit is invoked; a
  payment makes and destroys no money; a contract's life goes one way.
- **priority queue** – returns the highest priority and loses nothing.
- **event filter** – collects exactly the valid transactions with the event, in order.
- **executor** – runs each submitted task once; `Wait` and `Stop` mean what they say.
- **tasks** – each argument list of each iteration is counted once, as a success or as an
  error; the command ends.
- **argument expressions** – two tasks do not get the same number; a variable is that of
  its own iteration; what is not an expression is sent as it is.
- **commands** – what a command reports is so; a listener prints blocks in order and can be
  ended; the SDK is closed last.
- **printers** – what is opened is closed, and JSON can be read.
- **log** – a cached level is never stale, a record is written or dropped for a reason, and
  its line can be read back as far as its keys let it.

## 2. What is hard about it

- *Interleaving*: `AddCrossTxs` queues, saves, then tests the size without the lock,
  while the sender drains; the update to `Pending` runs in its own goroutine, racing
  both `Save` and the receipt.
- *Data races*: three of the five pushes into a queue do not take its mutex
  (`txmanager.go:181, 256, 272`), so an element may be lost, or a nil item read.
- *Crashes*: one durable file, several queues that are not and that nothing fills again;
  the block number is persisted ahead of the block's transactions.
- *Replays*: every receipt is pushed back after its commit and tried again with
  each later batch; blocks are met again after a restart; the endpoint accepts
  anything.
- *Partial failure*: `Updates` is all or nothing over a batch; an error of it is a
  panic in one place and a discarded batch in another; a parse error leaves half a
  block.
- *Blocking*: two goroutines joined by two unbuffered channels, only some of whose
  sends look at `stopCh`; a wait group that is raised again while it is being waited for.
- *Fabric*: transactions are endorsed against one state and ordered in another.
- *Numbers*: priorities are compared by a subtraction that wraps around
  (`utils/prque/sstack.go:89`), balances are ints, a concurrency is cut to 16 bits.
- *Tasks*: counters, sequence numbers, variables and the printer are used by several
  workers at once, some of them with a lock and some without.
- *Commands*: two users define the same chaincode at the same time; an answer is lost after
  the work was done; one organization of several refuses; Enter, an event and a closed
  channel come together.
- *Pairs of calls*: a printer opens and closes elements, arrays and items in a hundred
  functions.
- *Caches*: the log computes the level of a call site in three steps, while `Vmodule` swaps
  the patterns.

`PROJECT.json` lists each hazard at its line with the properties that would catch it.  Some are not
caught, because what they threaten is not kept: the model has the case, and a property names it as an
exception or does not speak of it.  These are the shared loop variable (`txmanager.go:212`), what an earlier
process left at `Init` (111), priorities half the range apart (`sstack.go:89`), the lost error of
`getTxEvents` (`filter.go:106`), a task submitted while `Stop` runs (`cli/executor/executor.go:102`), the printer under
`--verbose`, the error of a traversal (`cli/query/queryblockcmd.go:93`) and the keys of a log line
(`log/format.go:189`).  Their notes say so, and section 7 lists the code's part.

## 3. The modules

| module | models | kind |
|---|---|---|
| `ContractLib` | the statuses and the two variants of a stored contract (`contractlib/type.go`) | operators |
| `Store` | `Save` and `Updates` of the database as functions from databases to databases | operators |
| `Prque` | the priority queues as bags with an order, and what an unlocked push may do to one | operators |
| `Sstack` | the heap of the priority queues in its blocks (`utils/prque/sstack.go`) | operators |
| `Intake` | event filter and priority queue: from a block to a batch of the sender | state machine |
| `PriorityQueue` | what a priority queue promises | abstract specification of `Intake` |
| `TxManager` | txmanager, receipt endpoint and database, with crash and restart | state machine |
| `CrossChain` | what the courier promises about one transaction, seen from the two chains | abstract specification of `TxManager` |
| `BlockSync` | syncer, with crash and restart | state machine |
| `Chaincode` | the chaincode on a ledger that endorses, orders and validates | state machine |
| `ContractLife` | what the chaincode promises about one contract | abstract specification of `Chaincode` |
| `Courier` | the whole courier while `Handler.Stop` ends it; `TxManager` and `BlockSync` at a coarser grain, side by side | composition |
| `Executor` | the executor and worker pool of fabric-cli | state machine |
| `TaskQueue` | what an executor promises | abstract specification of `Executor` |
| `Args` | the argument expressions of fabric-cli | operators |
| `InvokeTasks` | `invoke` and `query` of fabric-cli, over the executor's promise | state machine |
| `Network` | the Fabric network as the commands see it (external) | state and operators |
| `Commands` | all other commands of fabric-cli, several users at once | state machine over `Network` |
| `Formatter` | the two output formats, and a reader of JSON | operators |
| `Printer` | the block printer as a grammar of formatter calls | state machine |
| `Glog` | the level filter of the log | state machine |
| `Logfmt` | a record as a line, and a reader of lines | operators |
| `Log` | loggers, filter and stream | `Glog` with `Logfmt` |
| `MCTxManager`, `MCChaincode`, `MCIntake`, `MCInvokeTasks`, `MCCommands`, `MCLog` | constants of the small instances | for TLC |
| `TxManager_proofs` | theorems about `TxManager` | for TLAPS |
| `Executor_proofs` | theorems about `Executor` | for TLAPS |
| `Syncer_proofs` | theorems about `BlockSync` and `Intake` | for TLAPS |
| `Chaincode_proofs` | theorems about `Chaincode` | for TLAPS |
| `Courier_proofs` | theorems about `Courier` | for TLAPS |
| `InvokeTasks_proofs` | theorems about `InvokeTasks` | for TLAPS |
| `Commands_proofs` | theorems about `Commands`, and about the `Printer` of their documents | for TLAPS |
| `Log_proofs` | theorems about `Glog`, and about its part of `Log` | for TLAPS |

Definitions whose comment begins with "Mutant:" belong to no specification.  Each
is a plausible error in the definition below it (a dropped reset, a missing guard,
a swapped order); putting it in the place of that definition makes the property
named with it in `PROJECT.json` fail, which shows that the property depends on
the code being right there.

### TxManager

A program counter per goroutine, one action per step between two points where
another goroutine may see or change what it uses.  A stretch of code under a mutex
is one action; so is a database transaction.

| goroutine | variables | actions |
|---|---|---|
| syncer inside `AddCrossTxs` | `addPc`, `addTxs`, `seen` | `Deliver` (the pushes under the lock), `AddSave`, `AddSize`, `AddSignal` |
| `ProcessCrossTxs` | `sndPc`, `sndBatch`, `sndDone`, `sndItem` | `SndWake`, `SndDrain`, `SndSend`, `SndPushBack`, `SndSpawn` |
| its anonymous goroutines | `updates`, a bag of sets of IDs | `Update`, `UpdatePanic` |
| one per receipt | `posting`, `signalers`, bags and a count | `Post`, `RecvPush`, `RecvSignal` |
| `ProcessCrossTxReceipts` | `rcvPc`, `rcvBatch` | `RcvWake`, `RcvDrain`, `RcvUpdate`, `RcvPushBack` |
| its anonymous goroutines | `cmtPc[s]`, `cmtBatch[s]`, `cmtItem[s]` | `CmtInvoke`, `CmtPushBack` |
| the process | `up` | `Kill`, `Restart`, `TornPanic` |

`pendingPrq`/`executedPrq` are the queues, `pendingCh`/`executedCh` the number of
tokens in the channels.  `db` is durable, `seen` is how far the event stream of a
contract has been read (the block number of the syncer, per contract); everything
else dies with the process.  `finished` is the ledger.  `sent`, `posted`, `calls`,
`discarded`, `panics` and `torn` only record what happened, and `fresh` the precommitted transactions
this process has taken on.

`Restart` queues nothing.  The query of `reload` (`txmanager.go:111`) asks for a field `Status` and orders by
`Timestamp`; `CrossTx` has a `TimeStamp`, and its status is inside an interface.  storm answers an
error on the first record it looks at, `Query` drops it (`database.go:157`), and `reload` pushes nothing
and sends its token.

`Save` skips a record it cannot read, for an error other than that there is none: it only warns (`unread` in `AddSave`,
when the database may fail).  A transaction whose encoding fails is in neither list of the batch and in no queue
(the third disjunct of `SndSend`); no contract of the repository is of that kind, so the branch is
under a constant of its own, `MarshalMayFail`.

An unlocked push is in progress while its goroutine is at `"push"`.  Any other
operation on that queue meanwhile *tears* it (`sndTorn`, `rcvTorn`, `cmtTorn`):
from then on it may end in the queue without one of its elements (`AfterPush`) or
in a nil dereference (`TornPanic`), which are the outcomes of the heap's code when
two goroutines append to one slot.

`RcvUpdate` stores in every record of the batch the receipt of the *last* element:
the updaters are closures over the loop variable (`go.mod` is before Go 1.22).

### BlockSync

`TimerFires`, `QueryBlock`, `SendPreTxs` and `SyncDone` are the select cases and the
body of `syncBlock`; `Parse`, `AddCrossTxs`, `SendErr` and `ProcDone` those of
`processPreTxs`; `SendPreTxs` and `SendErr` are rendezvous and move both goroutines.
A block is one of four kinds, told apart by what the filter and the parser do with
it.  `ApplyDefault` is the `go s.Stop()` of `apply`, `Stop` the call of
`Handler.Stop`.  `AddCrossTxs` on a block whose first payload did not parse is
called with nil entries and panics (`NilEntry`).  `Missing` names the blocks the
syncer has gone past which are neither stored, nor refused with an error, nor in
hand.

### Courier

`Handler.Stop` calls the stops of its parts one after the other; `stopPc` is the part it
is waiting for, and `Stage` one step of it.  Each goroutine of syncer, txmanager and
server has a program counter.  A queue is a set, and a block is one transaction, because
nothing here depends on order or on how many there are; that a sent batch fails or a
receipt is discarded is a choice.  The error of `Save` is one too, since it goes to `errCh`; the other
errors of a database that is open are left to `TxManager` and `BlockSync`.

`processPreTxs` sends to `errCh` twice: when a block does not parse (`parseErr`, after which what was parsed
goes on to `AddCrossTxs`, or a nil entry panics there) and when `Save` fails (`addErr`).  `syncBlock`
receives from it only at its `select`, and meanwhile it may itself be at `preTxsCh <-`: `SyncerBlocked`.
`handed` and `refused` record which transactions `processPreTxs` has taken and which `Save` refused.

| part | variables | actions |
|---|---|---|
| `Handler.Stop` | `stopPc` | `Stop`, `SyncerStopped`, `ServerStopped`, `TasksDone`, `TxmStopped`, `CloseDB` |
| `syncBlock`, `processPreTxs` inside `AddCrossTxs` | `syncPc`, `syncTx`; `procPc`, `procTx` | `FindTx`, `SyncFails`, `SyncDone`; `SendPreTxs`, `Parse`, `SendErr`, `NilEntry`, `AddPush`, `AddSave`, `AddSize`, `AddSignal`, `ProcDone` |
| `ProcessCrossTxs` and its updates | `sndPc`, `sndBatch`; `updates` | `SndWake`, `SndDrain`, `SndSend`, `SndDone`; `Update` |
| a connection and the goroutine of its receipt | `conn[q]`, `task[q]` | `Accept`, `ServeHTTP`, `Answer`; `RecvPush`, `RecvSignal` |
| `ProcessCrossTxReceipts` and its commits | `rcvPc`, `rcvBatch`; `commits` | `RcvWake`, `RcvDrain`, `RcvUpdate`, `RcvDone`; `CommitNext` |

`Server.Stop` passes a nil context to `Shutdown` (`server.go:41`).  With no request being
served `net/http` does not look at it; otherwise it waits on it, which is a panic.  This
is taken from the standard library and is the second disjunct of `ServerStopped`.

### Chaincode

An invocation is *endorsed*: simulated against the committed state, which yields
a read set and a write set in `pool`; later it is *ordered*, in any order, and
applied if no key it read has been written since.  `EndorseCommit` follows the code
past the three answers it builds without returning (`contract.go:67, 78, 87`): no
contract or a finished one ends in a nil dereference, a failed payment ends in a
finished contract.  Integers are `-Half .. Half-1` and wrap around.

### Executor

| goroutine | variables | actions |
|---|---|---|
| the caller of `Submit` or `SubmitDelayed` with task t, and the goroutine of its delay | `subPc[t]` | `SubmitTest`, `SubmitAdd`, `SubmitSend`; `DelayAdd`, `DelayOver`, `DelayDone` |
| `dispatch`, with the pool's `Submit` | `dispPc`, `dispTask`, `dispWorker` | `DispatchTake`, `DispatchWorker`, `Hand`, `DispatchDone` |
| a worker | `workerPc[w]`, `workerTask[w]` | `WorkerReady`, `WorkerInvoke`, `WorkerStopped` |
| the caller of `Stop`, with the pool's `Stop` | `stopPc`, `wait`, `stopWorker` | `Stop`, `StopDrained`, `StopWaits`, `StopWoken`, `Terminate`, `StopTasks`, `StopCollect`, `StopWorker`, `StopReturn` |

`tasks` is the buffered channel, `availableWorker` the set of the workers on the pool's
channel, whose capacity is their number.  `wg` and `taskWg` are the counters of the two
wait groups; the pool's other one counts the workers that are not `"stopped"`.  `Hand`,
`Terminate` and `StopWorker` are rendezvous.  A task is *accepted* when it is on the
channel, *begun* when a worker has it, *done* when it has returned.  `Wait` changes
nothing; it returns when `wg` is zero, and `ZeroMeansBegun` is what its caller then
knows.

The `Wait` inside `Stop` is two steps when the counter is not zero: `StopWaits` goes to sleep, the `Done` that
reaches zero wakes it, and `StopWoken` looks again.  A `Submit` that tested the state before `Stop` may
have raised the counter in between; `sync.WaitGroup` then panics ("reused before previous Wait has
returned"), which ends the process (`"panicked"`).

### Intake

The syncer scans a block transaction by transaction (`Receive`, `FilterTx`, `Ignore`: the
loop of `GetPrepareCrossTxs`), and hands what it collected to the queue under `pending.mu`
(`Add`, `AddPush`, `Added`: the first half of `AddCrossTxs`); the sender empties the queue
under the same mutex (`Drain`, `DrainPop`, `Popped`, `Drained`).  The third user of that queue, the
push back of a refused transaction without the mutex (`txmanager.go:181`), is in `TxManager`, where an operation
on a queue is one step and can be torn; the fourth, `reload`, pushes nothing.  An envelope is a record of what
decoding it answers: the validation flag, whether it unpacks, the type in its header, and
per action the name of its event, no event, or bytes that cannot be decoded.  `Outcome`
follows the checks in the order of the code: an error of `getTxEvents` leaves the event name
empty, so that the transaction is skipped (`filter.go:106`), and a header that could not be
decoded is only met when it is used (`filter.go:121`).  Envelopes that mix these are in
`MCIntake`.

`Sstack` has the stack as it is: blocks, `active`, `offset`, `size`, the comparison by a
subtraction (`Less`, modulo `Width`), and the conditions of the loops of `container/heap`
(`Rises`, `FirstChild`, `Sinks`, taken from the standard library).  A turn of such a loop is a step of
`Intake`: `heap.Push` is `AddPush`, which stores the item in the last slot, followed by `SiftUp` until the item
is in order; `heap.Pop` is `DrainPop`, which exchanges the first and the last item, `SiftDown`, and
`Popped`, which takes the last slot.  `sift` says which loop runs and at which index it stands; the mutex
is held meanwhile, so nobody sees a heap half in order.  `ImplementsQueue` maps the stack to the bag of
`PriorityQueue`, which is the queue `TxManager` uses through `Prque`: a push is done at its first step, a pop at its last, and
the turns of the loops leave the bag.  The priorities are exact as long as the keys in
the queue are close to each other (`Close`), which is what the note at `sstack.go:10` says;
`orderly` remembers whether they have been since the queue was empty.

### Args and InvokeTasks

A text is a sequence of tokens.  `Evaluate` is one pass of `evaluateExpression`, for one kind
of expression; `GetArg` makes the six passes in their order.  When an expression is not
closed, what was replaced before it is lost (`util.go:178`), which `LosesText` recognizes.
`Once` only makes TLC evaluate its argument once.

| goroutine | variables | actions |
|---|---|---|
| the command | `pc`, `submitted` | `Submit`, `Submitted`, `WaitOver`, `Report`, `Stop` |
| its ticker | `ticker` | `Tick`, `TickPrinted` |
| a worker with a multi-task | `serving[w]`, `at[w]` | `Begin`, `EvalArgs`, `Retry`, `ExecuteFails`, `Execute`, `Printed`, `Completed`, `MultiDone` |

`EvalArgs` is one step because a task evaluates its arguments with calls of its own context,
and with an atomic counter; so that the numbers of two tasks interleave as they may is in the
order of these steps.  `Completed` counts under the mutex the ticker reads under.  The
workers are those of `Executor`, at the grain of `TaskQueue`; their number is the concurrency
modulo `Width`, the range of a uint16 (`cli/config/config.go:684`).

### Commands

`session[u]` is the process of a user: its command line, SDK, selected peers, progress and
outcome.  One action per call of the SDK and per select case; a run of `Process` begins with
`Begin`, does `Work` or `Listen`, and ends with `Terminate`, which is deferred.

| commands | actions |
|---|---|
| all | `Start`, `NotInitialized`, `Initialize`, `NoOrgID` (the panic of `OrgID`), `Fails`, `Terminate` |
| `chaincode install`, `channel join` | `ForOrg`, `AllOrgs` |
| `channel create` | `Create` |
| `chaincode instantiate`, `chaincode upgrade` | `Endorse`, `Order` |
| `getinfo` and the queries | `GetInfo`, `QueryInstalled`, `QueryChannels`, `QueryInfo`, `QueryTx`, `QueryPeers`, `QueryLocalPeers` |
| `query block` | `QueryBlock`, `Traverse` |
| `listen block`, `filteredblock`, `cc` ("listen") and `tx` ("listentx") | `Register`, `TakeEvent` or `TakeTx`, `TakeEnter`, `TakeClosed`, `Unregister`; outside: `Deliver`, `CloseChannel`, `PressEnter` |

A peer may do its work and the answer be lost: `lost` in `ForOrg`, the outcomes of `Create` and
`Order`.  `Order` makes a definition valid only if nothing was defined since it was endorsed.

### Formatter and Printer

A print function is a rule: the calls of the formatter it makes and the print functions it
calls, in order (`DocumentRules` to `SpecRules`).  A function that looks at the data has a set
of right-hand sides; an array is a loop of up to `MaxItems` turns.  `todo` is what is left to
print; `Expand` replaces its head by one of its right-hand sides, and `Call` makes one call of the
formatter.  The rules are in groups (`RuleGroups`), after the parts of the file.  Both formatters are fed: `out.indent` is that of
`displayFormatter`, `out.comma` that of `jsonFormatter`, and `out.reader` reads what the latter
writes without knowing how it was written.  `Call` chooses whether the value it writes is *plain*: values stand
between quotes as `"%v"` prints them (`formatter.go:231, 290, 297`), so a quote, a backslash or a control character in
one is not escaped, and the reader has lost its place (`ReadRaw`).  `flawed` and `strays` record the calls that do not suit
their place or whose value is not plain, and are what the properties except.  Names are those in
`blockprinter.go` and are all plain.

### Glog, Logfmt and Log

`GlogHandler.Log` is cut at each of its reads: `LoadBacktrace`, `Match`, `CheckLevel`,
`CheckOverride`, `ReadCache`, `Compute`; `Verbosity`, `Vmodule` and `BacktraceAt` may come
between any two.  What is done under the RWMutex is one step.  A list of patterns is the function from
call sites to levels it stands for.  `allowed` and `denied` (`Witness`) record what the two filters
would have said at each moment while the record was under way.

`Log` puts the loggers before it (`Write`, where a record gets its context) and the stream
behind it: `Sync` evaluates lazy values and takes the mutex, `Format` makes the line,
`Written` gives the mutex back.  `Logfmt` escapes, pads and quotes values as `format.go` does, with
characters as tokens, and writes keys as they are (`format.go:189`); `ReadFields` is an independent reader: a
key ends at its equals sign, spaces before it are padding.  A lone `Ctx` in place of the arguments
(`logger.go:197`) is left out: no call passes one.

## 4. The environment

Taken from how the code is used, and not checked here:

- The courier is the only one to invoke `commit` (`CmtInvoke` is the only action that
  changes `finished`).  A commit by somebody else is a decision of the chaincode's
  users, not of this program.
- A block carries at most one transaction per contract.  Fabric invalidates the
  second of two transactions in a block that read and write one key, and the filter
  drops invalid ones.
- After a restart the syncer meets at most the last block again: `TxManager`'s
  `Restart` steps `seen` back by the batch in hand or not at all.  `BlockSync`'s
  `RedeliverAtMostOne` and `AtMostOneLostPerCrash` are what justifies it.
- A key read by an endorsed transaction and rewritten before it is ordered makes the
  transaction invalid (Fabric's concurrency check); a contract ID is a hash over the
  transaction ID, so it is fresh.
- `Send` succeeds or is refused.  The repository has only a mock of the outchain.
- Of the precommitted transactions the outchain answers only for those it was sent (`Answerable`, the guard of `Post`).
  `ServeHTTP` does not check this (`handler.go:70-97`, "TODO check crossID"): whoever can reach the endpoint could
  post a receipt for a transaction nobody sent, and then `TwoPhaseAtomicity` and the refinement
  of `CrossChain` would not hold.  Receipts for IDs nobody precommitted, repeated and late ones, are in the model.
- One goroutine starts the executor and one stops it, and each task is submitted once;
  the callers in fabric-cli do no more.  A task returns.  The queue has room for at least
  one task (`New` is called with `math.MaxInt16` or a configured length).
- `InvokeTasks` takes the executor to be what `TaskQueue` says; `Executor_stop` checks that it
  is, and a theorem says so for every instance.
- The network of `Commands` is `Network`: the peers, the ordering service and the event
  service are not code of the repository.  Every call answers, refuses or loses its answer;
  it does not hang (the SDK has time-outs).  The event service drops the events a full channel
  does not take, delivers the others in order and closes the channel at any moment.
- Every organization of the configuration has a peer, and there is at least one peer; without
  this `OrgID` would panic for a command that names nothing at all.
- A user runs one command at a time.  The discovery and selection providers are inside the
  calls of the SDK.
- In `Printer` the data of a block is a choice.  An `...OrPanic` that meets bytes it cannot
  decode ends the process, and there is nothing to say about the document after that.
- In `Log` the stream can be written to.  The settings of the log are changed at run time, as
  `GlogHandler` provides for; the courier itself sets them once.
- The kernel may kill the courier between any two steps.  A database transaction is
  atomic and durable (bolt).

## 5. The runs

All runs say `CHECK_DEADLOCK FALSE`: the system may rightly stop – no more blocks or
receipts arrive, the process is down and nobody restarts it, the syncer has stopped.

### Runs that pass

| run | instance | what it shows |
|---|---|---|
| `TxManager_faults` | one transaction and an ID nobody precommitted; two receipts, two commit goroutines; one kill; encodings, sends, database and commits may all fail | `TwoPhaseAtomicity`, `CommitRecorded`, `CompletedOnLedger`, `InitInHand`, `NeverBackToInit` and the refinement `ImplementsCrossChain` under every fault at once |
| `TxManager_live` | one transaction and an ID nobody precommitted; two posts, two commit goroutines, torn pushes; a kill, failing commits; neither sends nor the database fail | `PendingWakeup`; `InitIsSent`, `ReceiptHandled` |
| `BlockSync_faults` | all 64 chains of three blocks of four kinds; peer and database may fail; a crash | `RestartCosts` (`AtMostOneLostPerCrash`, `RedeliverAtMostOne`), `SavedInOrder`, `BlockSaved` |
| `Intake` | all pairs of precommits with three timestamps, and nine other envelopes alone, before and after one; blocks of the stack of two slots, 3-bit priorities, up to six transactions | `TakenAndKept` (`WantedCollected`, a stack without holes), `BatchInOrder`; `ImplementsQueue`: the refinement of `PriorityQueue` |
| `Chaincode_life` | two contracts, one whose call fails; payments, one that does not parse; deletes of an account and a contract; upgrades; five transactions; 3-bit integers | `LedgerAgrees` (`CommitOnce`, `StatusMatchesEvents`), `ImplementsContractLife`, `Conserved` |
| `Courier_stop` | two transactions, whose blocks may fail to parse or be refused; one receipt; token channels of capacity 1, the sender's full with the token of `reload`; a `Stop` at any moment | `StopInOrder` (`TasksOver`, `LoopsOverDb`, `HandedSaved`), `StopReturns` |
| `Executor_stop` | three callers, one with a delay; two workers; a queue of two; a `Stop` at any moment, waiting or not | `ZeroMeansBegun`, `StopCompletes`; `ImplementsTaskQueue`: the refinement of `TaskQueue`; `TaskCompletes`, `StopReturns` |
| `InvokeTasks` | invocations and queries of up to two iterations of up to two argument lists with every kind of expression; concurrency 1 to 3, where 3 is none; up to one retry (`--attempts`) | `ReportsTrue` (`CountedOnce`), `ArgsMeant` (`SeqDistinct`, `SetSeenByIteration`, `LiteralsKept`, `PanicsOnly`), `PrintsAlone`, `Finishes` |
| `Commands` | two users, two commands; each command with no, known and unknown peers and organizations; networks from an empty one to one with a chaincode; two organizations, three peers, two versions, three blocks; event channels of one place | `OutcomesTrue` (`Reported`, `Deployed`, `PanicOnlyUnknownOrg`), `PrintedInOrder`, `SdkClosedLast`, `CommandEnds` |
| `Printer` | every document, values plain or not; arrays of up to two elements; two further elements or nested groups, policies and envelopes | `DocumentsClosed`, `JsonReadable` |
| `Log` | two loggers, two call sites, two calls and a logger's context: keys with leading spaces, with an inner space and a newline, that are no strings, values to be quoted, escaped and evaluated; two changes of settings; two levels; two lists of patterns; padding up to two | `CacheFresh`, `Filtered`, `LineReadable` |

Every passing run checks the type invariant of its modules: `TxManager` and `Executor` have it
as an invariant of its own, the others as the first conjunct of one above (in brackets:
the other conjuncts).

**Why the bounds are enough.**  The races of the txmanager are between two goroutines
over one queue slot, or over one record: one transaction with two receipts in flight
is the least at which a receipt is replayed while another one arrives, and at which a batch of receipts is longer than
one (loop variable, partial failure, torn push, a receipt discarded along with an unknown one).  Two commit
goroutines push back into the queue at once.  Batches of the sender are longer than one only in the
proofs, which hold for any number of transactions.  A token channel of capacity 1 is full as soon as it can be.  One
kill and one restart reach every pair (state at the crash, record found on restart);
the safety properties that speak of restarts are proved for any number.  Three blocks are the
least with one stored, one in hand and one whose number is persisted.  Five
transactions are two precommits, two commits and one to race them; 3-bit integers
wrap around with the first payment.  In `Courier_stop` the token of `reload` fills the sender's
channel, so that the first block already waits at it, and a second one is at `preTxsCh <-` while the first
is at `errCh <-`.  A second receipt would wait at the other channel; that the loop, or `stopCh`, lets it go does
not depend on how many wait, and the theorem has any number.  Two workers and three tasks are the least with a
task waiting for a worker while another is in the queue; a queue of two is full with
the third caller behind it.

Six transactions in blocks of two slots fill three blocks, so that a queue that shrinks and grows
again enters a block that was left before, and give the heap three levels; two of the three
timestamps are exactly half the range apart, the least distance at which the
subtraction goes wrong.  Two iterations of two argument lists are the least with a variable of
an earlier task in the same iteration while another iteration runs; zero iterations, no
argument list and no worker are the numeric edges.  Of two commands each may come between
any two steps of the other, and properties of one command relate it to the network only; the
third block is the one that arrives while a traversal or a listener is under way.  An array of
two elements has a first, a later and a last one.  A second change of the log's settings is what
makes a cache stale that was filled after the first.

**Fairness.**  `TxManager`: weak fairness of each loop, and of each kind of anonymous goroutine
taken together – one of those that can step does –, because Go schedules every runnable goroutine.  Nothing is assumed of the environment: blocks and
receipts need not arrive, a refused transaction need not be accepted, a process that is
down need not be started.  A mutex is not a variable of the model (a critical section
is one step), so no stronger assumption is needed for lock acquisition.  `BlockSync`:
weak fairness of the timer, of the queries and of the rendezvous, strong fairness of
the select cases that may be enabled and disabled in turn (`stopCh`, `errCh`), because
a Go `select` picks at random among ready cases.  Nothing forces a `Stop`, a crash or
a restart.  `Courier`: weak fairness of every goroutine `Stop` waits for, of the rendezvous of the
syncer's two, and of the caller of `Stop`; blocks, requests and `Stop` itself need not
come.  Weak fairness of `SyncDone` and `ProcDone` is enough because the
transactions to find are finitely many; on a chain that goes on, it is the random choice
of `select` that gets them to `stopCh`.  `Executor`: weak fairness of a caller that has begun, of the dispatcher, of
each worker and of the caller of `Stop`; nobody need begin a call.  A caller blocked on
a full queue needs no more than that here, as each of the three calls once.
`InvokeTasks`: weak fairness of the command, of each worker and of the ticker's print; strong
fairness of `Completed`, because a Go mutex goes to a waiting writer in the end, and of
`WaitOver`, where the ticker's goroutine picks at random between its tick and the end.
`Commands`: weak fairness of each process, because each call answers or times out; nobody need press
Enter, and nothing need break a connection.

**What the liveness properties except.**  `InitIsSent` and `ReceiptHandled` except the
death of the process and, the second, a torn push; `InitIsSent` is about what this process took on, since
nothing sends what an earlier one left at `Init`.  `InitIsSent` needs sends that
succeed: a refused transaction goes back to the queue without a token and waits for the
next block (`txmanager.go:181`), and the code promises nothing more.  `BlockSaved`
excepts a stop, a crash in front of the block, and the state in which the two
goroutines of the syncer wait for each other: one in `preTxsCh <-`, one in `errCh <-`.
The `StopReturns` of `Courier` excepts a panic and the same two blockades, here with their second cause
(`SyncerBlocked`): the receiver may have taken `stopCh` and be gone while the other is at `preTxsCh <-` or `errCh <-`.
The `StopReturns` of `Executor` excepts the panic of the wait group.
`TaskCompletes` excepts the task of a `Submit` that tested the state before `Stop` and
sent it after the counter had been zero: it lies on a channel nobody reads any more.  It also excepts the panic of the wait group.
`Finishes` excepts a command without workers and one that panics, `CommandEnds` a listener whose
channel is open and whose user has not pressed Enter: that is what it is for.  That three blocks bound
the events means that a listener is not overrun by events that go on arriving.

**What the safety properties except.**  `InitInHand` excepts what an earlier process left at `Init`, what cannot
be encoded and a torn push; `HandedSaved` a block the database refused.  `BatchInOrder` and the refinement of `PriorityQueue` say
nothing of the order once keys half a range apart have met, until the queue is empty.
`SeqDistinct` and `LiteralsKept` except an argument that loses text (`util.go:178`), and
`PrintsAlone` excepts `--verbose`, with which tasks do print at once.  `JsonReadable` is about six of the
eleven documents and excepts the values of section 7 and those that are not plain; `LineReadable` says nothing
of a field whose key has a space, a newline or an equals sign in it or is empty, nor of the fields after it;
`SdkClosedLast` speaks of commands that are done or have panicked, as one whose initialization fails
leaves its SDK open; `DocumentsClosed` counts the items
`blockprinter.go:319` leaves open.

### A run that is expected to fail

`TxManager_panic` checks what `txmanager.go:194` takes for granted, that the updates to `Pending`
find their records (`UpdateSucceeds`).  The trace: queue, send and update all come before `Save`,
`Updates` finds no record, and the courier panics; no fault is needed.

## 6. The proofs

The theorems hold for every value of the constants that satisfies the named assumptions
of the modules:

- `TxManager`: any sets of IDs, receipts and commit goroutines, any capacities, any number of
  restarts and posts, any combination of failures;
- `Courier`: any sets of transactions and requests, any capacities;
- `BlockSync`: any chain, any number of crashes, any combination of failures;
- `Intake` and `Sstack`: any blocks of any length, any timestamps, stack blocks of any size, integers of
  any even width, any number of queued transactions;
- `Chaincode`: any accounts, contracts, calls and payments, any width of an int, any number of
  transactions;
- `Executor`: any finite sets of tasks and workers, any queue;
- `InvokeTasks`: any command lines (iterations, arguments, retries), any concurrency and width of it;
- `Commands`: any users, command lines, peers, organizations and versions, any network to begin
  with, any event buffer, any number of commands and blocks;
- `Printer`: any length of an array (`MaxItems`), any nesting (`MaxExtra`);
- `Glog` and `Log`: any loggers, call sites, levels, lists of patterns and calls, any number of
  changes.

| theorem about `TxManager` | statement | extra assumption |
|---|---|---|
| `TypeCorrect` | `Spec => []TypeOK` | – |
| `Atomicity` | `Spec => []TwoPhaseAtomicity` | – |
| `CommitIsRecorded` | `Spec => []CommitRecorded` | – |
| `CompletedIsOnLedger` | `Spec => []CompletedOnLedger` | – |
| `NeverBack` | `Spec => NeverBackToInit` | – |
| `Wakeup` | `Spec => []PendingWakeup` | `~SendMayFail`, `~StoreMayFail` |
| `NoneForgotten` | `Spec => []InitInHand` | – |
| `Refinement` | `Spec => ImplementsCrossChain` | – |

| theorem of `Executor_proofs` | statement |
|---|---|
| `TypeCorrect` | `Spec => []TypeOK`: no wait group's counter goes below zero, which would be a panic |
| `WaitMeansBegun` | `Spec => []ZeroMeansBegun` |
| `StopMeansDone` | `Spec => []StopCompletes` |
| `Refinement` | `Spec => ImplementsTaskQueue` |

| theorem of `Syncer_proofs` | statement |
|---|---|
| `RestartIsCheap` | `Spec => []RestartCosts`, the type invariant included |
| `StoredInOrder` | `Spec => SavedInOrder` |
| `TakenWhole` | `IntakeSpec => []TakenAndKept`, the type invariant and `InPlace` of the stack included |
| `DrainedInOrder` | `IntakeSpec => []BatchInOrder` |
| `StackIsQueue` | `IntakeSpec => ImplementsQueue` |

| theorem of `Chaincode_proofs` | statement |
|---|---|
| `StoryAgrees` | `Spec => []LedgerAgrees`, the type invariant included |
| `Refinement` | `Spec => ImplementsContractLife` |
| `MoneyConserved` | `Spec => Conserved`, when the accounts are finitely many and nobody pays himself (`BetweenTwo`) |

| theorem of `Courier_proofs` | statement |
|---|---|
| `StoppedInOrder` | `Spec => []StopInOrder`, the type invariant included |

| theorem of `InvokeTasks_proofs` | statement |
|---|---|
| `CommandReportsTrue` | `Spec => []ReportsTrue`, the type invariant included |
| `CommandPrintsAlone` | `Spec => []PrintsAlone` |

| theorem of `Commands_proofs` | statement |
|---|---|
| `EndsTrue` | `Spec => []OutcomesTrue`, the type invariant included |
| `PrintsInOrder` | `Spec => []PrintedInOrder` |
| `ClosedLast` | `Spec => []SdkClosedLast` |
| `PrinterInductive` | `PrinterSpec => []PrinterInv`, the inductive invariant of the printers |
| `DocumentsAreClosed` | `PrinterSpec => []DocumentsClosed`, the type invariant included |
| `JsonIsReadable` | `PrinterSpec => []JsonReadable` |

| theorem of `Log_proofs` | statement |
|---|---|
| `TypeCorrect` | `Spec => []TypeOK` |
| `CacheNeverStale` | `Spec => []CacheFresh` and `LogSpec => []CacheFresh` |
| `RecordsFiltered` | `Spec => []Filtered` and `LogSpec => []Filtered` |

**Safety.**  None of the properties is inductive: they speak of the ledger and the
outside world, and a step reaches those from what a goroutine holds.  `SafetyInv`
adds what is held:

- `HeldPosted` – every receipt in `posting`, in the executed queue, in the batch of
  the receipt loop or of a commit goroutine was posted (so a commit is never made up);
- `AnsweredSent` – a receipt of a precommitted transaction was posted only after the
  send;
- `FinishedCalled` – a finished contract has a commit call with its own receipt;
- `CommitPast` – whatever a commit goroutine holds, and whatever was submitted, has a
  record past `Init`; this needs that a record never goes back, which is `DbStep`;
- `LedgerBatch` – a commit in the hands of `AddCrossTxs` is of a finished contract.

A step can disturb each of them in a few actions only, and there is one lemma per
conjunct (`HeldStep`, `AnsweredStep`, `FinishedStep`, `CommitPastStep`,
`LedgerBatchStep`).  The torn pushes are covered: `AfterPush` loses or keeps elements
and makes none.

**Queues.**  `WakeInv` adds to `PendingWakeup` that the two failures do not occur.
`HandInv` strengthens `InitInHand` to transactions that are *owed*: fresh, and recorded at
`Init` or in a batch that `AddCrossTxs` has queued and not yet saved, whose update may
already be running.  A restart empties both the queue and `fresh`.

**Refinement.**  The phase of a transaction is computed from `sent`, `posted` and
`finished`.  `PhaseStep` shows from `SafetyInv` that a step changes the phase of at
most one transaction and to the next phase; `AdvanceOne` lifts that to a step of
`CrossChain`.

**Executor.**  Both counters are lowered by a goroutine that does not know who raised
them, so that they stay natural numbers is not visible in any step.  `CountInv` says who
is counted: `wg` is the callers between `Add` and the channel, plus the delays not yet
over, plus the length of the queue, plus one while the dispatcher has a task (`Counted`);
`taskWg` is the workers at work plus one while the dispatcher has a task it has not
handed over (`TaskCounted`).  A step moves one caller, task or worker from one of these
sets to another; cardinalities of finite sets do the rest.  `TaskInv` says where a task
is: a task on the channel, with the dispatcher or with a worker is there once and was
accepted (`Known`); an accepted one is in one of those places or done (`NotLost`); and
how far `Stop` has come bounds where the promised tasks may still be (`Stopping`).
`Stop` without `wait` rests on the last of these: the pool collects a worker only when
it is free.  That a `Stop` which sleeps and is woken finds the promised tasks begun needs the step that wakes it:
the `Done` that takes the counter to zero leaves nothing behind (`LastBegun`, `DoneStops`).  The refinement maps `waiting` to the dispatcher's task followed by the
queue.

**Syncer.**  `AtMostOneLostPerCrash` counts blocks, and is inductive once it is known where the
syncer is: `Place` says that the persisted number is that of the block the loop is at or of the
one before, that nothing in hand or stored is ahead of it, that nothing stored is ahead of
what is in hand, and that a process that is down has nothing in hand.  `MissingStep` then shows that no
step adds a block to `Missing` but a crash, which adds the block in hand (or a panic, which the
property excepts).  `RedeliverAtMostOne` and `SavedInOrder` follow from `Place` alone.

**The way into a batch.**  Three invariants of `Intake` are proved on top of each other (`IntakeInv`).

`Shape` is the type invariant with what it needs.  That the stack is well formed across the ends of its
blocks is a matter of slots: an index below the capacity names one slot, no two indices share one
(`SlotAt`, `SlotsDiffer`, from a division lemma), so a write changes one index (`AfterPut`,
`AfterSwap`).  `AfterExpand`, `AfterPush` and `AfterPop` then say of the three branches of `Push` and the
two of `Pop` that no other item moves and that the freed slot is nil.  `Hands` says that a loop runs only under the
lock of the one who began it, and `Contents` that the items carry the priority of their timestamp.

`HeapInOrder` says where a heap may be out of order while a loop runs: at the item the loop stands
at, above it for `HeapUp`, below it for `HeapDown`; in the second, the item to be popped, behind the heap,
comes before all others, which is why `Popped` takes a first one.  Each turn (`RiseStep`, `SinkStep`) moves the
disorder one level and each end (`RiseEnd`, `SinkEnd`) leaves none; that the root comes first follows
from a least counterexample (`RootFirst`).  All of it is about timestamps; that the comparison of
the stack is theirs is `LessMeans`.  Negation and subtraction may each overflow; `WrappedDifference` shows
that this cancels when the timestamps are less than half the range apart (`Near`), which is what
`orderly` promises (`NearWhenClose`).  `BatchInOrder` is then inductive: what `Popped` takes
is no later than what stays and, by the lock, nothing comes in before the batch is complete.

`Collected` says that what the scan has collected is placed in the block by an increasing map onto
the wanted transactions seen so far; `CollectedIsWanted` is the case analysis that the code's
order of checks picks exactly those (`Outcome` against `Wanted`).

The refinement counts: `Queued` is the number of indices that hold a transaction, `PushQueued` and
`PopQueued` add and remove one index, and `SwapQueued` gives a bijection, so the turns of the loops
are stutters (`QueueKept`, `PushIsAdd`, `PopIsTake`).

**Chaincode.**  What keeps a contract from being committed twice is not visible in its status but
in the pool: several commits of it may be endorsed at once.  `LifeInv` says of every endorsed commit
that the contract was read, so that if nothing has written the contract since (the transaction is still valid)
it is still at `Init`; and that one transaction at most creates it.  `Endorsable` says what an
endorsed transaction can write at all.  `Endorsed` is the step that adds a transaction, and `AppliedEffect`
shows that ordering a valid one deletes, creates or finishes one contract, or touches none: both the
invariant and the refinement follow from these cases.

`MoneyConserved` needs an invariant of its own, `MoneyInv`: an endorsed payment has read both
accounts, and as long as neither was written since, what it writes is computed from what they hold
now.  A valid payment therefore changes the balances it was computed from; a late one
is not valid, because one of its two reads is stale.  Each balance wraps around by
a multiple of the range of an int (`WrapAround`), and such multiples vanish in the difference
(`WrapMultiple`).  The sum over the accounts is a fold: `SumsExist` and `SumsUnique`
show, by a least counterexample instead of induction, that the equations of a sum over the subsets of
a finite set have one solution, and `SumsDiffer` how far two sums are apart when the
functions differ in two places.  `BetweenTwo` is a hypothesis the code does not enforce: a payment
from an account to itself makes money (section 7).

**Stopping the courier.**  `Stop` waits for its parts one after the other, and while it waits for
one the others still run; so what was waited for stays over only if nobody who still runs can
start it again.  `StageInv` says what each stage leaves behind: the syncer's two goroutines are
done once the server is being stopped, no connection is being served once the tasks are waited
for, and the loops of the txmanager are done before the database is closed.  That a transaction
handed over and not refused is stored (`HandedSaved`) needs who has it on its way (`HoldInv`): an absent one is
the one in the hands of `AddCrossTxs` (`UnsavedHeld`), and `AddCrossTxs` is over before the
database is.

**Tasks.**  The counters are raised by one worker at a time, but what they should be depends on all
of them.  `TaskInv` says where each iteration is – on the channel (`QueueInv`), with one worker
(`ServingInv`) or over – which makes the set of tasks that are through a state function
(`Through`): `success + errs` is its cardinality, `errs` that of its members with a last error, and
`wg` what is left of the iterations.  A step moves one task into `Through` or one iteration into
`Over`, and changes `lastErr` only of a task that is not through.  `PrintsAlone` follows from
`ServingInv`: without `--verbose` a task prints only if there is one iteration, and one
worker at a time has it.

**Commands.**  `CommandInv` has two parts per process.  `OwnInv` is what the process knows of itself:
the selected peers are those of its command line, nothing is registered outside of `"wait"` and
`"unreg"`, what a listener has printed is before what is queued, and that before the next event
(`EventsInOrder`).  `NetInv` is what it relies on in the network: peers that answered are
served, a definition that is reported is in a block.  A step of another user leaves the first
alone, and the second because the network only grows (`Grows`, `GrowsKeepsNetInv`); that the
latest definition of a growing chain exists is `LatestDefinition`.  With these a step of a process
concerns that process only (`StepOfUser`), and each action has a lemma of its own.  The panic of
`OrgID` is where the assumption on the organizations is used (`NobodySelected`).

**Printers.**  What a document will look like depends on all that is left to print, so the invariant
is about the sequence `todo`.  `Chain(R, x, p, q)` says that the positions of `x` can be labelled,
with p before its first step and q after its last, so that every step relates the labels around
it by R; chains of two parts make a chain of the whole (`ChainCat`), and one step of printing takes
the head off (`ChainHead`).  Two relations are used.  `Drifts` labels with indentations: a call changes
the indentation as `displayFormatter` does, a function leaves it alone.  `Sits` labels with places in a
JSON document: which brackets are open, and what the comma flag and the reader's last token may
be (`First`, `Member`, `Valued`, `Done`); `Called` says where each call may be made.  One lemma per group of
rules shows that every right-hand side of every function is of the right kind (`Fits`): it prints
members into any object (`Good`), a whole document (`Whole`), or, for the five documents that JSON does not
suit, at least keeps the indentation (`Flat`).  With that a step of `Expand` puts a chain in
the place of a step that leads as far (`DriftExpand`, `SitExpand`) – a collection configuration of
an unknown type is the one that leads one level further – and `CallReads` shows for each call that what
`jsonFormatter` writes takes the reader to the place `Called` promises.  `PrinterInv` is that the
chain from where the document is reaches its end; with nothing left to print the two are the same.
A value that is not plain takes the reader nowhere, and sets `flawed`, under which the second chain is not
asked for.
The labelling is an existential over functions, which TLC cannot enumerate: TLC checks the two
properties it implies, and the proof alone checks that it is inductive.

**Log.**  `CacheFresh` is preserved because `Vmodule` empties the cache in the same critical
section in which it swaps the patterns, and `Compute` reads the patterns in the one in which it
fills it: what `ReadCache` saw before may be out of date, and is not used again.  `Filtered` needs what each step has established about
the record it is at (`Established`): a record past the level check was denied by the global filter
at that moment, and a site whose patterns give it a level implies that `override` is set.
The history only grows while a record is under way (`HistoryGrows`), so what was established
stays so whatever the settings become.  In front of the stream the invariant is the same; a record
that waits for the mutex keeps what was established of it.

**Model-checked only**: the liveness properties (fairness and ENABLED are outside what
the prover handles), and `ArgsMeant` and `LineReadable`, which speak of what folds over texts and
records compute – induction over data, for which the prover has no usable theorem.  All other safety
properties and refinements of the passing runs are theorems.  `Intake` and `Printer` are the modules where
what the code does in a loop or in nested calls is cut into steps: an invariant then takes the place of
the induction over their turns.

## 7. What the code does that its documents do not say

One is checked by a run, `TxManager_panic`: the updates to `Pending` may run before `Save` and then
panic (`txmanager.go:192`).  The others were met while modelling and are built into the models.

Courier and chaincode:

- A batch of receipts stores the last one in every record: the updaters share the loop
  variable (`txmanager.go:212`).
- `Completed` is not final: a replayed receipt takes it back to `Executed` (`txmanager.go:272`),
  where the README of the courier ends with `Completed`.
- `BlockSync.Stop`, and with it the courier's, may never return: `processPreTxs` takes `stopCh` while `syncBlock` is at
  `preTxsCh <-` (`syncer.go:129`), or both send at once, one to `preTxsCh` and one to `errCh`
  (lines 162 and 186).
- After a crash nothing is reloaded.  The query of `reload` (`txmanager.go:111`) names the fields `Status` and `Timestamp`
  (`database.go:20-21`); `CrossTx` has a `TimeStamp`, and keeps its status in an interface.  The query
  fails and `Query` drops the error (`database.go:157`), so a record at `Init` stays there unsent,
  where the README has "先存入database,再发送给outchain".
- `Save` only warns of a record it cannot read, and what came in for it is not stored (`database.go:83`).
- The receipt endpoint takes any receipt for any ID at any time (`handler.go:70-97`); section 4 says what
  is assumed of the other side.
- `commit` finishes a contract whose payment failed (`contract.go:87`).
- A transaction is queued, and can be sent, before it is stored (`txmanager.go:130, 136`;
  the README says the other order).
- One unknown receipt discards the batch it is drained with (`txmanager.go:247`).
- The receipt can overtake the update, so a record goes from `Init` to `Executed`, and
  the late update then takes it back to `Pending` (`txmanager.go:191`).
- The block number is persisted ahead, so a crash loses the block in hand
  (`syncer.go:106`); `AtMostOneLostPerCrash` says how much is lost at most.
- A payment from an account to itself makes money: the receiver's balance was read before
  the sender's was written (`chaincode_example02.go:148`).  The instance of
  `Chaincode_life` has none, and `MoneyConserved` assumes there is none (`BetweenTwo`).
- Shutting down while a request is being served panics (`server.go:41`), and the parts
  after the server are then not stopped.
- A goroutine that records sends, which `Stop` does not wait for, may meet the closed
  database and panic, even if its batch is empty (`txmanager.go:191-196`, `handler.go:67`).
- `TxManager.Stop` does not wait for commits in flight: their goroutine leaves the wait
  group when it begins (`txmanager.go:264`).
- A second `commit` does not answer "replicate call commit" but panics
  (`contract.go:78`).
- `Executor.Wait` is said to wait "for all outstanding tasks to complete"
  (`../fabric-cli/executor/executor.go:134`), but the counter is lowered when a task is
  handed to a worker (line 175): `ZeroMeansBegun` is what holds.
- `Stop(false)` is said to return immediately; it collects every worker and so waits for
  every task that was handed out (`../fabric-cli/executor/worker/workerpool.go:71`).
- A delayed task that is due after `Stop` is dropped and nobody hears of it
  (`../fabric-cli/executor/executor.go:127`); one submitted at the same moment as the
  stop may be accepted and never run (line 102), or make the wait group of `Stop` panic: it raises the counter
  (108) after it was zero and before `Wait` (152) has returned.
- An error of `getTxEvents` other than a missing event leaves the event name empty, so the
  transaction is skipped (`filter.go:106`) and the branch for the error at line 115 is never
  reached; a channel header that cannot be decoded is dereferenced (`filter.go:101, 121`).

Tasks and argument expressions (`cli/chaincode/`):

- An expression that is not closed loses what was replaced before it (`utils/util.go:178`);
  `$rand(0)` panics (line 99), and so does an empty array of argument lists
  (`invokecmd.go:219`).
- `--attempts n` makes n retries, not n attempts as `cli/config/config.go:698` says.
- A concurrency that is a multiple of 65536 starts no worker, and the command hangs.
- `query` records no durations of failures.  The report of "transient errors" is never
  printed: a task keeps an error only if it is counted as one (`invokecmd.go:212`,
  `CountedOnce`).
- With `--verbose` several workers print to one printer without a lock
  (`invoketask/invoketask.go:114`, `querytask/querytask.go:100`).

Commands (`cli/`):

- The panic of `OrgID`, which "shouldn't happen" (`action/action.go:398`), happens for an unknown
  `--orgid`; `install` with one does nothing and reports success.
- `upgrade` with neither `--policy` nor `--orgid` makes a policy nobody can satisfy, where
  the comment says all known organizations (`chaincode/upgradecmd.go:146`).
- A successful `instantiate` may have found another user's version (`chaincode/instantiatecmd.go:128`).
- A listener whose channel closes wraps a nil error, and so succeeds (`event/listentxcmd.go:86`,
  `listencccmd.go:92`, `listenblockcmd.go:81`, `listenfilteredblockcmd.go:81`).
- The error of a traversal is dropped (`query/queryblockcmd.go:93`).
- `queryinstalled` returns before it defers `Terminate` when it shows its help; the order of
  peers is that of a map (`action/action.go:106`).

Printers (`cli/printer/blockprinter.go`), all with `--format json` unless said otherwise:

- Filtered blocks and channels are not JSON, because their arrays hold members without an item
  (line 216), nor are chaincodes and lists of responses, which begin with `{[` (248, 350, 426).
- A value in the place of a member (lines 319, 1118, 1128), decorations (1441) and errors written
  straight to the output (963, 975) are not either.
- A collection configuration of an unknown type leaves its item open, in both formats (319).
- Values are written between quotes without escapes (`formatter.go:231, 290, 297`): a message, a key or the name of an event
  with a quote, a backslash or a control character in it ends or breaks the string.

Log (`log/`):

- Raising the verbosity and clearing the patterns can drop a record that one of the two filters
  let through at every moment (`handler_glog.go:199-207`).
- The backtrace match makes a record of level info of every record at its call site, errors too
  (`handler_glog.go:192`).
- A key that is not a string loses its value (`format.go:170`), and neither keys (189; the comment at
  173 says so) nor the message of a record are escaped.  The courier logs a key with a leading space
  (`syncer.go:161`), which a reader takes for padding.

## 8. What is not modelled, and the plan

Left out for good:

- the flags of fabric-cli (`cli/config/config.go`) other than those the models use: they are read
  and handed on; the configuration files and the SDK set-up of the clients;
- the cache of selection providers (`cli/action/svcproviderfactory.go:93`), which the commands
  reach only through calls of the SDK, and the description files of chaincodes;
- JSON and protobuf encoding, and the names and values the printers write;
- the handlers and formats of the log that nothing here uses (files, network, buffers,
  failover, JSON), and the layout of a line before its fields;
- the shell scripts of the test network, and the data of the example chaincode beyond its
  accounts and contracts.

They have no state worth checking, or nobody uses it.

The modules were written in the order `Store`, `Prque`, `TxManager`, `CrossChain`, `BlockSync`,
`Chaincode`, `ContractLife`, `Executor`, `TaskQueue`, `Courier`, `Sstack`, `PriorityQueue`,
`Intake`, `Args`, `InvokeTasks`, `Glog`, `Logfmt`, `Log`, `Formatter`, `Printer`, `Network`,
`Commands`, most important behaviour first; the theorems came last.  What is open: a proof for the two properties
that are only model-checked although they are safety properties (section 6).  It would need an
induction over the folds of `Args` and `Logfmt`, or to make steps of
them, which would give up the grain of the code, where each of them is one call.
