# TLA+ models and proofs for Ortrix

Ortrix is a task orchestrator written in Go. A gateway accepts tasks, an
execution engine moves them through a state machine and logs every change
before it makes it, a partition manager spreads tasks over orchestrator nodes,
and workers receive tasks over streams that reconnect by themselves. This
directory models the parts that are implemented, checks them with TLC on small
instances and proves the central properties with TLAPS for every instance.

## 1. Inventory of the system

| Component | State | Operations | Interaction | What is hard |
|---|---|---|---|---|
| Task state machine (`internal/task`) | state, payload, result, error, attempts, timestamps of a task | `NewTask`, `TransitionTo`, `CanRetry`, `Copy` | called by the engine under its lock, `Copy` also without it | state and its fields are assigned one after the other |
| Write-ahead log (`internal/wal`) | entries, sequence, committed | `Append`, `Replay`, `Checkpoint`, `Close` | called by the engine; mutex of its own | positions against sequence numbers |
| Execution engine (`internal/executor`) | map of tasks, index by workflow, sequence counter | `CreateTask`, `TransitionTask`, `CompleteTask`, `FailTask`, four queries, `Checkpoint`, `Close` | appends to the log under `e.mu`; checkpoints and copies without it | log and memory change in two steps; appends fail; ids are clock readings |
| Gateway service (`internal/gateway`) | none of its own that is used | `SubmitTask`, `GetTaskStatus`, `handleTaskResult` | one engine call each | results that come late or twice; answers copied without a lock |
| Partition manager (`internal/partition`) | nodes, owner of each partition | `RegisterNode`, `UnregisterNode`, `Rebalance`, `AssignPartition`, `GetOwner`, `GetPartitions` | engine asks it for the partition of a task; each process has its own | order of a Go map |
| Stream manager (`internal/streaming`) | connection, isConnected, retry count, backoff | `Connect`, the reconnection loop, `MarkDisconnected`, `Close` | callbacks into the worker, some under `sm.mu` | loop, stream goroutines, callbacks and Close interleave |
| Worker SDK (`pkg/sdk`) | handlers, connected flag, client, statistics | `RegisterHandler`, `Start`, `processStream`, `processTask`, `Stop` | owns a stream manager and is called back by it | streams of old connections live on; Stop races with everything |
| Processes (`cmd/gateway`, `cmd/orchestrator`) | servers, open calls and requests | start, signal, graceful stop; handlers that answer with constants | none with the engine yet | main and the goroutine that stops the servers race |
| Scheduler, routing | none | placeholders | not called | |
| Config, logging, generated code | none | | | |

What makes each part correct: the log is ahead of memory by one entry at most
and memory never holds a state that was not logged (engine); a task follows the
transition table and never changes its outcome (engine over task); Replay
returns exactly what was not committed (log); an accepted task is kept, and an
outcome told to a client came from a worker and stands (gateway); every
partition has one registered owner and loads are even (partitions); a lost
stream comes back, Close ends the loop, and no live connection is replaced
(streams); every task executed is counted once and Stop ends all that runs
(worker); a clean exit cuts nobody off (processes). `PROJECT.json` lists under "hazards"
where each of these could go wrong.

## 2. Modules

| Module | Models | Extends or uses |
|---|---|---|
| `TaskState` | `internal/task`: states, table, fields (constant level) | |
| `TaskLifecycle` | abstract specification: what the engine promises about a task | `TaskState` |
| `WriteAheadLog` | `wal.InMemoryLogger` | |
| `Engine` | `executor.Engine` over its log | `TaskState`; instances of `WriteAheadLog` and, for the refinements, `TaskLifecycle` |
| `EngineReads` | the queries and `Task.Copy`, racing with the engine | `Engine` |
| `Gateway` | `gateway.GatewayService` and `WorkerServiceHandler` over the engine and its queries, with clients and workers | `EngineReads` |
| `PartitionManager` | `partition.DefaultManager`, several of them | |
| `StreamManager` | `streaming.StreamManager`, with callbacks that succeed or fail | |
| `Worker` | `sdk.Worker` over the stream manager, with what the callbacks do | `StreamManager` |
| `ServerProcess` | `main` of `cmd/gateway` and `cmd/orchestrator`, and their handlers as calls that return | |
| `MC*` | instances for TLC | one module each |
| `*Proofs` | theorems | the module they are named after; `EngineLifecycleProofs` also `EngineProofs`, `GatewayProofs` also both, `WorkerProofs` also `StreamManagerProofs` |

There are two compositions: clients, workers' results, the engine, its log and
the racing queries (`Gateway`), and the worker with its stream manager
(`Worker`). The two sides meet only in the messages workers send, which
`Gateway` keeps as a set that grows: the orchestrator's `StreamTasks` does not
pass them on yet.

Definitions whose name begins with `Mutant` are wrong versions of the definition
after them. No specification uses them; each makes one property fail, which
shows that the property depends on that piece of code.

### Engine and log

A call that changes a task holds `e.mu` throughout, so at most one is in
progress. It is split into the steps others can see between: `Begin...` (the
checks, and for `CompleteTask`/`FailTask` the assignment of the result or error
that precedes the append), `AppendOK` or `AppendFails`, and then `StoreTask`,
or `ApplyState` and `FinishTransition` (the two halves of `TransitionTo`).
`Checkpoint` and `Close` take the log's mutex only and can come between any two
of them. `Checkpoint` takes a number from its caller, and the only caller in the
repository, a test, passes the last number `Replay` returned, which may belong
to a call that has not applied its entry yet. `CheckpointEngine` therefore passes
any number, at any time: the log refuses those it has not assigned. An entry can
be committed before its effect is in memory, but only that of the call in
progress (`CommittedIsApplied`).

The `Logger` is an interface: `WalMayFail` lets an append fail without effect.
`InMemoryLogger.Append` fails for empty fields only, which callers refuse
before. Calls that return an error before they change anything are no steps.

Task ids are pairs of workflow and clock reading, and readings are numbered in
the order of their first use. `ClockMayRepeat` says whether a call can read a
`UnixNano` that was read before: the wall clock may be coarser than two calls or
be set back, and nothing in `CreateTask` looks whether the id is taken. The run
`task_ids` sets it to TRUE and finds two tasks with one id. Once an id is given
twice a task starts anew under it, and no statement about the life of a task
holds; so `engine` and `gateway` set it to FALSE. The theorems of `EngineProofs`
hold for both values, and those that need it name the assumption.

`TransitionTask` accepts any state, also COMPLETED and FAILED; the run `engine`
includes these targets. In `gateway` callers complete and fail tasks with the
methods meant for it, as the service does; `OutcomeIsLogged`, `ToldIsLogged` and
`AnswersWereReported` are statements about those callers (`OutcomesByResult` in
the proofs). A handler may return no output, and an empty field arrives as nil:
`Nil` is one of the results a completion can store, in both runs.

### Reads

A query collects pointers under a read lock and copies afterwards without it.
`Task.Copy` races with the writer; Go leaves the outcome open, and the model
lets the two words of the state string be read in either order at any two
moments. The result, a slice, is read twice: with the structure
(`CopyStructResult`; `TearStructResult` mixes the words of two results into
`Torn`), and again after it, in one step. The second read replaces the first
only if it is not nil (`CopyResult`). Memory is otherwise sequentially consistent
for each goroutine, as on amd64.

So the copy of a task that completed without an output can hold what a completion
whose append failed had left in the task, and a client can be told COMPLETED with
an output that the log does not have. `CompletedCopyHasResult`, `ToldIsLogged`,
`FinalAnswerStands` and `AnswersWereReported` claim the output only of tasks that
ended with one, and the status of all; they say so in their comments.

### Gateway

A client submits (`SubmitTask`, whose `CreateTask` runs in the engine's steps
until `SubmitAccepted` or `EngineFails`) and polls (`GetTaskStatus` collects the
task, `CopySteps` copy it word by word, `StatusReturned` answers). Workers
report on every attempt that was dispatched, also on one that was given up since
(`WorkerReports`); a report stays in `sent` and `handleTaskResult` may apply it
at any time and any number of times. `Dispatch` stands for the scheduler, which
does not exist yet. The other queries of the engine, which no handler calls,
run beside all this (`Query`).

### Partitions

`rebalancePartitions` goes through a Go map, whose order is open: `RoundRobin`
is the set of all outcomes. Several managers stand for several processes, which
learn of nodes independently; there is no protocol between them in the code.

### Streams

`caller` is the goroutine in `Connect`, `loop` the reconnection loop, `dropping`
the stream goroutines between the locked half of `markDisconnected` and its
callback. `MuFree` guards every section under `sm.mu`; `Connect` holds it across
the callback. `Connect` does not look whether the manager was closed, and can be
called on one that was; it is not called again after it has succeeded, which no
code does. `CallbackReadsConnection` chooses between a callback like those of
the manager's own tests, which ask it for nothing, and the worker's, which calls
`GetConnection` first. `maxRetries` is the manager's configuration, chosen at the
start. The retry count saturates at `CountCap`, above the largest limit. The
backoff is an integer number of units, and `Grown` says what the configured
multiplier makes of each value: any function that does not shrink it in the
proofs, the default 1.5 in the runs.

`MaxRetries` is "the maximum number of reconnection attempts", and the code does
not keep that: a dial does not wait for the server, so it nearly always succeeds
and resets the count before the callback has run. No property is stated about
the count.

### Worker

`Worker` runs the manager's actions and adds what the callbacks do: `OpenStream`,
`SetConnected`, `Registered` or `RegistrationFails` are `onConnected`, split at
its assignments; `SetDown` and `UnsetClient` (for a stream), `LoopSetsDown` and
`LoopUnsetsClient` (for the loop) are `onDisconnected`. Every stream has a
goroutine `processStream`: test of `done`, `Recv`, the handler, the statistics,
`Send`, and `MarkDisconnected` where a call failed. A failing `Recv` ends the
goroutine, a failing `Send` does not. Streams of replaced connections live on,
since their context is cancelled by `Stop` only. `Stop` is four steps: close
`done`, cancel the context, close the manager, close the client. `current` and
`hist` are history variables.

As the code is, the first `Connect` waits for itself (run `stream_start`) and no
worker gets a stream (`WorkerNeverServes`). The run of `Worker` sets
`CallbackReadsConnection` to FALSE: it is about what remains once that is
repaired. `StopReturns` is stated for both: it excepts the state `ConnectStuck`,
in which, as the code is, `Stop` waits forever for the lock (`DialStopsManager`).

The result of a task whose `Send` fails is dropped, so nothing is claimed about
results that arrive; `EveryTaskCounted` is about the statistics alone. A stream
of a replaced connection that fails late marks the new connection disconnected,
and a late `onDisconnected` clears the client of the new stream: both are
behaviours of this module that today's code cannot reach, and no run singles
them out.

### Processes

`main`, the goroutine that waits for the signal and the goroutine of the HTTP
server are the three processes. Calls and requests are open for as long as their
clients like: a worker stream and a reflection stream wait for the next message,
an HTTP request for its body, which the server gives no time limit. The gRPC server is external and modelled by its documentation:
`Serve` returns nil once `GracefulStop` has returned, and an error if the server
was stopped before. `ProcessInit` chooses the program.

## 3. Runs

| Run | Shows |
|---|---|
| `wal` | contiguous numbers; Replay is exact on an open log |
| `engine` | write-ahead, counters, checkpoints of any number, index; memory and, until Close drops it, the log follow `TaskLifecycle`; appends may fail |
| `gateway` | what clients can rely on while results come late or twice, appends fail, the engine is closed and answers are copied without the lock; attempts and outcomes are as logged, and the log ends with what clients were told, outputs of tasks that ended without one excepted |
| `partitions` | owners are registered and even |
| `stream` | decisions are not stale; Close ends the loop; reconnection; Connect returns |
| `worker` | every executed task is counted once; with a Connect that does not block, Stop returns, leaves at most one more task per stream, and all streams end |
| `process` | a clean exit cuts off no gRPC call; a signal ends the process once no gRPC call is open |

The other runs are violated; each is one statement of the repository's comments
or documents that the code does not keep, with its finding in `PROJECT.json`:

| Run | Statement and what happens |
|---|---|
| `task_ids` | "ID is the unique identifier": a clock reading that repeats gives it twice |
| `partitions_disagree` | "sorted list of node IDs": it is not sorted |
| `stream_start` | "Connect establishes a connection ...": with the worker's callback it waits for itself |
| `stream_close` | "Close closes ... underlying connection": not the one the loop stores when Close came after its dial |
| `gateway_shutdown` | "Graceful shutdown": main returns once the gRPC server has stopped and cuts off open HTTP requests |

The models also contain these behaviours of the code, which no run singles out:

- log and engine: entries appended after a checkpoint and a `Close` are missing
  from `Replay` (`ReplayExact` is about logs that were not closed); a slower
  checkpointer sets the committed number back; a checkpoint commits the entry of
  a call that has not applied it; a completion whose append failed
  leaves its result in a DISPATCHED task; a task can be dispatched more than
  `MaxAttempts` times; tasks of one workflow are on different partitions, since
  the task id is hashed and not the workflow id;
- reads: a copy's state string can mix two states; asked for a state
  that is not terminal, `GetTasksByState` can return a task in a later one; a
  FAILED answer, and a COMPLETED one of a task that ended without output, can
  carry the output a failed completion left behind;
- gateway: the id in a request is ignored, so a client that repeats a submission
  creates a second task; a result of an attempt that was given up decides the
  task that was dispatched again; of two reports the first wins;
- streams and worker: a dial that succeeds resets the retry count before the
  callback has run; replaced connections are never closed; `Connect` on a closed
  manager stores a connection nobody closes; a stream of an old connection marks
  the new one; a late
  `onDisconnected` sets `connected` to false and the client to nil after a
  reconnection; `IsConnected` stays true after `Stop` if no stream was marked;
- processes: `GracefulStop` waits for worker streams and reflection streams
  without a limit; a signal between `Notify` and `Serve` ends in a fatal error.

### Bounds

- `engine`: two workflows, two clock readings (four task ids) and five log
  entries: a task is created, scheduled, dispatched, and completed or sent back,
  and several tasks interleave with checkpoints and a Close. `task_ids` is the
  same instance with a clock that may repeat.
- `gateway`: one workflow, one client and one task, with seven log entries: the
  task can be created, dispatched, given up and dispatched again (six entries)
  and then completed or failed, so the reports of two attempts compete, with two
  different results and with none. Clients and readers do not affect each other, and tasks share
  only the lock and the log, which `engine` covers with four ids; the theorems
  hold for any number. The states are told apart by `OpenLog`, a view without the
  entries a closed log still gets: every property about entries is about an open
  one, and no step reads them. The two results are symmetric: only their equality
  is looked at.
- `wal`: five entries, two records, every checkpoint number.
- `partitions`: five partitions, a multiple of neither two nor three nodes.
- `stream`: two streams, so that a late callback of one can meet the other;
  backoffs 4, 6, 9, 10 reach the cap; no limit and a limit of two retries.
- `worker`: two streams, an old one and its successor, and two tasks, so that a
  stream can receive before and after Stop or both streams execute at once. The
  backoff is fixed, since `stream` covers it.
- `process`, `gateway_shutdown`: two calls and two requests, so that one can end and the other stay.

A bounded log and clock stop the engine, so the engine and gateway runs do not
check deadlock. A stream manager that was closed, a worker that was stopped and
a process that has ended stop as well. `wal` and `partitions` never stop and
check it.

### Fairness

- `StreamFairness`: weak fairness of every goroutine of the manager (Go's
  scheduler runs what can run, timers expire) and strong fairness of a dial and
  of a reconnection callback succeeding: an assumption about the server, which is
  reachable again and again. Nothing is assumed of `Connect` being called, of
  streams ending or of `Close`.
- `WorkerFairness`: weak fairness of the manager, of every stream's goroutine
  (handlers return) and of `Stop` once it was called. A `Recv` returns for
  certain only when its context is cancelled. Strong fairness of `Close` getting
  `sm.mu`, although others take it again and again: Go's mutex hands itself to a
  waiter that has waited long. No server is assumed to be reachable.
- `ProcessFairness`: weak fairness of the three goroutines. Nothing is assumed of
  signals, clients and workers, and so not that a call or a request ever ends;
  `SignalEndsProcess` is about processes whose gRPC calls have ended.

The other modules state safety only.

## 4. Proofs

All theorems hold for every value of the constants, under the ASSUMEs of the
modules (bounds are naturals, the hash is a function to naturals, the sets of
nodes and of streams are finite, the initial backoff is not above the cap, the
values that stand for "none" are none of the others).

- `EngineProofs`. `EngineInv` is inductive: types, what the call in progress may
  hold (`RequestInv`: its transition is allowed), the counters (`CountersInv`:
  the counter and the committed number against the log), `WriteAhead`, that the
  entry of the call in progress is the last of the log (`InFlightLogged`), the
  index, and that ids above the clock are unused (`FreshIDs`). `WriteAhead` alone
  is not inductive: after an append the new last entry has to be that of the
  call in progress. One lemma per conjunct, one step per action. From it follow
  `TypeCorrect`, `LogIsWrittenAhead`, `TransitionNeverRejectedAfterAppend`,
  `CheckpointsCommitAppliedEntries`, `CounterFollowsLog` and `IndexIsExact`, with
  failing appends, Close, repeating ids and checkpoints of any number allowed.
- `EngineLifecycleProofs`, on top of `EngineInv`.
  - `EngineImplementsLifecycle`: memory refines `TaskLifecycle`.
  - `LogImplementsLifecycle`: the log refines it too. An append is `Appear`,
    `Move` or `End`, and nothing else is seen. `LastEntry` is a CHOOSE, so the
    proof adds that a task with an entry has a last one (`LastExists`, inductive)
    and that it is unique; before the append the log shows the state memory has
    (`LogShowsMemory`, from `WriteAhead`), so the transition the call checked
    against memory is one of the log.
  - `AttemptsAreRecoverable`: the DISPATCHED entries of a task are counted as a
    set of positions, one is added by each append and `attempts` follows in
    `FinishTransition`. A new task starts without entries, which needs fresh ids.
  - `OutcomesAreRecoverable`. `OutcomeIsLogged` is not inductive: a completion
    whose append failed leaves its result in a DISPATCHED task. The invariant is
    that the data of a call in progress is what it stored (`RequestStored`) and
    that a task has an entry for an outcome exactly if it has ended with it or is
    about to, one entry, with the data that is stored (`OutcomeEntries`).
  - `EngineUsesLog` (a behaviour of the engine is one of `WriteAheadLog`) and
    `EngineReplayIsExact`, whatever numbers checkpointers pass. Positions and
    numbers are related by `Numbered`.

  All but the last group assume that no two calls read the same clock value;
  `OutcomesAreRecoverable` also that `TransitionTask` is not used to complete or
  fail tasks (`OutcomesByResult`), without which it is false.
- `GatewayProofs`. `GatewayRunsEngine`: every behaviour of the service is one of
  the engine, so `EngineInv` holds under it. `SubmissionsAreKept` follows by
  relating the ids given out to the tasks that exist. What is copied without the
  lock rests on `FrozenTask`: a terminal task keeps its state and its result.
  `ReadersOK` is the invariant: bytes that name a terminal state are still true
  and so is a result read after them (`FinalOK`), a task that was selected or answered in a terminal state shows a
  copy nothing else (`WantedOK`, `ToldOK`, through `ReadOnly`), and what is to be
  copied exists (`RefsOK`). From it follow `TerminalCopiesAreFinal`,
  `TerminalQueriesAreExact`, `QueriesFindTheirTasks`, `OutcomesToldStand`,
  `CompletedCopiesHaveResults` and `GatewayTypeCorrect`, assuming unique clock
  readings. `ToldWasReported` adds that outcomes, the calls that will store one
  and the results copies hold have a report behind them (`OutcomesReported`,
  `CopiesReported`), assuming `OutcomesByResult`. `ToldIsRecoverable` joins the two halves: what a client was
  told is what memory holds (`ToldOK`), no call is about to move a task that has
  ended, so the last entry about it is the one `OutcomeEntries` speaks of.
  `GatewayLogsOutcomes` carries the engine's theorems over, and
  `ClientsAreToldTheSame` compares any two clients.
- `WriteAheadLogProofs`. `ReplayIsExact`, `SequencesStayContiguous` and
  `WalTypeCorrect`, from an invariant that relates position, number and, while
  open, length.
- `PartitionManagerProofs`. The invariant is that the owners are a round robin of
  the nodes known, in some order. `PartitionTypeCorrect` and
  `PartitionsHaveRegisteredOwners` follow from its range.
  `PartitionsAreSharedEvenly`: the partitions of a node are those with one
  remainder modulo the number of nodes (`RoundRobinShares`), and shifting by the
  difference of two remainders maps one such set into another, all but at most
  one element (`SharesAreEven`). Nothing in that depends on the order, hence
  `ManagersAgreeOnLoads`: managers with the same nodes disagree on who owns a
  partition (run `partitions_disagree`), never by more than one on how many.
- `StreamManagerProofs`. `LoopReplacesOnlyDisconnected`, from the fact that a
  loop exists only after Connect returned; `StreamTypeCorrect`, with the range of
  the backoff for any multiplier of at least one.
  With the worker's callback (`CallbackReadsConnection`), `ConnectNeverSucceeds`
  and `DialStopsManager`: what run `stream_start` finds in one instance happens
  in every one, and Close waits forever too. `CloseMissesAtMostOne` bounds what
  run `stream_close` finds: the loop of a closed manager with an open connection
  is not about to store another (`LateInv`). `ClosedLoopIsBounded` is the safety half of
  `CloseEndsLoop`: after Close every step of the loop lowers a rank
  (`LoopRank`), so that fairness of the loop is all the other half needs.
- `WorkerProofs`. `StatisticsAreExact`: the streams that execute are counted, and a
  stream begins or stops executing together with a counter.
  `StopBoundsTasks`: a stream that is receiving has received nothing since Stop.
  `StoppedStreamsAreBounded`: after Stop every step of a stream lowers a rank
  (`StreamRank`), the safety half of `StreamsEndAfterStop`.
  `WorkerTypeCorrect`. `WorkerRunsManager`: the steps of the worker are steps of
  the manager, so `WorkerManagerIsSafe`. `CallbackStartsItsStream`, from
  `CallbackInv`: while `onConnected` works on a stream, the goroutine that runs it
  does not move and no other connection is stored. `DisconnectsAreNotified`: the
  set `dropping` of the manager is the set of goroutines that are running
  `onDisconnected`. These are for either callback; `WorkerNeverServes` is for the
  one the code has.
- `ServerProcessProofs`. `CleanExit` and `ProcessTypeCorrect`: once
  `GracefulStop` has returned no call is open, and none is accepted any more.
  `RequestsCutOnlyDuringShutdown`: what run `gateway_shutdown` finds is the only
  way a clean exit cuts off a request.

Every invariant and every safety property that a passing run checks is proved.
Only model-checked: the liveness properties (`CloseEndsLoop`, `Reconnects`,
`ConnectCallReturns`, `StopReturns`, `StreamsEndAfterStop`,
`SignalEndsProcess`), since fairness and ENABLED are out of the reach of the
prover. That the five statements of the violated runs fail is shown by their
counterexamples.

## 5. Not modelled

Scheduler and routing keep no state and are called by nothing. `StreamTasks` of
the gateway returns at once, and `GetWorkerStats` reads a map no code writes.
Configuration, logging and generated code have no logic of their own. The
handlers in `cmd/` answer with constants: what they answer is left out. `CanRetry`
holds only in states without a way out and is called by nothing. A second `Stop`
of a worker panics on the closed channel; the model calls it once. `NoOpLogger`
discards everything. Timestamps are read by no decision, so a copy that is
COMPLETED and has no `CompletedAt` yet is not visible here, nor is the error text
of an answer, which can be torn. A crash loses everything, since the only
implemented log is in memory and nothing calls `Replay` at start: there is no
recovery code to model.

## 6. Plan

1. Proofs: ranks like those of the loop and of the streams for `Stop` and for the
   shutdown of the processes. When Connect no longer runs its callback under the
   lock: what a stream of an old connection may do to the new one.
2. When the orchestrator hands results to the engine and a scheduler dispatches
   tasks: replace `Dispatch` and `WorkerReports` by those components and compose
   `Gateway` with `Worker`.
3. When a log that survives a crash exists: a restart that replays it, for which
   `LogFollowsLifecycle` and `OutcomeIsLogged` say what it will find.
