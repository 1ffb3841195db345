------------------------------- MODULE Worker -------------------------------
(***************************************************************************)
(* sdk.Worker over the stream manager it owns: the callbacks the manager   *)
(* runs, the goroutine processStream of every stream they open, the tasks  *)
(* these execute, the statistics, and Stop.                                *)
(*                                                                         *)
(* onConnected opens a stream, sets w.client, sets w.connected, registers  *)
(* and starts the goroutine; onDisconnected resets w.connected and then    *)
(* w.client.  Each assignment has a mutex of its own, so the two callbacks *)
(* interleave between assignments.  The context of a stream is a child of  *)
(* w.ctx and is cancelled by nothing else: a stream whose connection was   *)
(* given up lives on beside the one that replaced it.                      *)
(*                                                                         *)
(* With CallbackReadsConnection TRUE, as the code is, Connect waits for    *)
(* itself and no worker ever has a stream (run stream_start).  The runs of *)
(* this module set it to FALSE: what remains once that is repaired.        *)
(***************************************************************************)
EXTENDS StreamManager, FiniteSets

CONSTANTS TaskTypes,   \* types of tasks the orchestrator may send
          MaxTasks,    \* bound: tasks received over all streams
          NoStream     \* the nil client

ASSUME WorkerAssumption ==
    /\ MaxTasks \in Nat
    /\ NoStream \notin Streams
    /\ IsFiniteSet(Streams)

VARIABLES handlers,   \* task types with a registered handler
          client,     \* w.client
          connected,  \* w.connected
          cb,         \* how far the callback is that Connect or the loop runs
          st,         \* per stream: its goroutine, and where that goes on
          stop,       \* how far Stop is
          stats,      \* TasksProcessed, TasksFailed
          current,    \* history: the stream opened on the connection sm.conn
          hist        \* history: tasks received, in all and after Stop

taskVars   == <<stats, hist>>
workerVars == <<handlers, client, connected, cb, st, stop, stats, current, hist>>
allVars    == <<streamVars, workerVars>>

\* free: not opened yet; opened: not registered; top, recv: processStream;
\* run: the handler; send: its result; mark, down, unset: MarkDisconnected and
\* its callback, after which the goroutine goes on at "then".
StreamPcs == {"free", "opened", "top", "recv", "run", "send", "mark", "down",
              "unset", "ended"}

WorkerTypeOK ==
    /\ handlers \subseteq TaskTypes
    /\ {client, current} \subseteq Streams \cup {NoStream}
    /\ connected \in BOOLEAN
    /\ cb \in {"none", "opened", "up", "down"}
    /\ st \in [Streams -> [pc : StreamPcs, then : {"top", "ended"}, known : BOOLEAN]]
    /\ stop \in {"no", "cancel", "close", "client", "stopped"}
    /\ stats.processed \in 0..MaxTasks
    /\ stats.failed \in 0..stats.processed
    /\ hist.got \in 0..MaxTasks
    /\ hist.late \in [Streams -> 0..MaxTasks]

At(pc) == [pc |-> pc, then |-> "top", known |-> FALSE]

WorkerInit ==
    /\ StreamInit
    /\ handlers = {}
    /\ client = NoStream /\ current = NoStream
    /\ connected = FALSE
    /\ cb = "none"
    /\ st = [s \in Streams |-> At("free")]
    /\ stop = "no"
    /\ stats = [processed |-> 0, failed |-> 0]
    /\ hist = [got |-> 0, late |-> [s \in Streams |-> 0]]

\* w.done is closed; w.ctx is cancelled.
Stopping  == stop # "no"
Cancelled == stop \in {"close", "client", "stopped"}

Goto(s, pc) == st' = [st EXCEPT ![s] = At(pc)]

RegisterHandler(t) ==
    /\ t \notin handlers
    /\ handlers' = handlers \cup {t}
    /\ UNCHANGED <<streamVars, client, connected, cb, st, stop, stats, current, hist>>

-----------------------------------------------------------------------------
(* The manager, and the callbacks it runs in Connect or in the loop.       *)

\* Steps of the manager that concern no stream.
ManagerStep ==
    /\ \/ CallConnect \/ ConnectDialFails
       \/ LoopTick \/ LoopExit \/ GiveUpAttempt \/ BeginAttempt
       \/ SleepEnds \/ SleepCancelled \/ DialFails \/ DialSucceeds
       \/ LoopMarks
    /\ UNCHANGED workerVars

NewConnection ==
    /\ ConnectDials \/ Reinstall
    /\ current' = NoStream
    /\ UNCHANGED <<handlers, client, connected, cb, st, stop, taskVars>>

\* GetConnection, StreamTasks on the connection, and w.client.  The loop can
\* find the connection marked disconnected or closed; no stream opens once
\* w.ctx is cancelled.
OpenStream(s) ==
    /\ cb = "none"
    /\ caller = "locked" \/ (loop = "callback" /\ connOpen /\ isConnected)
    /\ CanRunCallback
    /\ ~Cancelled
    /\ st[s].pc = "free"
    /\ client' = s
    /\ current' = s
    /\ cb' = "opened"
    /\ Goto(s, "opened")
    /\ UNCHANGED <<streamVars, handlers, connected, stop, taskVars>>

SetConnected ==
    /\ cb = "opened"
    /\ connected' = TRUE
    /\ cb' = "up"
    /\ UNCHANGED <<streamVars, handlers, client, st, stop, current, taskVars>>

\* The stream onConnected has opened and not started yet.
Opened == CHOOSE s \in Streams : st[s].pc = "opened"

\* sendRegistration succeeds, the goroutine is started, the callback returns.
Registered ==
    /\ cb = "up"
    /\ ConnectReturns \/ ReconnectReturns
    /\ cb' = "none"
    /\ Goto(Opened, "top")
    /\ UNCHANGED <<handlers, client, connected, stop, current, taskVars>>

\* sendRegistration fails: the stream is cancelled, w.client keeps it.
RegistrationFails ==
    /\ cb = "up"
    /\ ConnectCallbackFails \/ ReconnectCallbackFails
    /\ connected' = FALSE
    /\ cb' = "none"
    /\ Goto(Opened, "ended")
    /\ UNCHANGED <<handlers, client, stop, current, taskVars>>

\* No connection, or no stream on it: the callback returns the error.
OpenFails ==
    /\ cb = "none"
    /\ ConnectCallbackFails \/ ReconnectCallbackFails
    /\ UNCHANGED workerVars

\* onDisconnected, run by the loop after its callback failed.
LoopSetsDown ==
    /\ loop = "notify"
    /\ cb = "none"
    /\ connected' = FALSE
    /\ cb' = "down"
    /\ UNCHANGED <<streamVars, handlers, client, st, stop, current, taskVars>>

LoopUnsetsClient ==
    /\ cb = "down"
    /\ LoopNotifies
    /\ client' = NoStream
    /\ cb' = "none"
    /\ UNCHANGED <<handlers, connected, st, stop, current, taskVars>>

CallbackStep ==
    \/ \E s \in Streams : OpenStream(s)
    \/ SetConnected \/ Registered \/ RegistrationFails \/ OpenFails
    \/ LoopSetsDown \/ LoopUnsetsClient

-----------------------------------------------------------------------------
(* processStream and processTask.                                          *)

\* Steps of a stream's goroutine that touch neither manager nor callbacks.
StreamOnly == UNCHANGED <<streamVars, handlers, client, connected, cb, stop, current>>

MutantCheckDone(s) ==
    /\ st[s].pc = "top"
    /\ Goto(s, "recv")
    /\ StreamOnly
    /\ UNCHANGED taskVars

CheckDone(s) ==
    /\ st[s].pc = "top"
    /\ Goto(s, IF Stopping THEN "ended" ELSE "recv")
    /\ StreamOnly
    /\ UNCHANGED taskVars

\* Recv returns a task, possibly one that was buffered before w.ctx was
\* cancelled, and processTask looks its handler up.
ReceiveTask(s, t) ==
    /\ st[s].pc = "recv"
    /\ hist.got < MaxTasks
    /\ st' = [st EXCEPT ![s].pc = "run", ![s].known = t \in handlers]
    /\ hist' = [hist EXCEPT !.got = @ + 1,
                            !.late[s] = IF Stopping THEN @ + 1 ELSE @]
    /\ StreamOnly
    /\ UNCHANGED stats

\* An acknowledgement, an unknown message or none.
ReceiveOther(s) ==
    /\ st[s].pc = "recv"
    /\ Goto(s, "top")
    /\ StreamOnly
    /\ UNCHANGED taskVars

RecvFails(s) ==
    /\ st[s].pc = "recv"
    /\ st' = [st EXCEPT ![s].pc = "mark", ![s].then = "ended"]
    /\ StreamOnly
    /\ UNCHANGED taskVars

MutantBackgroundContext(s) == FALSE

\* The context of the stream is a child of w.ctx.
RecvCancelled(s) == Cancelled /\ RecvFails(s)

MutantCountsFailuresOnly(ok) ==
    [stats EXCEPT !.failed = IF ok THEN @ ELSE @ + 1]

MutantCountsNothingFailed(ok) ==
    [stats EXCEPT !.processed = IF ok THEN @ + 1 ELSE @]

recordTaskProcessed(ok) ==
    [stats EXCEPT !.processed = @ + 1, !.failed = IF ok THEN @ ELSE @ + 1]

\* Without a handler the result is a failure; a handler returns an error, a
\* result that says either, or nil for success.  The task is counted before
\* its result is sent.
FinishTask(s, ok) ==
    /\ st[s].pc = "run"
    /\ ok => st[s].known
    /\ stats' = recordTaskProcessed(ok)
    /\ Goto(s, "send")
    /\ StreamOnly
    /\ UNCHANGED hist

SendResult(s) ==
    /\ st[s].pc = "send"
    /\ ~Cancelled
    /\ Goto(s, "top")
    /\ StreamOnly
    /\ UNCHANGED taskVars

\* The result is dropped.
SendFails(s) ==
    /\ st[s].pc = "send"
    /\ st' = [st EXCEPT ![s].pc = "mark", ![s].then = "top"]
    /\ StreamOnly
    /\ UNCHANGED taskVars

\* sm.MarkDisconnected, which does not know which stream calls it.
MarkFirst(s) ==
    /\ st[s].pc = "mark"
    /\ MarkDisconnected(s)
    /\ st' = [st EXCEPT ![s].pc = "down"]
    /\ UNCHANGED <<handlers, client, connected, cb, stop, current, taskVars>>

MarkAgain(s) ==
    /\ st[s].pc = "mark"
    /\ MuFree
    /\ ~isConnected
    /\ Goto(s, st[s].then)
    /\ StreamOnly
    /\ UNCHANGED taskVars

SetDown(s) ==
    /\ st[s].pc = "down"
    /\ connected' = FALSE
    /\ st' = [st EXCEPT ![s].pc = "unset"]
    /\ UNCHANGED <<streamVars, handlers, client, cb, stop, current, taskVars>>

UnsetClient(s) ==
    /\ st[s].pc = "unset"
    /\ NotifyDisconnected(s)
    /\ client' = NoStream
    /\ Goto(s, st[s].then)
    /\ UNCHANGED <<handlers, connected, cb, stop, current, taskVars>>

\* What a stream's goroutine does without waiting for the orchestrator.
StreamRuns(s) ==
    \/ CheckDone(s)
    \/ \E ok \in BOOLEAN : FinishTask(s, ok)
    \/ SendResult(s) \/ SendFails(s)
    \/ MarkFirst(s) \/ MarkAgain(s) \/ SetDown(s) \/ UnsetClient(s)

StreamReceives(s) ==
    \/ \E t \in TaskTypes : ReceiveTask(s, t)
    \/ ReceiveOther(s)
    \/ RecvFails(s)

-----------------------------------------------------------------------------
(* Stop, called once.                                                      *)

StopAt(now, next) ==
    /\ stop = now
    /\ stop' = next
    /\ UNCHANGED <<handlers, client, connected, cb, st, current, taskVars>>

CloseDone == StopAt("no", "cancel") /\ UNCHANGED streamVars

MutantCancelWhenIdle ==
    /\ \A s \in Streams : st[s].pc \in {"free", "ended"}
    /\ StopAt("cancel", "close")
    /\ UNCHANGED streamVars

Cancel == StopAt("cancel", "close") /\ UNCHANGED streamVars

CloseManager == StopAt("close", "client") /\ Close

\* CloseSend on w.client, if it is set; the stream was cancelled before.
CloseClient == StopAt("client", "stopped") /\ UNCHANGED streamVars

StopRuns == Cancel \/ CloseManager \/ CloseClient

-----------------------------------------------------------------------------

WorkerNext ==
    \/ \E t \in TaskTypes : RegisterHandler(t)
    \/ ManagerStep
    \/ NewConnection
    \/ CallbackStep
    \/ \E s \in Streams : StreamRuns(s) \/ StreamReceives(s)
    \/ CloseDone
    \/ StopRuns

\* Goroutines that can run do, and handlers return.  A receive returns for
\* certain only once its context is cancelled.  Close gets sm.mu in the end,
\* also from callers that come back for it: Go's mutex serves a waiter first
\* that has waited long.
WorkerFairness ==
    /\ WF_allVars(ManagerStep \/ NewConnection \/ CallbackStep)
    /\ \A s \in Streams : WF_allVars(StreamRuns(s)) /\ WF_allVars(RecvCancelled(s))
    /\ WF_allVars(StopRuns) /\ SF_allVars(CloseManager)

WorkerSpec == WorkerInit /\ [][WorkerNext]_allVars /\ WorkerFairness

-----------------------------------------------------------------------------

StreamsAt(pc) == Cardinality({s \in Streams : st[s].pc = pc})

\* Tasks are executed on several streams at once, of old connections too.  Each
\* one that was received is still with its handler or counted by the statistics
\* exactly once, also when its stream breaks and its result is lost.
EveryTaskCounted == hist.got = stats.processed + StreamsAt("run")

\* Stop does not wait for the streams.  What it leaves running is bounded: a
\* stream that was receiving executes at most one more task.
AtMostOneTaskAfterStop == \A s \in Streams : hist.late[s] <= 1

\* Connect holds sm.mu and waits for a callback that waits for sm.mu.
ConnectStuck == CallbackReadsConnection /\ caller = "locked"

\* Stop returns, whatever the manager's loop, the callbacks and the streams are
\* doing when it is called, unless Connect is caught in its own lock: then
\* sm.Close waits for that lock for ever, and Stop with it.
StopReturns == Stopping ~> stop = "stopped" \/ ConnectStuck

\* After Stop no goroutine of a stream stays behind, in whichever step of
\* receiving, executing, sending or disconnecting Stop found it.
StreamsEndAfterStop ==
    Stopping ~> [](\A s \in Streams : st[s].pc \in {"free", "ended"})
=============================================================================
