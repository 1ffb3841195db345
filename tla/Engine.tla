------------------------------- MODULE Engine -------------------------------
(***************************************************************************)
(* executor.Engine: the tasks in memory, the index of tasks by workflow,   *)
(* the sequence counter, and the write-ahead log every change is appended  *)
(* to.  A call that changes a task holds e.mu from its first read to its   *)
(* return.  Checkpoint, Close and Replay reach the log without e.mu, and   *)
(* the copies of the query methods read tasks without it (EngineReads), so *)
(* a call is split where one of them can look in between:                  *)
(*                                                                         *)
(*   idle  --Begin-->  log  --Append-->  apply  --Apply-->  stamp  --> idle *)
(*                                                                         *)
(* A call whose append fails goes from log to idle and returns the error.  *)
(* Calls that are refused before they change anything (an unknown task, a  *)
(* transition that is not allowed, an empty argument) are not steps.       *)
(***************************************************************************)
EXTENDS TaskState, Sequences, FiniteSets

CONSTANTS Workflows,          \* workflow identifiers
          MaxNano,            \* bound: clock readings used for task ids
          ClockMayRepeat,     \* a call can read a UnixNano that was read before
          Hash,               \* FNV-1a of a task id
          PartitionCount,     \* number of partitions of the manager
          TransitionTargets,  \* states callers pass to TransitionTask
          WalMayFail,         \* the Logger's Append can return an error
          WithClose,          \* the engine can be closed while in use
          MaxSequence,        \* bound: the longest log explored
          NoRequest           \* no call holds e.mu

\* fmt.Sprintf("task-%s-%d", workflowID, time.Now().UnixNano())
TaskIDs == Workflows \X (1..MaxNano)

WorkflowOf(id) == id[1]

ASSUME EngineAssumption ==
    /\ MaxNano \in Nat
    /\ MaxSequence \in Nat
    /\ PartitionCount \in Nat \ {0}
    /\ Hash \in [TaskIDs -> Nat]
    /\ TransitionTargets \subseteq AllStates
    /\ {ClockMayRepeat, WalMayFail, WithClose} \subseteq BOOLEAN

Records == [task : TaskIDs, state : AllStates, data : Data]

VARIABLES tasks,            \* map of task id to task
          workflowTasks,    \* map of workflow id to its task ids
          sequenceCounter,  \* number of the last entry applied
          now,              \* clock readings used for task ids, numbered as they came
          phase,            \* how far the call that holds e.mu is
          req,              \* that call's arguments and local variables
          entries, sequence, committed, closed   \* the log

engineVars == <<tasks, workflowTasks, sequenceCounter, now, phase, req>>
logVars    == <<entries, sequence, committed, closed>>
vars       == <<engineVars, logVars>>

WAL == INSTANCE WriteAheadLog

Ops == {"create", "transition", "complete", "fail"}

\* seq is the local variable the number of the entry is returned in.
Request == [op : Ops, id : TaskIDs, to : AllStates, data : Data,
            seq : 0..MaxSequence]

TypeOK ==
    /\ tasks \in [TaskIDs -> Task \cup {NoTask}]
    /\ workflowTasks \in [Workflows -> Seq(TaskIDs)]
    /\ sequenceCounter \in 0..MaxSequence
    /\ now \in 0..MaxNano
    /\ phase \in {"idle", "log", "apply", "stamp"}
    /\ phase # "idle" => req \in Request
    /\ WAL!WalTypeOK

Init ==
    /\ tasks = [id \in TaskIDs |-> NoTask]
    /\ workflowTasks = [wf \in Workflows |-> <<>>]
    /\ sequenceCounter = 0
    /\ now = 0
    /\ phase = "idle"
    /\ req = NoRequest
    /\ WAL!WalInit

-----------------------------------------------------------------------------
(* Taking e.mu: the checks of each method, up to its call of Append.       *)

\* A call takes the lock.  No call is begun once the bounded log is full.
Acquire(op, id, to, data) ==
    /\ phase = "idle"
    /\ sequence < MaxSequence
    /\ phase' = "log"
    /\ req' = [op |-> op, id |-> id, to |-> to, data |-> data, seq |-> 0]

\* The clock reading of a new task.  Readings are numbered in the order of their
\* first use: now + 1 is one that was not read before.  The wall clock repeats a
\* reading when it is coarser than the time between two calls, or set back.
NextNano(n) ==
    /\ n \in 1..MaxNano
    /\ n <= now + 1
    /\ n <= now => ClockMayRepeat

Later(n) == IF n > now THEN n ELSE now

MutantIndexBeforeAppend(wf, payload, n) ==
    /\ NextNano(n)
    /\ Acquire("create", <<wf, n>>, Pending, payload)
    /\ now' = Later(n)
    /\ workflowTasks' = [workflowTasks EXCEPT ![wf] = Append(@, <<wf, n>>)]
    /\ UNCHANGED <<tasks, sequenceCounter, logVars>>

BeginCreate(wf, payload, n) ==
    /\ NextNano(n)
    /\ Acquire("create", <<wf, n>>, Pending, payload)
    /\ now' = Later(n)
    /\ UNCHANGED <<tasks, workflowTasks, sequenceCounter, logVars>>

MutantBeginTransitionUnchecked(id, to) ==
    /\ Exists(tasks[id])
    /\ Acquire("transition", id, to, tasks[id].payload)
    /\ UNCHANGED <<tasks, workflowTasks, sequenceCounter, now, logVars>>

BeginTransition(id, to) ==
    /\ Exists(tasks[id])
    /\ CanTransition(tasks[id].state, to)
    /\ Acquire("transition", id, to, tasks[id].payload)
    /\ UNCHANGED <<tasks, workflowTasks, sequenceCounter, now, logVars>>

MutantBeginCompleteAnyState(id, result) ==
    /\ Exists(tasks[id])
    /\ Acquire("complete", id, Completed, result)
    /\ tasks' = [tasks EXCEPT ![id].result = result]
    /\ UNCHANGED <<workflowTasks, sequenceCounter, now, logVars>>

MutantCompleteLogsPayload(id, result) ==
    /\ tasks[id].state = Dispatched
    /\ Acquire("complete", id, Completed, tasks[id].payload)
    /\ tasks' = [tasks EXCEPT ![id].result = result]
    /\ UNCHANGED <<workflowTasks, sequenceCounter, now, logVars>>

\* CompleteTask stores the result in the task before it appends.
BeginComplete(id, result) ==
    /\ tasks[id].state = Dispatched
    /\ Acquire("complete", id, Completed, result)
    /\ tasks' = [tasks EXCEPT ![id].result = result]
    /\ UNCHANGED <<workflowTasks, sequenceCounter, now, logVars>>

\* FailTask stores the error in the task before it appends.
BeginFail(id, error) ==
    /\ tasks[id].state = Dispatched
    /\ Acquire("fail", id, Failed, error)
    /\ tasks' = [tasks EXCEPT ![id].error = error]
    /\ UNCHANGED <<workflowTasks, sequenceCounter, now, logVars>>

-----------------------------------------------------------------------------
(* The append, and what follows it.                                        *)

AppendOK ==
    /\ phase = "log"
    /\ WAL!AppendEntry([task |-> req.id, state |-> req.to, data |-> req.data])
    /\ phase' = "apply"
    /\ req' = [req EXCEPT !.seq = sequence']
    /\ UNCHANGED <<tasks, workflowTasks, sequenceCounter, now>>

Release ==
    /\ phase' = "idle"
    /\ req' = NoRequest

MutantAppendErrorIgnored ==
    /\ WalMayFail
    /\ phase = "log"
    /\ phase' = "apply"
    /\ UNCHANGED <<tasks, workflowTasks, sequenceCounter, now, req, logVars>>

\* Append returned an error: the call returns it, and a result or an error
\* text stored in the task stays there.
AppendFails ==
    /\ WalMayFail
    /\ phase = "log"
    /\ Release
    /\ UNCHANGED <<tasks, workflowTasks, sequenceCounter, now, logVars>>

MutantStoreWithoutIndex ==
    /\ phase = "apply"
    /\ req.op = "create"
    /\ sequenceCounter' = req.seq
    /\ tasks' = [tasks EXCEPT ![req.id] =
                   NewTask(req.data, Hash[req.id] % PartitionCount)]
    /\ Release
    /\ UNCHANGED <<workflowTasks, now, logVars>>

\* The rest of CreateTask.  AssignPartition hashes the id of the task.
StoreTask ==
    /\ phase = "apply"
    /\ req.op = "create"
    /\ sequenceCounter' = req.seq
    /\ tasks' = [tasks EXCEPT ![req.id] =
                   NewTask(req.data, Hash[req.id] % PartitionCount)]
    /\ workflowTasks' = [workflowTasks EXCEPT
                           ![WorkflowOf(req.id)] = Append(@, req.id)]
    /\ Release
    /\ UNCHANGED <<now, logVars>>

MutantCountBeforeApplying ==
    /\ phase = "apply"
    /\ req.op # "create"
    /\ CanTransition(tasks[req.id].state, req.to)
    /\ tasks' = [tasks EXCEPT ![req.id] = SetState(@, req.to)]
    /\ phase' = "stamp"
    /\ sequenceCounter' = req.seq
    /\ UNCHANGED <<workflowTasks, now, req, logVars>>

\* TransitionTo checks the transition again and assigns the state.
ApplyState ==
    /\ phase = "apply"
    /\ req.op # "create"
    /\ CanTransition(tasks[req.id].state, req.to)
    /\ tasks' = [tasks EXCEPT ![req.id] = SetState(@, req.to)]
    /\ phase' = "stamp"
    /\ UNCHANGED <<workflowTasks, sequenceCounter, now, req, logVars>>

MutantFinishWithoutAttempt ==
    /\ phase = "stamp"
    /\ tasks' = [tasks EXCEPT ![req.id].dispatched = TRUE]
    /\ sequenceCounter' = req.seq
    /\ Release
    /\ UNCHANGED <<workflowTasks, now, logVars>>

MutantCounterPastEntry ==
    /\ phase = "stamp"
    /\ tasks' = [tasks EXCEPT ![req.id] = StampFields(@, req.to)]
    /\ sequenceCounter' = req.seq + 1
    /\ Release
    /\ UNCHANGED <<workflowTasks, now, logVars>>

\* The rest of TransitionTo and of the method that called it.
FinishTransition ==
    /\ phase = "stamp"
    /\ tasks' = [tasks EXCEPT ![req.id] = StampFields(@, req.to)]
    /\ sequenceCounter' = req.seq
    /\ Release
    /\ UNCHANGED <<workflowTasks, now, logVars>>

-----------------------------------------------------------------------------
(* Calls that reach the log without e.mu.                                  *)

\* The number is the caller's: one that GetSequenceCounter or Replay gave it, now
\* or long ago, or any other.  The log refuses one it has not assigned yet.
CheckpointEngine(seq) ==
    /\ WAL!Checkpoint(seq)
    /\ UNCHANGED engineVars

CloseEngine ==
    /\ WithClose
    /\ WAL!Close
    /\ UNCHANGED engineVars

-----------------------------------------------------------------------------

Next ==
    \/ \E wf \in Workflows, p \in Payloads, n \in 1..MaxNano : BeginCreate(wf, p, n)
    \/ \E id \in TaskIDs, to \in TransitionTargets : BeginTransition(id, to)
    \/ \E id \in TaskIDs, r \in Results : BeginComplete(id, r)
    \/ \E id \in TaskIDs, e \in Errors : BeginFail(id, e)
    \/ AppendOK
    \/ AppendFails
    \/ StoreTask
    \/ ApplyState
    \/ FinishTransition
    \/ \E seq \in 0..MaxSequence : CheckpointEngine(seq)
    \/ CloseEngine

Spec == Init /\ [][Next]_vars

-----------------------------------------------------------------------------
(* Safety.                                                                 *)

\* The i-th entry is the last one about its task.
LastOfTask(i) ==
    \A j \in DOMAIN entries : j > i => entries[j].rec.task # entries[i].rec.task

\* The call in progress has appended an entry about this task and has not
\* assigned the state yet.
InFlight(id) == phase = "apply" /\ req.id = id

\* "Persist task state transitions before they are applied": at every moment
\* the last entry about a task names the state the task has in memory, except
\* that a call between Append and the assignment is one entry ahead, by the
\* state it is about to assign.  Every task in memory has an entry, until
\* Close drops the log.
WriteAhead ==
    /\ \A i \in DOMAIN entries :
         LastOfTask(i) =>
           entries[i].rec.state = IF InFlight(entries[i].rec.task)
                                    THEN req.to
                                    ELSE tasks[entries[i].rec.task].state
    /\ ~closed => \A id \in TaskIDs :
         Exists(tasks[id]) => \E i \in DOMAIN entries : entries[i].rec.task = id

\* TransitionTo checks the transition a second time, after the entry was
\* appended.  If it could refuse there, the log would hold a transition that
\* never happened and the sequence counter would miss it: it never refuses.
ApplyNeverRejected ==
    phase = "apply" /\ req.op # "create" =>
      CanTransition(tasks[req.id].state, req.to)

\* The counter GetSequenceCounter returns lags the log by the one entry of the
\* call in progress and by nothing else, whatever failed or was closed.
CounterTracksLog ==
    sequence = sequenceCounter + (IF phase \in {"apply", "stamp"} THEN 1 ELSE 0)

\* Checkpoint goes past e.mu and takes any assigned number: it can commit the
\* entry of the call in progress before its effect is in memory, and no other.
\* Whenever no call is between its append and its return, what Replay leaves out
\* is in memory, whatever numbers callers passed.
CommittedIsApplied ==
    phase \notin {"apply", "stamp"} => committed <= sequenceCounter

\* The index by workflow lists a task exactly when the map holds it, so that
\* GetWorkflowTasks dereferences no missing task and misses none.
IndexMatchesTasks ==
    \A id \in TaskIDs :
      Exists(tasks[id]) <=>
        \E k \in DOMAIN workflowTasks[WorkflowOf(id)] :
          workflowTasks[WorkflowOf(id)][k] = id

\* "ID is the unique identifier for this task": no id is given to two tasks,
\* which would list it twice and drop the first task from memory.
TaskIDsUnique ==
    \A wf \in Workflows : \A j, k \in DOMAIN workflowTasks[wf] :
      workflowTasks[wf][j] = workflowTasks[wf][k] => j = k

\* The entries about a task that move it to the given state.
EntriesTo(id, to) ==
    {i \in DOMAIN entries : entries[i].rec.task = id /\ entries[i].rec.state = to}

\* The log alone tells how often a task was attempted: the attempts in memory
\* are the DISPATCHED entries, one less while the call that dispatches the
\* task has appended and not counted yet.
AttemptsAreLogged ==
    ~closed => \A id \in TaskIDs :
      Cardinality(EntriesTo(id, Dispatched)) =
        tasks[id].attempts +
          (IF phase \in {"apply", "stamp"} /\ req.id = id /\ req.to = Dispatched
             THEN 1 ELSE 0)

\* What a task ended with: the output of a completed task, the error of a
\* failed one.
Outcome(t) ==
    CASE t.state = Completed -> t.result
      [] t.state = Failed    -> t.error
      [] OTHER               -> Nil

\* "COMPLETED (includes output)": a task that completed or failed has one such
\* entry in the log, and its data is the outcome clients are given, also when
\* earlier calls for the same task failed after storing theirs.
OutcomeIsLogged ==
    ~closed => \A id \in TaskIDs :
      tasks[id].state \in {Completed, Failed} =>
        \E i \in DOMAIN entries :
          /\ EntriesTo(id, tasks[id].state) = {i}
          /\ entries[i].rec.data = Outcome(tasks[id])

-----------------------------------------------------------------------------
(* The engine implements TaskLifecycle, as memory shows it and as the log  *)
(* tells it.                                                               *)

Memory == INSTANCE TaskLifecycle
            WITH status  <- [id \in TaskIDs |-> tasks[id].state],
                 outcome <- [id \in TaskIDs |-> Outcome(tasks[id])]

\* Tasks in memory appear once, follow the transition table and keep the
\* outcome they ended with: no interleaving of calls, failed appends,
\* checkpoints and Close makes a task jump, leave a terminal state or lose
\* its result.
MemoryFollowsLifecycle == Memory!LifecycleSpec

LastEntry(id) ==
    entries[CHOOSE i \in DOMAIN entries :
              entries[i].rec.task = id /\ LastOfTask(i)].rec

Logged(id) == \E i \in DOMAIN entries : entries[i].rec.task = id

OnLog == INSTANCE TaskLifecycle
           WITH status  <- [id \in TaskIDs |->
                              IF Logged(id) THEN LastEntry(id).state ELSE Absent],
                outcome <- [id \in TaskIDs |->
                              IF Logged(id) /\ LastEntry(id).state \in {Completed, Failed}
                                THEN LastEntry(id).data ELSE Nil]

\* Until Close drops it, the log read back entry by entry follows the same
\* lifecycle: a recovery that replays it meets no transition CanTransition
\* would refuse.
LogFollowsLifecycle ==
    /\ OnLog!LifecycleInit
    /\ [][OnLog!LifecycleNext \/ closed']_(OnLog!lifecycleVars)
=============================================================================
