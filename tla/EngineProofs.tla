---------------------------- MODULE EngineProofs ----------------------------
(***************************************************************************)
(* Proofs about the engine, for every set of workflows, payloads, results, *)
(* errors and checkpointers, every hash and every bound.                   *)
(***************************************************************************)
EXTENDS Engine, TLAPS

-----------------------------------------------------------------------------
(* The operations on tasks.                                                *)

\* What is in the map and not absent is a task, and a task is not absent.
LEMMA ExistingIsTask ==
    ASSUME NEW t \in Task \cup {NoTask}
    PROVE  Exists(t) <=> t \in Task
<1>1. t \in Task => t.state \in AllStates
  BY DEF Task
<1>2. Absent \notin AllStates
  BY DEF Absent, AllStates, Pending, Scheduled, Dispatched, Completed, Failed,
         Cancelled
<1>3. NoTask.state = Absent
  BY DEF NoTask, SetState, NewTask
<1> QED BY <1>1, <1>2, <1>3 DEF Exists

\* NewTask returns a task.
LEMMA NewTaskType ==
    ASSUME NEW p \in Payloads, NEW n \in Nat
    PROVE  /\ NewTask(p, n) \in Task
           /\ NewTask(p, n).state = Pending
BY DEF NewTask, Task, AllStates, Pending

\* Assigning a field of a task leaves a task.
LEMMA AssignType ==
    ASSUME NEW t \in Task
    PROVE  /\ \A to \in AllStates : /\ SetState(t, to) \in Task
                                    /\ SetState(t, to).state = to
           /\ \A r \in Results : /\ [t EXCEPT !.result = r] \in Task
                                 /\ [t EXCEPT !.result = r].state = t.state
           /\ \A e \in Errors  : /\ [t EXCEPT !.error = e] \in Task
                                 /\ [t EXCEPT !.error = e].state = t.state
BY DEF SetState, Task

\* So does the second half of TransitionTo, which keeps the state.
LEMMA StampType ==
    ASSUME NEW t \in Task, NEW to \in AllStates
    PROVE  /\ StampFields(t, to) \in Task
           /\ StampFields(t, to).state = t.state
<1> DEFINE a == IF to = Dispatched THEN t.attempts + 1 ELSE t.attempts
           d == t.dispatched \/ to = Dispatched
           c == t.completed \/ to = Completed
<1>1. a \in Nat
  BY DEF Task
<1>2. d \in BOOLEAN /\ c \in BOOLEAN
  OBVIOUS
<1>3. StampFields(t, to) = [[[t EXCEPT !.attempts = a] EXCEPT !.dispatched = d]
                              EXCEPT !.completed = c]
  BY DEF StampFields, Task
<1> HIDE DEF a, d, c
<1> QED BY <1>1, <1>2, <1>3 DEF Task

\* CanTransition allows a step between two states only.
LEMMA TransitionStates ==
    ASSUME NEW from, NEW to, CanTransition(from, to)
    PROVE  from \in AllStates /\ to \in AllStates /\ from # Absent
BY DEF CanTransition, Transitions, AllStates, Absent, Pending, Scheduled,
       Dispatched, Completed, Failed, Cancelled

\* A dispatched task can complete and fail.
LEMMA DispatchedMoves ==
    CanTransition(Dispatched, Completed) /\ CanTransition(Dispatched, Failed)
BY DEF CanTransition, Transitions

-----------------------------------------------------------------------------
(* Types, and what the call that holds e.mu knows.                         *)

\* The checks a method made when it took e.mu still hold when it uses them,
\* because only the holder changes tasks.
RequestInv ==
    /\ phase # "idle" /\ req.op = "create" =>
         /\ phase \in {"log", "apply"}
         /\ req.to = Pending
         /\ req.data \in Payloads
    /\ phase \in {"log", "apply"} /\ req.op # "create" =>
         CanTransition(tasks[req.id].state, req.to)
    /\ phase = "stamp" =>
         /\ req.op # "create"
         /\ tasks[req.id].state = req.to
    /\ phase \in {"apply", "stamp"} => req.seq = sequence

\* The engine starts with its types.
LEMMA InitType == Init => TypeOK /\ RequestInv
<1> SUFFICES ASSUME Init PROVE TypeOK /\ RequestInv
  OBVIOUS
<1> USE EngineAssumption
<1>1. /\ tasks \in [TaskIDs -> Task \cup {NoTask}]
      /\ workflowTasks \in [Workflows -> Seq(TaskIDs)]
      /\ phase = "idle"
      /\ phase \in {"idle", "log", "apply", "stamp"}
  BY DEF Init
<1>2. /\ sequenceCounter \in 0..MaxSequence
      /\ now \in 0..MaxNano
  BY DEF Init
<1>3. entries \in Seq(WAL!Entry)
  BY DEF Init, WAL!WalInit
<1>5. closed \in BOOLEAN
  BY DEF Init, WAL!WalInit
<1>4. sequence \in 0..MaxSequence /\ committed \in 0..MaxSequence
  BY DEF Init, WAL!WalInit
<1> QED BY <1>1, <1>2, <1>3, <1>4, <1>5 DEF TypeOK, RequestInv, WAL!WalTypeOK

\* Taking e.mu gives the request its type.
LEMMA AcquireType ==
    ASSUME NEW op \in Ops, NEW id \in TaskIDs, NEW to \in AllStates,
           NEW data \in Data, Acquire(op, id, to, data)
    PROVE  /\ phase' = "log"
           /\ req' \in Request
           /\ req'.op = op /\ req'.id = id /\ req'.to = to /\ req'.data = data
BY EngineAssumption DEF Acquire, Request

\* Every step keeps the types and the facts about the call in progress.
LEMMA NextType == TypeOK /\ RequestInv /\ [Next]_vars => TypeOK' /\ RequestInv'
<1> SUFFICES ASSUME TypeOK, RequestInv, [Next]_vars
             PROVE  TypeOK' /\ RequestInv'
  OBVIOUS
<1> USE EngineAssumption
<1>a. /\ Pending \in AllStates /\ Completed \in AllStates /\ Failed \in AllStates
      /\ Dispatched \in AllStates /\ Absent \notin AllStates
  BY DEF AllStates, Absent, Pending, Scheduled, Dispatched, Completed, Failed,
         Cancelled
<1>b. \A id \in TaskIDs : tasks[id] \in Task \cup {NoTask}
  BY DEF TypeOK
<1>c. \A id \in TaskIDs : tasks[id].state \in AllStates => tasks[id] \in Task
  BY <1>a, <1>b, ExistingIsTask DEF Exists
<1>1. ASSUME NEW wf \in Workflows, NEW p \in Payloads, NEW n \in 1..MaxNano,
             BeginCreate(wf, p, n)
      PROVE  TypeOK' /\ RequestInv'
  <2>1. /\ <<wf, n>> \in TaskIDs
        /\ p \in Data
        /\ "create" \in Ops
    BY DEF TaskIDs, Data, Ops
  <2>2. /\ phase' = "log" /\ req' \in Request
        /\ req'.op = "create" /\ req'.to = Pending /\ req'.data = p
    BY <1>1, <1>a, <2>1, AcquireType DEF BeginCreate
  <2>3. now' \in 0..MaxNano
    BY <1>1 DEF BeginCreate, Later, TypeOK
  <2> QED BY <1>1, <2>2, <2>3
      DEF BeginCreate, TypeOK, RequestInv, WAL!WalTypeOK, logVars
<1>2. ASSUME NEW id \in TaskIDs, NEW to \in TransitionTargets,
             BeginTransition(id, to)
      PROVE  TypeOK' /\ RequestInv'
  <2>1. /\ CanTransition(tasks[id].state, to)
        /\ to \in AllStates
        /\ "transition" \in Ops
    BY <1>2 DEF BeginTransition, Ops
  <2>2. tasks[id] \in Task
    BY <2>1, <1>c, TransitionStates
  <2>3. tasks[id].payload \in Data
    BY <2>2 DEF Task, Data
  <2>4. /\ phase' = "log" /\ req' \in Request
        /\ req'.op = "transition" /\ req'.to = to /\ req'.id = id
    BY <1>2, <2>1, <2>3, AcquireType DEF BeginTransition
  <2> QED BY <1>2, <2>1, <2>4
      DEF BeginTransition, TypeOK, RequestInv, WAL!WalTypeOK, logVars
<1>3. ASSUME NEW id \in TaskIDs, NEW r \in Results, BeginComplete(id, r)
      PROVE  TypeOK' /\ RequestInv'
  <2>1. tasks[id] \in Task
    BY <1>3, <1>a, <1>c DEF BeginComplete
  <2>2. /\ tasks' = [tasks EXCEPT ![id] = [tasks[id] EXCEPT !.result = r]]
        /\ [tasks[id] EXCEPT !.result = r] \in Task
        /\ [tasks[id] EXCEPT !.result = r].state = Dispatched
    BY <1>3, <2>1, AssignType DEF BeginComplete, TypeOK
  <2>3. /\ tasks' \in [TaskIDs -> Task \cup {NoTask}]
        /\ tasks'[id].state = Dispatched
    BY <2>2 DEF TypeOK
  <2>4. /\ phase' = "log" /\ req' \in Request
        /\ req'.op = "complete" /\ req'.to = Completed /\ req'.id = id
    BY <1>3, <1>a, AcquireType DEF BeginComplete, Ops, Data
  <2> QED BY <1>3, <2>3, <2>4, DispatchedMoves
      DEF BeginComplete, TypeOK, RequestInv, WAL!WalTypeOK, logVars
<1>4. ASSUME NEW id \in TaskIDs, NEW e \in Errors, BeginFail(id, e)
      PROVE  TypeOK' /\ RequestInv'
  <2>1. tasks[id] \in Task
    BY <1>4, <1>a, <1>c DEF BeginFail
  <2>2. /\ tasks' = [tasks EXCEPT ![id] = [tasks[id] EXCEPT !.error = e]]
        /\ [tasks[id] EXCEPT !.error = e] \in Task
        /\ [tasks[id] EXCEPT !.error = e].state = Dispatched
    BY <1>4, <2>1, AssignType DEF BeginFail, TypeOK
  <2>3. /\ tasks' \in [TaskIDs -> Task \cup {NoTask}]
        /\ tasks'[id].state = Dispatched
    BY <2>2 DEF TypeOK
  <2>4. /\ phase' = "log" /\ req' \in Request
        /\ req'.op = "fail" /\ req'.to = Failed /\ req'.id = id
    BY <1>4, <1>a, AcquireType DEF BeginFail, Ops, Data
  <2> QED BY <1>4, <2>3, <2>4, DispatchedMoves
      DEF BeginFail, TypeOK, RequestInv, WAL!WalTypeOK, logVars
<1>5. CASE AppendOK
  <2>1. /\ phase = "log" /\ phase' = "apply"
        /\ req \in Request
        /\ sequence' = sequence + 1 /\ sequence' \in 1..MaxSequence
        /\ req' = [req EXCEPT !.seq = sequence']
        /\ UNCHANGED <<tasks, workflowTasks, sequenceCounter, now,
                       committed, closed>>
    BY <1>5 DEF AppendOK, WAL!AppendEntry, TypeOK, WAL!WalTypeOK
  <2>2. /\ req' \in Request
        /\ req'.op = req.op /\ req'.id = req.id /\ req'.to = req.to
        /\ req'.data = req.data /\ req'.seq = sequence'
    BY <2>1 DEF Request
  <2>3. entries' \in Seq(WAL!Entry)
    <3> DEFINE rec == [task |-> req.id, state |-> req.to, data |-> req.data]
               e   == [seq |-> sequence', rec |-> rec]
    <3>1. rec \in Records
      BY <2>1 DEF Request, Records
    <3>2. e \in WAL!Entry
      BY <2>1, <3>1 DEF WAL!Entry
    <3>3. entries' = Append(entries, e)
      BY <1>5 DEF AppendOK, WAL!AppendEntry
    <3> HIDE DEF e
    <3> QED BY <3>2, <3>3 DEF TypeOK, WAL!WalTypeOK
  <2> QED BY <2>1, <2>2, <2>3 DEF TypeOK, RequestInv, WAL!WalTypeOK
<1>6. CASE AppendFails
  BY <1>6 DEF AppendFails, Release, TypeOK, RequestInv, WAL!WalTypeOK, logVars
<1>7. CASE StoreTask
  <2> DEFINE t == NewTask(req.data, Hash[req.id] % PartitionCount)
  <2>1. /\ req \in Request /\ req.data \in Payloads
        /\ phase' = "idle"
        /\ sequenceCounter' = req.seq
        /\ tasks' = [tasks EXCEPT ![req.id] = t]
        /\ workflowTasks' = [workflowTasks EXCEPT
              ![WorkflowOf(req.id)] = Append(workflowTasks[WorkflowOf(req.id)], req.id)]
        /\ UNCHANGED <<now, logVars>>
    BY <1>7 DEF StoreTask, Release, TypeOK, RequestInv
  <2>2. /\ req.id \in TaskIDs /\ req.seq \in 0..MaxSequence
        /\ WorkflowOf(req.id) \in Workflows
    BY <2>1 DEF Request, TaskIDs, WorkflowOf
  <2>3. Hash[req.id] % PartitionCount \in Nat
    BY <2>2
  <2>4. t \in Task
    BY <2>1, <2>3, NewTaskType
  <2>5. workflowTasks' \in [Workflows -> Seq(TaskIDs)]
    BY <2>1, <2>2 DEF TypeOK
  <2> HIDE DEF t
  <2>6. tasks' \in [TaskIDs -> Task \cup {NoTask}]
    BY <2>1, <2>4 DEF TypeOK
  <2> QED BY <2>1, <2>2, <2>5, <2>6
      DEF TypeOK, RequestInv, WAL!WalTypeOK, logVars
<1>8. CASE ApplyState
  <2>1. /\ req \in Request /\ req.op # "create"
        /\ phase' = "stamp" /\ req' = req
        /\ tasks' = [tasks EXCEPT ![req.id] = SetState(tasks[req.id], req.to)]
        /\ CanTransition(tasks[req.id].state, req.to)
        /\ req.seq = sequence
    BY <1>8 DEF ApplyState, TypeOK, RequestInv
  <2>2. req.id \in TaskIDs /\ req.to \in AllStates
    BY <2>1 DEF Request
  <2>3. tasks[req.id] \in Task
    BY <2>1, <2>2, <1>c, TransitionStates
  <2>4. /\ SetState(tasks[req.id], req.to) \in Task
        /\ SetState(tasks[req.id], req.to).state = req.to
    BY <2>2, <2>3, AssignType
  <2>5. /\ tasks' \in [TaskIDs -> Task \cup {NoTask}]
        /\ tasks'[req.id].state = req.to
    BY <2>1, <2>2, <2>4 DEF TypeOK
  <2> QED BY <1>8, <2>1, <2>5
      DEF ApplyState, TypeOK, RequestInv, WAL!WalTypeOK, logVars
<1>9. CASE FinishTransition
  <2>1. /\ req \in Request
        /\ phase' = "idle"
        /\ sequenceCounter' = req.seq
        /\ tasks' = [tasks EXCEPT ![req.id] = StampFields(tasks[req.id], req.to)]
        /\ tasks[req.id].state = req.to
        /\ UNCHANGED <<workflowTasks, now, logVars>>
    BY <1>9 DEF FinishTransition, Release, TypeOK, RequestInv
  <2>2. req.id \in TaskIDs /\ req.to \in AllStates /\ req.seq \in 0..MaxSequence
    BY <2>1 DEF Request
  <2>3. StampFields(tasks[req.id], req.to) \in Task
    BY <2>1, <2>2, <1>c, StampType
  <2>4. tasks' \in [TaskIDs -> Task \cup {NoTask}]
    BY <2>1, <2>3 DEF TypeOK
  <2> QED BY <2>1, <2>2, <2>4 DEF TypeOK, RequestInv, WAL!WalTypeOK, logVars
<1>11. ASSUME NEW seq \in 0..MaxSequence, CheckpointEngine(seq)
       PROVE  TypeOK' /\ RequestInv'
  BY <1>11 DEF CheckpointEngine, WAL!Checkpoint, TypeOK, RequestInv, WAL!WalTypeOK,
     engineVars
<1>12. CASE CloseEngine
  <2>1. entries' \in Seq(WAL!Entry)
    BY <1>12 DEF CloseEngine, WAL!Close
  <2>2. closed' \in BOOLEAN
    BY <1>12 DEF CloseEngine, WAL!Close
  <2> QED BY <1>12, <2>1, <2>2
      DEF CloseEngine, WAL!Close, TypeOK, RequestInv, WAL!WalTypeOK, engineVars
<1>13. CASE UNCHANGED vars
  BY <1>13 DEF vars, engineVars, logVars, TypeOK, RequestInv, WAL!WalTypeOK
<1> QED
  BY <1>1, <1>2, <1>3, <1>4, <1>5, <1>6, <1>7, <1>8, <1>9, <1>11, <1>12,
     <1>13 DEF Next

-----------------------------------------------------------------------------
(* The log and the memory.                                                 *)

\* The counter follows the log, and no number is committed before the log has
\* assigned it.
CountersInv ==
    /\ CounterTracksLog
    /\ committed <= sequence

\* Between Append and the end of the call the entry is in the log.
InFlightLogged ==
    phase = "apply" /\ ~closed =>
      \E i \in DOMAIN entries : entries[i].rec.task = req.id

\* With a clock that never repeats a reading, the ids after the last reading
\* are unused, and so is the one CreateTask is working on.
FreshIDs ==
    ~ClockMayRepeat =>
      /\ \A id \in TaskIDs : id[2] > now => ~Exists(tasks[id])
      /\ phase \in {"log", "apply"} /\ req.op = "create" =>
           ~Exists(tasks[req.id]) /\ req.id[2] <= now

EngineInv ==
    /\ TypeOK /\ RequestInv
    /\ CountersInv
    /\ WriteAhead /\ InFlightLogged
    /\ IndexMatchesTasks
    /\ FreshIDs

\* The counters start and stay as CountersInv says.
LEMMA CountersStep ==
    TypeOK /\ RequestInv /\ CountersInv /\ [Next]_vars => CountersInv'
<1> SUFFICES ASSUME TypeOK, RequestInv, CountersInv, [Next]_vars
             PROVE  CountersInv'
  OBVIOUS
<1> USE EngineAssumption DEF CountersInv, CounterTracksLog
<1>0. /\ sequence \in Nat /\ sequenceCounter \in Nat /\ committed \in Nat
      /\ phase \in {"apply", "stamp"} => req.seq = sequence
  BY DEF TypeOK, WAL!WalTypeOK, RequestInv
<1>1. ASSUME NEW wf \in Workflows, NEW p \in Payloads, NEW n \in 1..MaxNano,
             BeginCreate(wf, p, n)
      PROVE  CountersInv'
  BY <1>1 DEF BeginCreate, Acquire, logVars
<1>2. ASSUME NEW id \in TaskIDs, NEW to \in TransitionTargets,
             BeginTransition(id, to)
      PROVE  CountersInv'
  BY <1>2 DEF BeginTransition, Acquire, logVars
<1>3. ASSUME NEW id \in TaskIDs, NEW r \in Results, BeginComplete(id, r)
      PROVE  CountersInv'
  BY <1>3 DEF BeginComplete, Acquire, logVars
<1>4. ASSUME NEW id \in TaskIDs, NEW e \in Errors, BeginFail(id, e)
      PROVE  CountersInv'
  BY <1>4 DEF BeginFail, Acquire, logVars
<1>5. CASE AppendOK
  BY <1>5, <1>0 DEF AppendOK, WAL!AppendEntry
<1>6. CASE AppendFails
  BY <1>6 DEF AppendFails, Release, logVars
<1>7. CASE StoreTask
  BY <1>7, <1>0 DEF StoreTask, Release, logVars
<1>8. CASE ApplyState
  BY <1>8 DEF ApplyState, logVars
<1>9. CASE FinishTransition
  BY <1>9, <1>0 DEF FinishTransition, Release, logVars
<1>11. ASSUME NEW seq \in 0..MaxSequence, CheckpointEngine(seq)
       PROVE  CountersInv'
  BY <1>11, <1>0 DEF CheckpointEngine, WAL!Checkpoint, engineVars
<1>12. CASE CloseEngine
  BY <1>12 DEF CloseEngine, WAL!Close, engineVars
<1>13. CASE UNCHANGED vars
  BY <1>13 DEF vars, engineVars, logVars
<1> QED
  BY <1>1, <1>2, <1>3, <1>4, <1>5, <1>6, <1>7, <1>8, <1>9, <1>11, <1>12,
     <1>13 DEF Next

\* The steps that can change the state of a task, or create one, are StoreTask
\* and ApplyState; every other step leaves all states as they are.
LEMMA StatesUnchanged ==
    ASSUME TypeOK, RequestInv, [Next]_vars, ~StoreTask, ~ApplyState
    PROVE  \A id \in TaskIDs : tasks'[id].state = tasks[id].state
<1> USE DEF TypeOK
<1>a. \A id \in TaskIDs : tasks[id].state \in AllStates => tasks[id] \in Task
  <2>1. Absent \notin AllStates
    BY DEF AllStates, Absent, Pending, Scheduled, Dispatched, Completed, Failed,
           Cancelled
  <2> QED BY <2>1, ExistingIsTask DEF Exists
<1>1. ASSUME NEW id \in TaskIDs, NEW r \in Results, BeginComplete(id, r)
      PROVE  \A x \in TaskIDs : tasks'[x].state = tasks[x].state
  <2>1. tasks[id] \in Task
    BY <1>1, <1>a DEF BeginComplete, AllStates
  <2>2. tasks' = [tasks EXCEPT ![id] = [tasks[id] EXCEPT !.result = r]]
    BY <1>1 DEF BeginComplete
  <2>3. [tasks[id] EXCEPT !.result = r].state = tasks[id].state
    BY <2>1, AssignType
  <2> QED BY <2>2, <2>3
<1>2. ASSUME NEW id \in TaskIDs, NEW e \in Errors, BeginFail(id, e)
      PROVE  \A x \in TaskIDs : tasks'[x].state = tasks[x].state
  <2>1. tasks[id] \in Task
    BY <1>2, <1>a DEF BeginFail, AllStates
  <2>2. tasks' = [tasks EXCEPT ![id] = [tasks[id] EXCEPT !.error = e]]
    BY <1>2 DEF BeginFail
  <2>3. [tasks[id] EXCEPT !.error = e].state = tasks[id].state
    BY <2>1, AssignType
  <2> QED BY <2>2, <2>3
<1>3. CASE FinishTransition
  <2>1. /\ req.id \in TaskIDs /\ req.to \in AllStates
        /\ tasks[req.id].state = req.to
        /\ tasks' = [tasks EXCEPT ![req.id] = StampFields(tasks[req.id], req.to)]
    BY <1>3 DEF FinishTransition, RequestInv, Request
  <2>2. StampFields(tasks[req.id], req.to).state = tasks[req.id].state
    BY <2>1, <1>a, StampType
  <2> QED BY <2>1, <2>2
<1>4. CASE UNCHANGED tasks
  BY <1>4
<1>5. \/ UNCHANGED tasks
      \/ FinishTransition
      \/ \E id \in TaskIDs, r \in Results : BeginComplete(id, r)
      \/ \E id \in TaskIDs, e \in Errors : BeginFail(id, e)
  BY DEF Next, BeginCreate, BeginTransition, AppendOK, AppendFails,
     CheckpointEngine, CloseEngine, vars, engineVars
<1> QED BY <1>1, <1>2, <1>3, <1>4, <1>5

\* What storing a new task does to the map of tasks.
LEMMA StoreTaskState ==
    ASSUME TypeOK, RequestInv, StoreTask
    PROVE  /\ req.id \in TaskIDs /\ req.to = Pending
           /\ tasks'[req.id].state = req.to
           /\ \A id \in TaskIDs : id # req.id => tasks'[id] = tasks[id]
<1> DEFINE t == NewTask(req.data, Hash[req.id] % PartitionCount)
<1>1. /\ req.id \in TaskIDs /\ req.to = Pending
      /\ tasks' = [tasks EXCEPT ![req.id] = t]
  BY DEF StoreTask, TypeOK, RequestInv, Request
<1>2. t.state = Pending
  BY DEF NewTask
<1> QED BY <1>1, <1>2 DEF TypeOK

\* What assigning a state does to the map of tasks.
LEMMA ApplyStateState ==
    ASSUME TypeOK, RequestInv, ApplyState
    PROVE  /\ req.id \in TaskIDs
           /\ CanTransition(tasks[req.id].state, req.to)
           /\ Exists(tasks[req.id]) /\ tasks[req.id] \in Task
           /\ tasks'[req.id] = SetState(tasks[req.id], req.to)
           /\ tasks'[req.id].state = req.to
           /\ Exists(tasks'[req.id])
           /\ \A id \in TaskIDs : id # req.id => tasks'[id] = tasks[id]
<1>1. /\ req.id \in TaskIDs
      /\ CanTransition(tasks[req.id].state, req.to)
      /\ tasks' = [tasks EXCEPT ![req.id] = SetState(tasks[req.id], req.to)]
  BY DEF ApplyState, TypeOK, Request
<1>2. /\ Exists(tasks[req.id])
      /\ req.to \in AllStates /\ req.to # Absent
  BY <1>1, TransitionStates DEF Exists, AllStates, Absent, Pending, Scheduled,
     Dispatched, Completed, Failed, Cancelled
<1>3. tasks[req.id] \in Task
  BY <1>1, <1>2, ExistingIsTask DEF TypeOK
<1>4. SetState(tasks[req.id], req.to).state = req.to
  BY <1>2, <1>3, AssignType
<1> QED BY <1>1, <1>2, <1>3, <1>4 DEF TypeOK, Exists

\* Every entry is about a task id.
LEMMA EntryTask ==
    ASSUME TypeOK
    PROVE  \A i \in DOMAIN entries : entries[i].rec.task \in TaskIDs
<1> SUFFICES ASSUME NEW i \in DOMAIN entries
             PROVE  entries[i].rec.task \in TaskIDs
  OBVIOUS
<1>1. entries \in Seq(WAL!Entry)
  BY DEF TypeOK, WAL!WalTypeOK
<1>2. entries[i] \in WAL!Entry
  BY <1>1
<1>3. entries[i].rec \in Records
  BY <1>2 DEF WAL!Entry
<1> QED BY <1>3 DEF Records

\* A step that appends nothing and moves no state out of phase "apply" keeps
\* WriteAhead.
LEMMA WriteAheadFrame ==
    ASSUME TypeOK, WriteAhead, InFlightLogged,
           entries' = entries, closed' = closed,
           phase # "apply", phase' # "apply",
           \A id \in TaskIDs : tasks'[id].state = tasks[id].state
    PROVE  WriteAhead' /\ InFlightLogged'
<1>1. \A i \in DOMAIN entries : entries[i].rec.task \in TaskIDs
  BY EntryTask
<1> QED BY <1>1 DEF WriteAhead, InFlightLogged, LastOfTask, InFlight, Exists

\* Every step keeps the log ahead of the memory by at most the entry of the
\* call in progress.
LEMMA WriteAheadStep ==
    TypeOK /\ RequestInv /\ WriteAhead /\ InFlightLogged /\ [Next]_vars
      => WriteAhead' /\ InFlightLogged'
<1> SUFFICES ASSUME TypeOK, RequestInv, WriteAhead, InFlightLogged, [Next]_vars
             PROVE  WriteAhead' /\ InFlightLogged'
  OBVIOUS
<1>a. \A i \in DOMAIN entries : entries[i].rec.task \in TaskIDs
  BY EntryTask
<1>1. CASE AppendOK
  <2> DEFINE rec == [task |-> req.id, state |-> req.to, data |-> req.data]
             e   == [seq |-> sequence', rec |-> rec]
             n   == Len(entries)
  <2>1. /\ phase = "log" /\ phase' = "apply"
        /\ entries' = Append(entries, e)
        /\ req'.id = req.id /\ req'.to = req.to
        /\ tasks' = tasks /\ closed' = closed
    BY <1>1 DEF AppendOK, WAL!AppendEntry, TypeOK, Request
  <2>2. e.rec.task = req.id /\ e.rec.state = req.to
    OBVIOUS
  <2> HIDE DEF e, rec
  <2>3. /\ n \in Nat
        /\ DOMAIN entries = 1..n /\ DOMAIN entries' = 1..(n + 1)
        /\ entries'[n + 1] = e
        /\ \A i \in 1..n : entries'[i] = entries[i]
    BY <2>1 DEF TypeOK, WAL!WalTypeOK
  <2>4. ASSUME NEW i \in 1..(n + 1), LastOfTask(i)'
        PROVE  entries'[i].rec.state =
                 IF phase' = "apply" /\ req'.id = entries'[i].rec.task
                   THEN req'.to
                   ELSE tasks'[entries'[i].rec.task].state
    <3>1. CASE i = n + 1
      BY <3>1, <2>1, <2>2, <2>3
    <3>2. CASE i \in 1..n
      <4>1. entries[i].rec.task # req.id
        BY <2>2, <2>3, <2>4, <3>2 DEF LastOfTask
      <4>2. LastOfTask(i)
        BY <2>3, <2>4, <3>2 DEF LastOfTask
      <4>3. entries[i].rec.state = tasks[entries[i].rec.task].state
        BY <4>2, <3>2, <2>1, <2>3 DEF WriteAhead, InFlight
      <4> QED BY <4>1, <4>3, <3>2, <2>1, <2>3
    <3> QED BY <3>1, <3>2, <2>3
  <2>5. ASSUME NEW id \in TaskIDs, ~closed', Exists(tasks'[id])
        PROVE  \E i \in DOMAIN entries' : entries'[i].rec.task = id
    BY <2>1, <2>3, <2>5 DEF WriteAhead
  <2>6. InFlightLogged'
    BY <2>1, <2>2, <2>3 DEF InFlightLogged
  <2> QED BY <2>3, <2>4, <2>5, <2>6 DEF WriteAhead, InFlight
<1>2. CASE StoreTask
  <2>1. /\ phase = "apply" /\ phase' = "idle"
        /\ entries' = entries /\ closed' = closed
    BY <1>2 DEF StoreTask, Release, logVars
  <2> QED BY <1>2, <1>a, <2>1, StoreTaskState
      DEF WriteAhead, InFlightLogged, LastOfTask, InFlight, Exists
<1>3. CASE ApplyState
  <2>1. /\ phase = "apply" /\ phase' = "stamp"
        /\ entries' = entries /\ closed' = closed
    BY <1>3 DEF ApplyState, logVars
  <2> QED BY <1>3, <1>a, <2>1, ApplyStateState
      DEF WriteAhead, InFlightLogged, LastOfTask, InFlight, Exists
<1>4. CASE CloseEngine
  <2>1. entries' = <<>> /\ closed' = TRUE
    BY <1>4 DEF CloseEngine, WAL!Close
  <2>2. DOMAIN entries' = {}
    BY <2>1
  <2> QED BY <2>1, <2>2 DEF WriteAhead, InFlightLogged
<1>5. CASE /\ ~AppendOK /\ ~StoreTask /\ ~ApplyState /\ ~CloseEngine
           /\ phase = "apply"
  <2>1. /\ entries' = entries /\ closed' = closed /\ phase' = phase
        /\ req' = req /\ tasks' = tasks
    BY <1>5 DEF Next, BeginCreate, BeginTransition, BeginComplete, BeginFail,
       Acquire, AppendFails, FinishTransition, CheckpointEngine,
       WAL!Checkpoint, vars, engineVars, logVars
  <2> QED BY <2>1 DEF WriteAhead, InFlightLogged, LastOfTask, InFlight, Exists
<1>6. CASE /\ ~AppendOK /\ ~StoreTask /\ ~ApplyState /\ ~CloseEngine
           /\ phase # "apply"
  <2>1. entries' = entries /\ closed' = closed /\ phase' # "apply"
    BY <1>6 DEF Next, BeginCreate, BeginTransition, BeginComplete, BeginFail,
       Acquire, AppendFails, FinishTransition, Release, CheckpointEngine,
          WAL!Checkpoint, vars, engineVars, logVars
  <2>2. \A id \in TaskIDs : tasks'[id].state = tasks[id].state
    BY <1>6, StatesUnchanged
  <2> QED BY <1>6, <2>1, <2>2, WriteAheadFrame
<1> QED BY <1>1, <1>2, <1>3, <1>4, <1>5, <1>6

\* The index follows the map: StoreTask adds to both, nothing removes.
LEMMA IndexStep ==
    TypeOK /\ RequestInv /\ IndexMatchesTasks /\ [Next]_vars => IndexMatchesTasks'
<1> SUFFICES ASSUME TypeOK, RequestInv, IndexMatchesTasks, [Next]_vars
             PROVE  IndexMatchesTasks'
  OBVIOUS
<1>a. \A id \in TaskIDs : WorkflowOf(id) \in Workflows
  BY DEF TaskIDs, WorkflowOf
<1>1. CASE StoreTask
  <2> DEFINE w == WorkflowOf(req.id)
             s == workflowTasks[w]
  <2>1. /\ workflowTasks' = [workflowTasks EXCEPT ![w] = Append(s, req.id)]
        /\ req.id \in TaskIDs /\ w \in Workflows
        /\ s \in Seq(TaskIDs)
    BY <1>1, <1>a, StoreTaskState DEF StoreTask, TypeOK
  <2>2. /\ Exists(tasks'[req.id])
        /\ \A id \in TaskIDs : id # req.id => tasks'[id] = tasks[id]
    BY <1>1, StoreTaskState DEF Exists, Pending, Absent
  <2>3. /\ workflowTasks'[w] = Append(s, req.id)
        /\ \A x \in Workflows : x # w => workflowTasks'[x] = workflowTasks[x]
    BY <2>1 DEF TypeOK
  <2>4. /\ DOMAIN Append(s, req.id) = 1..(Len(s) + 1)
        /\ DOMAIN s = 1..Len(s) /\ Len(s) \in Nat
        /\ Append(s, req.id)[Len(s) + 1] = req.id
        /\ \A k \in 1..Len(s) : Append(s, req.id)[k] = s[k]
    BY <2>1
  <2>5. ASSUME NEW id \in TaskIDs
        PROVE  Exists(tasks'[id]) <=>
                 \E k \in DOMAIN workflowTasks'[WorkflowOf(id)] :
                   workflowTasks'[WorkflowOf(id)][k] = id
    <3>1. CASE id = req.id
      <4>1. Len(s) + 1 \in DOMAIN workflowTasks'[w]
        BY <2>3, <2>4
      <4> QED BY <3>1, <4>1, <2>2, <2>3, <2>4
    <3>2. CASE id # req.id /\ WorkflowOf(id) = w
      <4>1. Exists(tasks[id]) <=> \E k \in DOMAIN s : s[k] = id
        BY <3>2 DEF IndexMatchesTasks
      <4>2. (\E k \in DOMAIN s : s[k] = id)
              <=> \E k \in 1..(Len(s) + 1) : Append(s, req.id)[k] = id
        BY <3>2, <2>4
      <4> QED BY <3>2, <4>1, <4>2, <2>2, <2>3, <2>4
    <3>3. CASE WorkflowOf(id) # w
      <4>1. id # req.id
        BY <3>3
      <4>2. workflowTasks'[WorkflowOf(id)] = workflowTasks[WorkflowOf(id)]
        BY <3>3, <1>a, <2>3
      <4> QED BY <4>1, <4>2, <2>2 DEF IndexMatchesTasks
    <3> QED BY <3>1, <3>2, <3>3
  <2> QED BY <2>5 DEF IndexMatchesTasks
<1>2. CASE ApplyState
  <2>1. workflowTasks' = workflowTasks
    BY <1>2 DEF ApplyState
  <2>2. \A id \in TaskIDs : Exists(tasks'[id]) <=> Exists(tasks[id])
    BY <1>2, ApplyStateState
  <2> QED BY <2>1, <2>2 DEF IndexMatchesTasks
<1>3. CASE ~StoreTask /\ ~ApplyState
  <2>1. workflowTasks' = workflowTasks
    BY <1>3 DEF Next, BeginCreate, BeginTransition, BeginComplete, BeginFail,
       AppendOK, AppendFails, FinishTransition, CheckpointEngine,
       CloseEngine, vars, engineVars
  <2>2. \A id \in TaskIDs : tasks'[id].state = tasks[id].state
    BY <1>3, StatesUnchanged
  <2> QED BY <2>1, <2>2 DEF IndexMatchesTasks, Exists
<1> QED BY <1>1, <1>2, <1>3

\* A clock that never repeats a reading never repeats an id.
LEMMA FreshStep ==
    TypeOK /\ RequestInv /\ FreshIDs /\ [Next]_vars => FreshIDs'
<1> SUFFICES ASSUME TypeOK, RequestInv, FreshIDs, [Next]_vars, ~ClockMayRepeat
             PROVE  /\ \A id \in TaskIDs : id[2] > now' => ~Exists(tasks'[id])
                    /\ phase' \in {"log", "apply"} /\ req'.op = "create" =>
                         ~Exists(tasks'[req'.id]) /\ req'.id[2] <= now'
  BY DEF FreshIDs
<1> USE EngineAssumption
<1>0. /\ \A id \in TaskIDs : id[2] > now => ~Exists(tasks[id])
      /\ phase \in {"log", "apply"} /\ req.op = "create" =>
           ~Exists(tasks[req.id]) /\ req.id[2] <= now
      /\ now \in Nat
  BY DEF FreshIDs, TypeOK
<1>1. ASSUME NEW wf \in Workflows, NEW p \in Payloads, NEW n \in 1..MaxNano,
             BeginCreate(wf, p, n)
      PROVE  /\ \A id \in TaskIDs : id[2] > now' => ~Exists(tasks'[id])
             /\ ~Exists(tasks'[req'.id]) /\ req'.id[2] <= now'
  <2>1. /\ n = now + 1 /\ now' = n /\ tasks' = tasks
        /\ req'.id = <<wf, n>>
    BY <1>0, <1>1 DEF BeginCreate, NextNano, Later, Acquire
  <2>2. /\ <<wf, n>> \in TaskIDs
        /\ \A id \in TaskIDs : id[2] \in Int
    BY DEF TaskIDs
  <2> QED BY <2>1, <2>2, <1>0
<1>2. CASE StoreTask
  <2>1. now' = now /\ phase' = "idle" /\ req.op = "create"
        /\ phase = "apply"
    BY <1>2 DEF StoreTask, Release
  <2>2. req.id[2] <= now /\ req.id \in TaskIDs
    BY <1>0, <2>1, <1>2, StoreTaskState
  <2>3. req.id[2] \in Int
    BY <2>2 DEF TaskIDs
  <2>4. ASSUME NEW id \in TaskIDs, id[2] > now
        PROVE  ~Exists(tasks'[id])
    <3>1. id # req.id
      BY <2>2, <2>3, <2>4, <1>0
    <3> QED BY <3>1, <2>4, <1>0, <1>2, StoreTaskState
  <2> QED BY <2>1, <2>4
<1>3. CASE ApplyState
  <2>1. now' = now /\ phase' = "stamp"
    BY <1>3 DEF ApplyState
  <2>2. \A id \in TaskIDs : Exists(tasks'[id]) <=> Exists(tasks[id])
    BY <1>3, ApplyStateState
  <2> QED BY <2>1, <2>2, <1>0
<1>4. CASE AppendOK
  <2>1. /\ now' = now /\ tasks' = tasks /\ phase = "log"
        /\ req'.op = req.op /\ req'.id = req.id
    BY <1>4 DEF AppendOK, TypeOK, Request
  <2> QED BY <2>1, <1>0
<1>5. CASE /\ ~StoreTask /\ ~ApplyState /\ ~AppendOK
           /\ ~\E wf \in Workflows, p \in Payloads, n \in 1..MaxNano :
                  BeginCreate(wf, p, n)
  <2>1. /\ now' = now
        /\ \/ phase' \notin {"log", "apply"}
           \/ req'.op # "create"
           \/ phase' = phase /\ req' = req /\ tasks' = tasks
    BY <1>5 DEF Next, BeginTransition, BeginComplete, BeginFail, Acquire,
       AppendFails, FinishTransition, Release, CheckpointEngine,
       CloseEngine, vars, engineVars
  <2>2. \A id \in TaskIDs : tasks'[id].state = tasks[id].state
    BY <1>5, StatesUnchanged
  <2> QED BY <2>1, <2>2, <1>0 DEF Exists
<1> QED BY <1>1, <1>2, <1>3, <1>4, <1>5

-----------------------------------------------------------------------------

\* The invariant holds at the start.
LEMMA InitInv == Init => EngineInv
<1> SUFFICES ASSUME Init PROVE EngineInv
  OBVIOUS
<1>1. TypeOK /\ RequestInv
  BY InitType
<1>2. CountersInv
  BY DEF Init, WAL!WalInit, CountersInv, CounterTracksLog
<1>3. /\ DOMAIN entries = {}
      /\ phase = "idle"
      /\ \A id \in TaskIDs : ~Exists(tasks[id])
      /\ \A wf \in Workflows : DOMAIN workflowTasks[wf] = {}
  BY DEF Init, WAL!WalInit, Exists, NoTask, SetState, NewTask
<1>4. WriteAhead /\ InFlightLogged /\ FreshIDs
  BY <1>3 DEF WriteAhead, InFlightLogged, FreshIDs
<1>5. IndexMatchesTasks
  BY <1>3 DEF IndexMatchesTasks, TaskIDs, WorkflowOf
<1> QED BY <1>1, <1>2, <1>4, <1>5 DEF EngineInv

\* The engine is in the invariant at all times.
THEOREM EngineInvariant == Spec => []EngineInv
<1>1. EngineInv /\ [Next]_vars => EngineInv'
  BY NextType, CountersStep, WriteAheadStep, IndexStep, FreshStep DEF EngineInv
<1> QED BY InitInv, <1>1, PTL DEF Spec

\* The variables of the engine and its log keep their types.
THEOREM TypeCorrect == Spec => []TypeOK
<1>1. EngineInv => TypeOK
  BY DEF EngineInv
<1> QED BY <1>1, EngineInvariant, PTL

\* The log is ahead of the memory by at most the entry of the call in progress,
\* with any number of tasks, failing appends, a close at any moment, and ids
\* that repeat: CreateTask, TransitionTask, CompleteTask and FailTask append
\* before they apply.
THEOREM LogIsWrittenAhead == Spec => []WriteAhead
<1>1. EngineInv => WriteAhead
  BY DEF EngineInv
<1> QED BY <1>1, EngineInvariant, PTL

\* The second check of the transition, in TransitionTo after the append, never
\* refuses: the error returns behind it are unreachable.
THEOREM TransitionNeverRejectedAfterAppend == Spec => []ApplyNeverRejected
<1>1. EngineInv => ApplyNeverRejected
  BY DEF EngineInv, RequestInv, ApplyNeverRejected
<1> QED BY <1>1, EngineInvariant, PTL

\* Whatever numbers callers pass to Checkpoint, and whenever: what Replay leaves
\* out between two calls is in memory.
THEOREM CheckpointsCommitAppliedEntries == Spec => []CommittedIsApplied
<1>1. EngineInv => CommittedIsApplied
  <2> SUFFICES ASSUME EngineInv, phase \notin {"apply", "stamp"}
               PROVE  committed <= sequenceCounter
    BY DEF CommittedIsApplied
  <2>1. sequence = sequenceCounter + 0 /\ sequenceCounter \in Nat
    BY EngineAssumption DEF EngineInv, CountersInv, CounterTracksLog, TypeOK
  <2>2. committed <= sequence
    BY DEF EngineInv, CountersInv
  <2> QED BY <2>1, <2>2
<1> QED BY <1>1, EngineInvariant, PTL

\* The sequence counter lags the log by the call in progress.
THEOREM CounterFollowsLog == Spec => []CounterTracksLog
<1>1. EngineInv => CounterTracksLog
  BY DEF EngineInv, CountersInv
<1> QED BY <1>1, EngineInvariant, PTL

\* GetWorkflowTasks finds every task it lists, and lists every task.
THEOREM IndexIsExact == Spec => []IndexMatchesTasks
<1>1. EngineInv => IndexMatchesTasks
  BY DEF EngineInv
<1> QED BY <1>1, EngineInvariant, PTL
=============================================================================
