----------------------- MODULE EngineLifecycleProofs -----------------------
(***************************************************************************)
(* The engine implements TaskLifecycle when the clock never repeats a      *)
(* reading.  Steps map as follows: StoreTask is Appear, ApplyState is Move *)
(* or End, every other step leaves the state and the outcome of every task *)
(* alone.  That a new task appears only where there was none is FreshIDs.  *)
(*                                                                         *)
(* So does the log, as long as it is open: an entry is appended for each   *)
(* step of a task's life before memory shows it, and the log alone tells   *)
(* how often a task was attempted and what it ended with.                  *)
(***************************************************************************)
EXTENDS EngineProofs, FiniteSetTheorems

-----------------------------------------------------------------------------

\* A task that is not completed or failed has no outcome.
LEMMA NoOutcome ==
    ASSUME NEW t, t.state \notin {Completed, Failed}
    PROVE  Outcome(t) = Nil
BY DEF Outcome

\* The outcome a task can have.
LEMMA OutcomeType ==
    ASSUME NEW t \in Task
    PROVE  Outcome(t) \in Data \cup {Nil}
BY DEF Outcome, Task, Data, Completed, Failed

\* The states are different strings, and a state that can be left is neither
\* completed nor failed.
LEMMA LeavingMeansNoOutcome ==
    ASSUME NEW from, NEW to, CanTransition(from, to)
    PROVE  from \notin {Completed, Failed} /\ to \in AllStates
BY DEF CanTransition, Transitions, AllStates, Pending, Scheduled, Dispatched,
       Completed, Failed, Cancelled

\* Steps other than StoreTask and ApplyState leave every outcome alone.
LEMMA OutcomesUnchanged ==
    ASSUME TypeOK, RequestInv, [Next]_vars, ~StoreTask, ~ApplyState
    PROVE  \A id \in TaskIDs : Outcome(tasks'[id]) = Outcome(tasks[id])
<1> USE DEF TypeOK
<1>a. \A id \in TaskIDs : tasks'[id].state = tasks[id].state
  BY StatesUnchanged
<1>b. Dispatched \notin {Completed, Failed}
  BY DEF Dispatched, Completed, Failed
<1>1. ASSUME NEW id \in TaskIDs, NEW r \in Results, BeginComplete(id, r)
      PROVE  \A x \in TaskIDs : Outcome(tasks'[x]) = Outcome(tasks[x])
  <2>1. /\ tasks[id].state = Dispatched /\ tasks'[id].state = Dispatched
        /\ \A x \in TaskIDs : x # id => tasks'[x] = tasks[x]
    BY <1>1, <1>a DEF BeginComplete
  <2> QED BY <2>1, <1>b, NoOutcome
<1>2. ASSUME NEW id \in TaskIDs, NEW e \in Errors, BeginFail(id, e)
      PROVE  \A x \in TaskIDs : Outcome(tasks'[x]) = Outcome(tasks[x])
  <2>1. /\ tasks[id].state = Dispatched /\ tasks'[id].state = Dispatched
        /\ \A x \in TaskIDs : x # id => tasks'[x] = tasks[x]
    BY <1>2, <1>a DEF BeginFail
  <2> QED BY <2>1, <1>b, NoOutcome
<1>3. CASE FinishTransition
  <2>1. /\ req.id \in TaskIDs /\ req.to \in AllStates
        /\ tasks[req.id].state = req.to
        /\ tasks' = [tasks EXCEPT ![req.id] = StampFields(tasks[req.id], req.to)]
    BY <1>3 DEF FinishTransition, RequestInv, Request
  <2>2. tasks[req.id] \in Task
    BY <2>1, ExistingIsTask DEF Exists, Absent, AllStates, Pending, Scheduled,
       Dispatched, Completed, Failed, Cancelled
  <2>3. /\ StampFields(tasks[req.id], req.to).result = tasks[req.id].result
        /\ StampFields(tasks[req.id], req.to).error = tasks[req.id].error
    BY <2>2 DEF StampFields, Task
  <2>4. Outcome(tasks'[req.id]) = Outcome(tasks[req.id])
    BY <1>a, <2>1, <2>3 DEF Outcome
  <2> QED BY <2>1, <2>4
<1>4. CASE UNCHANGED tasks
  BY <1>4
<1>5. \/ UNCHANGED tasks
      \/ FinishTransition
      \/ \E id \in TaskIDs, r \in Results : BeginComplete(id, r)
      \/ \E id \in TaskIDs, e \in Errors : BeginFail(id, e)
  BY DEF Next, BeginCreate, BeginTransition, AppendOK, AppendFails,
     CheckpointEngine, CloseEngine, vars, engineVars
<1> QED BY <1>1, <1>2, <1>3, <1>4, <1>5

-----------------------------------------------------------------------------

\* TaskLifecycle is built on the same state machine.
LEMMA SameStateMachine ==
    /\ Memory!Absent = Absent /\ Memory!Pending = Pending
    /\ Memory!Completed = Completed /\ Memory!Failed = Failed
    /\ Memory!AllStates = AllStates
    /\ Memory!Data = Data
    /\ \A from, to : Memory!CanTransition(from, to) <=> CanTransition(from, to)
BY DEF Memory!Absent, Memory!Pending, Memory!Scheduled, Memory!Dispatched,
       Memory!Completed, Memory!Failed, Memory!Cancelled, Memory!AllStates,
       Memory!Data, Memory!CanTransition, Memory!Transitions,
       Absent, Pending, Scheduled, Dispatched, Completed, Failed, Cancelled,
       AllStates, Data, CanTransition, Transitions

\* Every step of the engine is a step of TaskLifecycle or changes nothing it
\* shows.
LEMMA LifecycleStep ==
    ASSUME ~ClockMayRepeat, EngineInv, [Next]_vars
    PROVE  [Memory!LifecycleNext]_(Memory!lifecycleVars)
<1> USE DEF EngineInv
<1> DEFINE status  == [id \in TaskIDs |-> tasks[id].state]
           outcome == [id \in TaskIDs |-> Outcome(tasks[id])]
<1>1. CASE StoreTask
  <2>1. /\ req.id \in TaskIDs
        /\ tasks'[req.id].state = Pending
        /\ \A id \in TaskIDs : id # req.id => tasks'[id] = tasks[id]
    BY <1>1, StoreTaskState
  <2>2. tasks[req.id].state = Absent
    BY <1>1 DEF StoreTask, FreshIDs, Exists
  <2>3. Pending \notin {Completed, Failed} /\ Absent \notin {Completed, Failed}
    BY DEF Pending, Completed, Failed, Absent
  <2>4. status' = [status EXCEPT ![req.id] = Pending]
    BY <2>1
  <2>5. outcome' = outcome
    BY <2>1, <2>2, <2>3, NoOutcome
  <2>6. Memory!Appear(req.id)
    BY <2>1, <2>2, <2>4, <2>5, SameStateMachine DEF Memory!Appear
  <2>7. Memory!LifecycleNext
    BY <2>1, <2>6 DEF Memory!LifecycleNext, Memory!Appear
  <2> QED BY <2>7
<1>2. CASE ApplyState
  <2>1. /\ req.id \in TaskIDs
        /\ CanTransition(tasks[req.id].state, req.to)
        /\ tasks[req.id] \in Task
        /\ tasks'[req.id] = SetState(tasks[req.id], req.to)
        /\ tasks'[req.id].state = req.to
        /\ \A id \in TaskIDs : id # req.id => tasks'[id] = tasks[id]
    BY <1>2, ApplyStateState
  <2>2. /\ tasks[req.id].state \notin {Completed, Failed}
        /\ req.to \in AllStates
    BY <2>1, LeavingMeansNoOutcome
  <2>3. status' = [status EXCEPT ![req.id] = req.to]
    BY <2>1
  <2>4. CASE req.to \notin {Completed, Failed}
    <3>1. outcome' = outcome
      BY <2>1, <2>2, <2>4, NoOutcome
    <3>2. Memory!Move(req.id, req.to)
      BY <2>1, <2>3, <2>4, <3>1, SameStateMachine DEF Memory!Move
    <3>3. Memory!LifecycleNext
      BY <2>1, <2>2, <3>2, SameStateMachine
         DEF Memory!LifecycleNext, Memory!Move
    <3> QED BY <3>3
  <2>5. CASE req.to \in {Completed, Failed}
    <3>0. PICK o : o = Outcome(tasks'[req.id])
      OBVIOUS
    <3>1. o \in Data \cup {Nil}
      BY <3>0, <2>1, <2>2, AssignType, OutcomeType
    <3>2. outcome' = [outcome EXCEPT ![req.id] = o]
      BY <3>0, <2>1
    <3>3. Memory!End(req.id, req.to, o)
      BY <2>1, <2>3, <2>5, <3>2, SameStateMachine DEF Memory!End
    <3>4. Memory!LifecycleNext
      <4>1. /\ req.to \in {Memory!Completed, Memory!Failed}
            /\ o \in Memory!Data \cup {Nil}
        BY <2>5, <3>1, SameStateMachine
      <4> HIDE DEF status, outcome
      <4>2. \E id \in TaskIDs : \E to \in {Memory!Completed, Memory!Failed} :
              \E data \in Memory!Data \cup {Nil} : Memory!End(id, to, data)
        <5>1. req.id \in TaskIDs
          BY <2>1
        <5> USE <5>1, <4>1
        <5> WITNESS req.id \in TaskIDs
        <5> WITNESS req.to \in {Memory!Completed, Memory!Failed}
        <5> WITNESS o \in Memory!Data \cup {Nil}
        <5> QED BY <3>3
      <4> QED BY <4>2 DEF Memory!LifecycleNext
    <3> QED BY <3>4
  <2> QED BY <2>4, <2>5
<1>3. CASE ~StoreTask /\ ~ApplyState
  <2>1. status' = status
    BY <1>3, StatesUnchanged
  <2>2. outcome' = outcome
    BY <1>3, OutcomesUnchanged
  <2> QED BY <2>1, <2>2 DEF Memory!lifecycleVars
<1> QED BY <1>1, <1>2, <1>3

\* With a clock that never repeats a reading, tasks in memory appear once,
\* follow the transition table and keep their outcome, for any number of tasks
\* and whatever fails or is closed.
THEOREM EngineImplementsLifecycle ==
    ASSUME ~ClockMayRepeat PROVE Spec => MemoryFollowsLifecycle
<1>1. Init => Memory!LifecycleInit
  <2> SUFFICES ASSUME Init PROVE Memory!LifecycleInit
    OBVIOUS
  <2>1. \A id \in TaskIDs : tasks[id] = NoTask
    BY DEF Init
  <2>2. NoTask.state = Absent
    BY DEF NoTask, SetState, NewTask
  <2>3. Outcome(NoTask) = Nil
    BY <2>2, NoOutcome DEF Absent, Completed, Failed
  <2> QED BY <2>1, <2>2, <2>3, SameStateMachine DEF Memory!LifecycleInit
<1>2. EngineInv /\ [Next]_vars => [Memory!LifecycleNext]_(Memory!lifecycleVars)
  BY LifecycleStep
<1> QED
  BY <1>1, <1>2, EngineInvariant, PTL
     DEF Spec, MemoryFollowsLifecycle, Memory!LifecycleSpec

-----------------------------------------------------------------------------
(* What the log alone tells: how often each task was attempted.            *)

\* Append adds one position, about the task and the state of the call, and
\* leaves the other entries where they are.
LEMMA AppendAdds ==
    ASSUME TypeOK, AppendOK
    PROVE  /\ req \in Request /\ phase = "log" /\ phase' = "apply"
           /\ req'.op = req.op /\ req'.id = req.id /\ req'.to = req.to
           /\ req'.data = req.data
           /\ tasks' = tasks /\ closed' = closed
           /\ Len(entries) \in Nat
           /\ DOMAIN entries = 1..Len(entries)
           /\ DOMAIN entries' = 1..(Len(entries) + 1)
           /\ \A i \in 1..Len(entries) : entries'[i] = entries[i]
           /\ entries'[Len(entries) + 1].rec =
                [task |-> req.id, state |-> req.to, data |-> req.data]
<1> DEFINE rec == [task |-> req.id, state |-> req.to, data |-> req.data]
           e   == [seq |-> sequence', rec |-> rec]
<1>1. /\ req \in Request /\ phase = "log" /\ phase' = "apply"
      /\ req' = [req EXCEPT !.seq = sequence']
      /\ tasks' = tasks /\ closed' = closed
      /\ entries' = Append(entries, e)
      /\ entries \in Seq(WAL!Entry)
  BY DEF AppendOK, WAL!AppendEntry, TypeOK, WAL!WalTypeOK
<1>2. /\ req'.op = req.op /\ req'.id = req.id /\ req'.to = req.to
      /\ req'.data = req.data
  BY <1>1 DEF Request
<1>3. e.rec = rec
  OBVIOUS
<1> HIDE DEF e
<1>4. /\ Len(entries) \in Nat
      /\ DOMAIN entries = 1..Len(entries)
      /\ DOMAIN entries' = 1..(Len(entries) + 1)
      /\ \A i \in 1..Len(entries) : entries'[i] = entries[i]
      /\ entries'[Len(entries) + 1] = e
  BY <1>1
<1> QED BY <1>1, <1>2, <1>3, <1>4

\* So it adds that position to the entries that move the task to the state,
\* and to no other set of entries.
LEMMA AppendMoves ==
    ASSUME TypeOK, AppendOK, NEW id, NEW to
    PROVE  /\ Len(entries) + 1 \notin EntriesTo(id, to)
           /\ EntriesTo(id, to)' =
                IF req.id = id /\ req.to = to
                  THEN EntriesTo(id, to) \cup {Len(entries) + 1}
                  ELSE EntriesTo(id, to)
<1> DEFINE n == Len(entries)
<1>1. /\ n \in Nat /\ DOMAIN entries = 1..n /\ DOMAIN entries' = 1..(n + 1)
      /\ \A i \in 1..n : entries'[i] = entries[i]
      /\ entries'[n + 1].rec.task = req.id
      /\ entries'[n + 1].rec.state = req.to
  BY AppendAdds
<1>2. 1..(n + 1) = (1..n) \cup {n + 1} /\ n + 1 \notin 1..n
  BY <1>1
<1> QED BY <1>1, <1>2 DEF EntriesTo

\* The entries about a task are finitely many.
LEMMA EntriesFinite ==
    ASSUME TypeOK, NEW id, NEW to
    PROVE  /\ IsFiniteSet(EntriesTo(id, to))
           /\ Cardinality(EntriesTo(id, to)) \in Nat
<1>1. Len(entries) \in Nat /\ DOMAIN entries = 1..Len(entries)
  BY DEF TypeOK, WAL!WalTypeOK
<1>2. IsFiniteSet(1..Len(entries))
  BY <1>1, FS_Interval
<1>3. EntriesTo(id, to) \in SUBSET (1..Len(entries))
  BY <1>1 DEF EntriesTo
<1> QED BY <1>2, <1>3, FS_Subset, FS_CardinalityType

\* Close is the only step that changes the log without Append.
LEMMA LogUnchanged ==
    ASSUME [Next]_vars, ~AppendOK, ~CloseEngine
    PROVE  entries' = entries /\ closed' = closed
BY DEF Next, BeginCreate, BeginTransition, BeginComplete, BeginFail, AppendFails,
       StoreTask, ApplyState, FinishTransition, CheckpointEngine,
       WAL!Checkpoint, vars, logVars

\* Only creating a task and finishing a transition write its attempts.
LEMMA AttemptsUnchanged ==
    ASSUME TypeOK, [Next]_vars, ~StoreTask, ~FinishTransition
    PROVE  \A id \in TaskIDs : tasks'[id].attempts = tasks[id].attempts
<1> USE DEF TypeOK
<1>1. ASSUME NEW id \in TaskIDs, NEW r \in Results, BeginComplete(id, r)
      PROVE  \A x \in TaskIDs : tasks'[x].attempts = tasks[x].attempts
  BY <1>1 DEF BeginComplete, Task, NoTask, SetState, NewTask
<1>2. ASSUME NEW id \in TaskIDs, NEW e \in Errors, BeginFail(id, e)
      PROVE  \A x \in TaskIDs : tasks'[x].attempts = tasks[x].attempts
  BY <1>2 DEF BeginFail, Task, NoTask, SetState, NewTask
<1>3. CASE ApplyState
  <2>1. /\ req.id \in TaskIDs
        /\ tasks' = [tasks EXCEPT ![req.id] = SetState(tasks[req.id], req.to)]
    BY <1>3 DEF ApplyState, Request
  <2>2. SetState(tasks[req.id], req.to).attempts = tasks[req.id].attempts
    BY <2>1 DEF SetState, Task, NoTask, NewTask
  <2> QED BY <2>1, <2>2
<1>4. \/ UNCHANGED tasks
      \/ ApplyState
      \/ \E id \in TaskIDs, r \in Results : BeginComplete(id, r)
      \/ \E id \in TaskIDs, e \in Errors : BeginFail(id, e)
  BY DEF Next, BeginCreate, BeginTransition, AppendOK, AppendFails,
     CheckpointEngine, CloseEngine, vars, engineVars
<1> QED BY <1>1, <1>2, <1>3, <1>4

\* Every step keeps the DISPATCHED entries of a task in step with its attempts:
\* the entry comes first, the attempt is counted when the call finishes.
LEMMA AttemptsStep ==
    ASSUME ~ClockMayRepeat, EngineInv, AttemptsAreLogged, [Next]_vars
    PROVE  AttemptsAreLogged'
<1> USE DEF EngineInv
<1> DEFINE Counting(id) ==
             phase \in {"apply", "stamp"} /\ req.id = id /\ req.to = Dispatched
<1>a. \A id \in TaskIDs : tasks[id].attempts \in Nat
  BY DEF TypeOK, Task, NoTask, SetState, NewTask
<1>1. CASE closed'
  BY <1>1 DEF AttemptsAreLogged
<1>2. CASE AppendOK /\ ~closed'
  <2> SUFFICES ASSUME NEW id \in TaskIDs
               PROVE  Cardinality(EntriesTo(id, Dispatched)') =
                        tasks'[id].attempts + (IF Counting(id)' THEN 1 ELSE 0)
    BY DEF AttemptsAreLogged
  <2> DEFINE S == EntriesTo(id, Dispatched)
  <2>1. /\ phase = "log" /\ phase' = "apply" /\ ~closed /\ tasks' = tasks
        /\ req'.id = req.id /\ req'.to = req.to
    BY <1>2, AppendAdds
  <2>2. Cardinality(S) = tasks[id].attempts
    BY <1>a, <2>1 DEF AttemptsAreLogged
  <2>3. IsFiniteSet(S) /\ Len(entries) + 1 \notin S
    BY <1>2, EntriesFinite, AppendMoves
  <2>4. S' = IF req.id = id /\ req.to = Dispatched
               THEN S \cup {Len(entries) + 1} ELSE S
    BY <1>2, AppendMoves
  <2> HIDE DEF S
  <2>5. Cardinality(S \cup {Len(entries) + 1}) = Cardinality(S) + 1
    BY <2>3, FS_AddElement
  <2> USE DEF S
  <2> QED BY <1>a, <2>1, <2>2, <2>4, <2>5
<1>3. CASE StoreTask /\ ~closed'
  <2>1. /\ phase = "apply" /\ phase' = "idle" /\ req.op = "create" /\ ~closed
        /\ entries' = entries
    BY <1>3 DEF StoreTask, Release, logVars
  <2>2. /\ req.id \in TaskIDs /\ req.to = Pending
        /\ tasks' = [tasks EXCEPT ![req.id] =
                       NewTask(req.data, Hash[req.id] % PartitionCount)]
    BY <1>3, StoreTaskState DEF StoreTask
  <2>3. tasks[req.id] = NoTask
    BY <2>1, <2>2, ExistingIsTask DEF FreshIDs, TypeOK
  <2>4. tasks[req.id].attempts = 0
    BY <2>3 DEF NoTask, SetState, NewTask
  <2>5. tasks'[req.id].attempts = 0
    BY <2>2 DEF TypeOK, NewTask
  <2>6. \A id \in TaskIDs : tasks'[id].attempts = tasks[id].attempts
    BY <2>2, <2>4, <2>5 DEF TypeOK
  <2>7. \A id : ~Counting(id) /\ ~Counting(id)'
    BY <2>1, <2>2 DEF Pending, Dispatched
  <2> QED BY <2>1, <2>6, <2>7 DEF AttemptsAreLogged, EntriesTo
<1>4. CASE FinishTransition /\ ~closed'
  <2>1. /\ phase = "stamp" /\ phase' = "idle" /\ ~closed /\ entries' = entries
        /\ req.id \in TaskIDs
        /\ tasks' = [tasks EXCEPT ![req.id] = StampFields(tasks[req.id], req.to)]
    BY <1>4 DEF FinishTransition, Release, logVars, TypeOK, Request
  <2>2. StampFields(tasks[req.id], req.to).attempts =
          tasks[req.id].attempts + (IF req.to = Dispatched THEN 1 ELSE 0)
    BY <1>a, <2>1 DEF StampFields, TypeOK, Task, NoTask, SetState, NewTask
  <2>3. \A id \in TaskIDs :
          tasks'[id].attempts =
            tasks[id].attempts + (IF Counting(id) THEN 1 ELSE 0)
    BY <1>a, <2>1, <2>2 DEF TypeOK
  <2>4. \A id : ~Counting(id)'
    BY <2>1
  <2>5. \A id \in TaskIDs : tasks'[id].attempts \in Nat
    BY <1>a, <2>3
  <2> QED BY <1>a, <2>1, <2>3, <2>4, <2>5 DEF AttemptsAreLogged, EntriesTo
<1>5. CASE ~AppendOK /\ ~StoreTask /\ ~FinishTransition /\ ~closed'
  <2>0. ~CloseEngine
    BY <1>5 DEF CloseEngine, WAL!Close
  <2>1. entries' = entries /\ ~closed
    BY <1>5, <2>0, LogUnchanged
  <2>2. \A id \in TaskIDs : tasks'[id].attempts = tasks[id].attempts
    BY <1>5, AttemptsUnchanged
  <2>3. \A id : Counting(id)' <=> Counting(id)
    BY <1>5 DEF Next, BeginCreate, BeginTransition, BeginComplete, BeginFail,
       Acquire, AppendFails, ApplyState, Release, CheckpointEngine,
       CloseEngine, vars, engineVars
  <2> QED BY <2>1, <2>2, <2>3 DEF AttemptsAreLogged, EntriesTo
<1> QED BY <1>1, <1>2, <1>3, <1>4, <1>5

\* While the log is open it tells how often each task was attempted, whatever
\* appends fail and however calls and checkpoints interleave, if no id is given
\* to two tasks: a recovery that counts DISPATCHED entries finds the Attempts
\* that TransitionTo counted.
THEOREM AttemptsAreRecoverable ==
    ASSUME ~ClockMayRepeat PROVE Spec => []AttemptsAreLogged
<1>1. Init => AttemptsAreLogged
  <2> SUFFICES ASSUME Init, NEW id \in TaskIDs
               PROVE  Cardinality(EntriesTo(id, Dispatched)) = tasks[id].attempts + 0
    BY DEF Init, AttemptsAreLogged
  <2>1. EntriesTo(id, Dispatched) = {}
    BY DEF Init, WAL!WalInit, EntriesTo
  <2>2. tasks[id].attempts = 0
    BY DEF Init, NoTask, SetState, NewTask
  <2> QED BY <2>1, <2>2, FS_EmptySet
<1>2. EngineInv /\ AttemptsAreLogged /\ [Next]_vars => AttemptsAreLogged'
  BY AttemptsStep
<1> QED BY <1>1, <1>2, EngineInvariant, PTL DEF Spec

-----------------------------------------------------------------------------
(* What the log alone tells: what each task ended with.                    *)

\* TransitionTask is used to schedule, dispatch, give up and cancel; outcomes
\* are stored with CompleteTask and FailTask.
OutcomesByResult == {Completed, Failed} \cap TransitionTargets = {}

\* The field that CompleteTask or FailTask writes before it appends.
Stored(id, to) == IF to = Completed THEN tasks[id].result ELSE tasks[id].error

\* The task completed or failed, or its entry that says so is in the log.
Ended(id, to) == tasks[id].state = to \/ (InFlight(id) /\ req.to = to)

\* What makes OutcomeIsLogged inductive: the data a call is about to append is
\* the data it stored, and a task has an entry for an outcome exactly if it
\* ended with that outcome, one entry, with the data that is stored.
RequestStored ==
    phase \in {"log", "apply"} /\ req.to \in {Completed, Failed} =>
      req.data = Stored(req.id, req.to)

OutcomeEntries ==
    ~closed => \A id \in TaskIDs, to \in {Completed, Failed} :
      IF Ended(id, to)
        THEN \E i \in DOMAIN entries : /\ EntriesTo(id, to) = {i}
                                       /\ entries[i].rec.data = Stored(id, to)
        ELSE EntriesTo(id, to) = {}

\* A call that will append an outcome stored it first, in the task it is about.
LEMMA RequestStoredStep ==
    ASSUME OutcomesByResult, EngineInv, RequestStored, [Next]_vars
    PROVE  RequestStored'
<1> USE DEF EngineInv
<1>a. /\ Pending \notin {Completed, Failed} /\ Completed # Failed
      /\ Dispatched \in AllStates
  BY DEF Pending, Completed, Failed, Dispatched, AllStates
<1>1. ASSUME NEW wf \in Workflows, NEW p \in Payloads, NEW n \in 1..MaxNano,
             BeginCreate(wf, p, n)
      PROVE  RequestStored'
  <2>1. req'.to = Pending
    BY <1>1 DEF BeginCreate, Acquire
  <2> QED BY <2>1, <1>a DEF RequestStored
<1>2. ASSUME NEW id \in TaskIDs, NEW to \in TransitionTargets,
             BeginTransition(id, to)
      PROVE  RequestStored'
  <2>1. req'.to = to
    BY <1>2 DEF BeginTransition, Acquire
  <2> QED BY <2>1 DEF RequestStored, OutcomesByResult
<1>3. ASSUME NEW id \in TaskIDs, NEW r \in Results, BeginComplete(id, r)
      PROVE  RequestStored'
  <2>1. /\ req'.to = Completed /\ req'.id = id /\ req'.data = r
        /\ tasks' = [tasks EXCEPT ![id] = [tasks[id] EXCEPT !.result = r]]
    BY <1>3 DEF BeginComplete, Acquire
  <2>2. tasks'[id].result = r
    BY <2>1 DEF TypeOK, Task, NoTask, SetState, NewTask
  <2> QED BY <2>1, <2>2 DEF RequestStored, Stored
<1>4. ASSUME NEW id \in TaskIDs, NEW e \in Errors, BeginFail(id, e)
      PROVE  RequestStored'
  <2>1. /\ req'.to = Failed /\ req'.id = id /\ req'.data = e
        /\ tasks' = [tasks EXCEPT ![id] = [tasks[id] EXCEPT !.error = e]]
    BY <1>4 DEF BeginFail, Acquire
  <2>2. tasks'[id].error = e
    BY <2>1 DEF TypeOK, Task, NoTask, SetState, NewTask
  <2> QED BY <2>1, <2>2, <1>a DEF RequestStored, Stored
<1>5. CASE AppendOK
  <2>1. /\ phase = "log" /\ tasks' = tasks
        /\ req'.id = req.id /\ req'.to = req.to /\ req'.data = req.data
    BY <1>5, AppendAdds
  <2> QED BY <2>1 DEF RequestStored, Stored
<1>6. CASE phase' \notin {"log", "apply"}
  BY <1>6 DEF RequestStored
<1>7. CASE UNCHANGED <<tasks, phase, req>>
  BY <1>7 DEF RequestStored, Stored
<1>8. \/ \E wf \in Workflows, p \in Payloads, n \in 1..MaxNano : BeginCreate(wf, p, n)
      \/ \E id \in TaskIDs, to \in TransitionTargets : BeginTransition(id, to)
      \/ \E id \in TaskIDs, r \in Results : BeginComplete(id, r)
      \/ \E id \in TaskIDs, e \in Errors : BeginFail(id, e)
      \/ AppendOK
      \/ phase' \notin {"log", "apply"}
      \/ UNCHANGED <<tasks, phase, req>>
  BY DEF Next, AppendFails, StoreTask, ApplyState, FinishTransition, Release,
         CheckpointEngine, CloseEngine, vars, engineVars
<1> QED BY <1>1, <1>2, <1>3, <1>4, <1>5, <1>6, <1>7, <1>8

\* A step that appends nothing keeps OutcomeEntries if no task ends or gets its
\* outcome overwritten.
LEMMA OutcomeEntriesFrame ==
    ASSUME OutcomeEntries, entries' = entries, ~closed,
           \A id \in TaskIDs, to \in {Completed, Failed} :
             /\ Ended(id, to)' <=> Ended(id, to)
             /\ Ended(id, to) => Stored(id, to)' = Stored(id, to)
    PROVE  OutcomeEntries'
BY DEF OutcomeEntries, EntriesTo

\* A task has entries for the outcome it ended with, and for no other.
LEMMA OutcomeEntriesStep ==
    ASSUME ~ClockMayRepeat, EngineInv, RequestStored, OutcomeEntries, [Next]_vars
    PROVE  OutcomeEntries'
<1> USE DEF EngineInv
<1>a. /\ Pending \notin {Completed, Failed} /\ Absent \notin {Completed, Failed}
      /\ Dispatched \notin {Completed, Failed}
  BY DEF Pending, Completed, Failed, Absent, Dispatched
<1>1. CASE closed'
  BY <1>1 DEF OutcomeEntries
<1>2. CASE AppendOK /\ ~closed'
  <2> SUFFICES ASSUME NEW id \in TaskIDs, NEW to \in {Completed, Failed}
               PROVE  IF Ended(id, to)'
                        THEN \E i \in DOMAIN entries' :
                               /\ EntriesTo(id, to)' = {i}
                               /\ entries'[i].rec.data = Stored(id, to)'
                        ELSE EntriesTo(id, to)' = {}
    BY DEF OutcomeEntries
  <2> DEFINE n == Len(entries)
  <2>1. /\ phase = "log" /\ phase' = "apply" /\ ~closed /\ tasks' = tasks
        /\ req'.id = req.id /\ req'.to = req.to
        /\ n \in Nat /\ DOMAIN entries = 1..n /\ DOMAIN entries' = 1..(n + 1)
        /\ \A i \in 1..n : entries'[i] = entries[i]
        /\ entries'[n + 1].rec.data = req.data
    BY <1>2, AppendAdds
  <2>2. EntriesTo(id, to)' = IF req.id = id /\ req.to = to
                               THEN EntriesTo(id, to) \cup {n + 1}
                               ELSE EntriesTo(id, to)
    BY <1>2, AppendMoves
  <2>3. Stored(id, to)' = Stored(id, to)
    BY <2>1 DEF Stored
  <2>4. CASE req.id = id /\ req.to = to
    <3>1. tasks[id].state \notin {Completed, Failed}
      BY <1>a, <2>1, <2>4, LeavingMeansNoOutcome DEF RequestInv
    <3>2. ~Ended(id, to) /\ Ended(id, to)'
      BY <2>1, <2>4, <3>1 DEF Ended, InFlight
    <3>3. EntriesTo(id, to)' = {n + 1}
      BY <2>1, <2>2, <2>4, <3>2 DEF OutcomeEntries
    <3>4. entries'[n + 1].rec.data = Stored(id, to)'
      BY <2>1, <2>3, <2>4 DEF RequestStored
    <3>5. n + 1 \in DOMAIN entries'
      BY <2>1
    <3> HIDE DEF n
    <3> QED BY <3>2, <3>3, <3>4, <3>5
  <2>5. CASE ~(req.id = id /\ req.to = to)
    <3>1. Ended(id, to)' <=> Ended(id, to)
      BY <2>1, <2>5 DEF Ended, InFlight
    <3>2. EntriesTo(id, to)' = EntriesTo(id, to)
      BY <2>2, <2>5
    <3>3. CASE Ended(id, to)
      <4>1. PICK i \in 1..n : /\ EntriesTo(id, to) = {i}
                              /\ entries[i].rec.data = Stored(id, to)
        BY <2>1, <3>3 DEF OutcomeEntries
      <4>2. i \in DOMAIN entries' /\ entries'[i].rec.data = Stored(id, to)'
        BY <2>1, <2>3, <4>1
      <4> QED BY <3>1, <3>2, <3>3, <4>1, <4>2
    <3>4. CASE ~Ended(id, to)
      <4>1. EntriesTo(id, to) = {}
        BY <2>1, <3>4 DEF OutcomeEntries
      <4> QED BY <3>1, <3>2, <3>4, <4>1
    <3> QED BY <3>3, <3>4
  <2> QED BY <2>4, <2>5
<1>3. CASE ~AppendOK /\ ~closed'
  <2>0. ~CloseEngine
    BY <1>3 DEF CloseEngine, WAL!Close
  <2>a. entries' = entries /\ ~closed
    BY <1>3, <2>0, LogUnchanged
  <2> SUFFICES ASSUME NEW x \in TaskIDs, NEW to \in {Completed, Failed}
               PROVE  /\ Ended(x, to)' <=> Ended(x, to)
                      /\ Ended(x, to) => Stored(x, to)' = Stored(x, to)
    BY <2>a, OutcomeEntriesFrame
  <2>1. CASE StoreTask
    <3>1. /\ phase = "apply" /\ phase' = "idle" /\ req.op = "create"
      BY <2>1 DEF StoreTask, Release
    <3>2. /\ req.id \in TaskIDs /\ req.to = Pending
          /\ tasks'[req.id].state = Pending
          /\ \A id \in TaskIDs : id # req.id => tasks'[id] = tasks[id]
      BY <2>1, StoreTaskState
    <3>3. tasks[req.id].state = Absent
      BY <3>1 DEF FreshIDs, Exists
    <3> QED BY <1>a, <3>1, <3>2, <3>3 DEF Ended, InFlight, Stored
  <2>2. CASE ApplyState
    <3>1. /\ phase = "apply" /\ phase' = "stamp" /\ req' = req
          /\ req.id \in TaskIDs /\ tasks[req.id] \in Task
          /\ CanTransition(tasks[req.id].state, req.to)
          /\ tasks'[req.id] = SetState(tasks[req.id], req.to)
          /\ tasks'[req.id].state = req.to
          /\ \A id \in TaskIDs : id # req.id => tasks'[id] = tasks[id]
      BY <2>2, ApplyStateState DEF ApplyState
    <3>2. tasks[req.id].state \notin {Completed, Failed}
      BY <3>1, LeavingMeansNoOutcome
    <3>3. /\ SetState(tasks[req.id], req.to).result = tasks[req.id].result
          /\ SetState(tasks[req.id], req.to).error = tasks[req.id].error
      BY <3>1 DEF SetState, Task
    <3> QED BY <3>1, <3>2, <3>3 DEF Ended, InFlight, Stored
  <2>3. ASSUME NEW id \in TaskIDs, NEW r \in Results, BeginComplete(id, r)
        PROVE  /\ Ended(x, to)' <=> Ended(x, to)
               /\ Ended(x, to) => Stored(x, to)' = Stored(x, to)
    <3>1. /\ tasks[id].state = Dispatched /\ phase = "idle" /\ phase' = "log"
          /\ \A y \in TaskIDs : y # id => tasks'[y] = tasks[y]
      BY <2>3 DEF BeginComplete, Acquire, TypeOK
    <3>2. tasks'[id].state = Dispatched
      BY <2>3, <3>1, StatesUnchanged DEF StoreTask, ApplyState
    <3> QED BY <1>a, <3>1, <3>2 DEF Ended, InFlight, Stored
  <2>4. ASSUME NEW id \in TaskIDs, NEW e \in Errors, BeginFail(id, e)
        PROVE  /\ Ended(x, to)' <=> Ended(x, to)
               /\ Ended(x, to) => Stored(x, to)' = Stored(x, to)
    <3>1. /\ tasks[id].state = Dispatched /\ phase = "idle" /\ phase' = "log"
          /\ \A y \in TaskIDs : y # id => tasks'[y] = tasks[y]
      BY <2>4 DEF BeginFail, Acquire, TypeOK
    <3>2. tasks'[id].state = Dispatched
      BY <2>4, <3>1, StatesUnchanged DEF StoreTask, ApplyState
    <3> QED BY <1>a, <3>1, <3>2 DEF Ended, InFlight, Stored
  <2>5. CASE FinishTransition
    <3>1. /\ phase = "stamp" /\ phase' = "idle" /\ req.id \in TaskIDs
          /\ tasks' = [tasks EXCEPT ![req.id] = StampFields(tasks[req.id], req.to)]
      BY <2>5 DEF FinishTransition, Release, TypeOK, Request
    <3>2. /\ StampFields(tasks[req.id], req.to).result = tasks[req.id].result
          /\ StampFields(tasks[req.id], req.to).error = tasks[req.id].error
          /\ StampFields(tasks[req.id], req.to).state = tasks[req.id].state
      BY <3>1 DEF StampFields, TypeOK, Task, NoTask, SetState, NewTask
    <3> QED BY <3>1, <3>2 DEF Ended, InFlight, Stored, TypeOK
  <2>6. CASE /\ UNCHANGED tasks
             /\ \/ phase # "apply" /\ phase' # "apply"
                \/ UNCHANGED <<phase, req>>
    BY <2>6 DEF Ended, InFlight, Stored
  <2>7. \/ StoreTask \/ ApplyState \/ FinishTransition
        \/ \E id \in TaskIDs, r \in Results : BeginComplete(id, r)
        \/ \E id \in TaskIDs, e \in Errors : BeginFail(id, e)
        \/ /\ UNCHANGED tasks
           /\ \/ phase # "apply" /\ phase' # "apply"
              \/ UNCHANGED <<phase, req>>
    BY <1>3, <2>0 DEF Next, BeginCreate, BeginTransition, Acquire, AppendFails,
       Release, CheckpointEngine, vars, engineVars
  <2> QED BY <2>1, <2>2, <2>3, <2>4, <2>5, <2>6, <2>7
<1> QED BY <1>1, <1>2, <1>3

LEMMA OutcomeEntriesInvariant ==
    ASSUME ~ClockMayRepeat, OutcomesByResult PROVE Spec => []OutcomeEntries
<1>1. Init => RequestStored /\ OutcomeEntries
  <2> SUFFICES ASSUME Init PROVE RequestStored /\ OutcomeEntries
    OBVIOUS
  <2>1. phase = "idle" /\ DOMAIN entries = {}
    BY DEF Init, WAL!WalInit
  <2>2. \A id \in TaskIDs : tasks[id].state = Absent
    BY DEF Init, NoTask, SetState, NewTask
  <2>3. Absent \notin {Completed, Failed}
    BY DEF Absent, Completed, Failed
  <2>4. \A id \in TaskIDs, to \in {Completed, Failed} :
          ~Ended(id, to) /\ EntriesTo(id, to) = {}
    BY <2>1, <2>2, <2>3 DEF Ended, InFlight, EntriesTo
  <2> QED BY <2>1, <2>4 DEF RequestStored, OutcomeEntries
<1>2. EngineInv /\ RequestStored /\ OutcomeEntries /\ [Next]_vars
        => RequestStored' /\ OutcomeEntries'
  BY RequestStoredStep, OutcomeEntriesStep
<1> QED BY <1>1, <1>2, EngineInvariant, PTL DEF Spec

\* While the log is open, a completed or failed task has exactly one entry that
\* says so, and its data is the outcome clients are given: also when appends
\* failed after CompleteTask or FailTask had stored another outcome, and for
\* any number of tasks and attempts.  It needs ids that are not given twice and
\* callers that leave outcomes to CompleteTask and FailTask, which is how the
\* gateway and the orchestrator use the engine.
THEOREM OutcomesAreRecoverable ==
    ASSUME ~ClockMayRepeat, OutcomesByResult PROVE Spec => []OutcomeIsLogged
<1>1. OutcomeEntries => OutcomeIsLogged
  <2>1. \A id : tasks[id].state \in {Completed, Failed} =>
          /\ Ended(id, tasks[id].state)
          /\ Stored(id, tasks[id].state) = Outcome(tasks[id])
    BY DEF Ended, Stored, Outcome, Completed, Failed
  <2> QED BY <2>1 DEF OutcomeEntries, OutcomeIsLogged
<1> QED BY <1>1, OutcomeEntriesInvariant, PTL

-----------------------------------------------------------------------------
(* The log implements TaskLifecycle: AppendOK is Appear, Move or End, and   *)
(* no other step is seen, until Close drops the log.                       *)

\* A task with an entry has a last entry.
LastExists ==
    \A id \in TaskIDs : Logged(id) =>
      \E i \in DOMAIN entries : entries[i].rec.task = id /\ LastOfTask(i)

\* It has one only, in any sequence of entries.
LEMMA LastIsUnique ==
    ASSUME NEW s, DOMAIN s \subseteq Int, NEW id, NEW i \in DOMAIN s,
           s[i].rec.task = id,
           \A j \in DOMAIN s : j > i => s[j].rec.task # s[i].rec.task
    PROVE  i = CHOOSE k \in DOMAIN s :
                 /\ s[k].rec.task = id
                 /\ \A j \in DOMAIN s : j > k => s[j].rec.task # s[k].rec.task
<1> DEFINE P(k) == /\ s[k].rec.task = id
                   /\ \A j \in DOMAIN s : j > k => s[j].rec.task # s[k].rec.task
           c    == CHOOSE k \in DOMAIN s : P(k)
<1>1. c \in DOMAIN s /\ P(c)
  <2>1. \E k \in DOMAIN s : P(k)
    OBVIOUS
  <2> HIDE DEF P
  <2> QED BY <2>1
<1>2. c = i
  <2> HIDE DEF c
  <2>1. ~(c > i) /\ ~(i > c)
    BY <1>1
  <2>2. c \in Int /\ i \in Int
    BY <1>1
  <2> QED BY <2>1, <2>2
<1> QED BY <1>2

\* So it is the one LastEntry chooses.
LEMMA LastEntryIs ==
    ASSUME TypeOK, NEW id, NEW i \in DOMAIN entries,
           entries[i].rec.task = id, LastOfTask(i)
    PROVE  Logged(id) /\ LastEntry(id) = entries[i].rec
<1>1. DOMAIN entries \subseteq Int
  BY DEF TypeOK, WAL!WalTypeOK
<1>2. i = CHOOSE k \in DOMAIN entries :
            /\ entries[k].rec.task = id
            /\ \A j \in DOMAIN entries : j > k => entries[j].rec.task # entries[k].rec.task
  BY <1>1, LastIsUnique DEF LastOfTask
<1> QED BY <1>2 DEF Logged, LastEntry, LastOfTask

\* Every step keeps a last entry for every task that has one.
LEMMA LastExistsStep ==
    ASSUME TypeOK, LastExists, [Next]_vars
    PROVE  LastExists'
<1>1. CASE AppendOK
  <2>0. PICK n : n = Len(entries)
    OBVIOUS
  <2>1. /\ n \in Nat /\ DOMAIN entries = 1..n /\ DOMAIN entries' = 1..(n + 1)
        /\ \A i \in 1..n : entries'[i] = entries[i]
        /\ entries'[n + 1].rec.task = req.id
    BY <1>1, <2>0, AppendAdds
  <2> SUFFICES ASSUME NEW id \in TaskIDs, Logged(id)'
               PROVE  \E i \in DOMAIN entries' :
                        entries'[i].rec.task = id /\ LastOfTask(i)'
    BY DEF LastExists
  <2>2. CASE id = req.id
    <3>1. n + 1 \in DOMAIN entries' /\ \A j \in DOMAIN entries' : ~(j > n + 1)
      BY <2>1
    <3>2. LastOfTask(n + 1)'
      BY <3>1 DEF LastOfTask
    <3> QED BY <2>1, <2>2, <3>1, <3>2
  <2>3. CASE id # req.id
    <3>1. Logged(id)
      BY <2>1, <2>3 DEF Logged
    <3>2. PICK i \in 1..n : entries[i].rec.task = id /\ LastOfTask(i)
      BY <2>1, <3>1 DEF LastExists
    <3>3. LastOfTask(i)'
      BY <2>1, <2>3, <3>2 DEF LastOfTask
    <3>4. i \in DOMAIN entries' /\ entries'[i].rec.task = id
      BY <2>1, <3>2
    <3> QED BY <3>3, <3>4
  <2> QED BY <2>2, <2>3
<1>2. CASE CloseEngine
  <2>1. entries' = <<>>
    BY <1>2 DEF CloseEngine, WAL!Close
  <2>2. DOMAIN entries' = {}
    BY <2>1
  <2> QED BY <2>2 DEF LastExists, Logged
<1>3. CASE ~AppendOK /\ ~CloseEngine
  <2>1. entries' = entries
    BY <1>3, LogUnchanged
  <2> QED BY <2>1 DEF LastExists, Logged, LastOfTask
<1> QED BY <1>1, <1>2, <1>3

LEMMA LastExistsInvariant == Spec => []LastExists
<1>1. Init => LastExists
  BY DEF Init, WAL!WalInit, Logged, LastExists
<1>2. EngineInv /\ LastExists /\ [Next]_vars => LastExists'
  BY LastExistsStep DEF EngineInv
<1> QED BY <1>1, <1>2, EngineInvariant, PTL DEF Spec

\* What the log shows of a task.
LogState(id) == IF Logged(id) THEN LastEntry(id).state ELSE Absent

LogOutcome(id) ==
    IF Logged(id) /\ LastEntry(id).state \in {Completed, Failed}
      THEN LastEntry(id).data ELSE Nil

\* Before the append of a call, the log shows the state the task has in memory.
LEMMA LogShowsMemory ==
    ASSUME EngineInv, LastExists, ~closed, phase # "apply", NEW id \in TaskIDs
    PROVE  LogState(id) = tasks[id].state
<1> USE DEF EngineInv
<1>1. CASE Logged(id)
  <2>1. PICK i \in DOMAIN entries : entries[i].rec.task = id /\ LastOfTask(i)
    BY <1>1 DEF LastExists
  <2>2. LastEntry(id) = entries[i].rec
    BY <2>1, LastEntryIs
  <2>3. entries[i].rec.state = tasks[id].state
    BY <2>1 DEF WriteAhead, InFlight
  <2> QED BY <1>1, <2>2, <2>3 DEF LogState
<1>2. CASE ~Logged(id)
  BY <1>2 DEF LogState, WriteAhead, Logged, Exists
<1> QED BY <1>1, <1>2

\* A task that has not ended shows no outcome in the log.
LEMMA NoLogOutcome ==
    ASSUME NEW id, LogState(id) \notin {Completed, Failed}
    PROVE  LogOutcome(id) = Nil
BY DEF LogState, LogOutcome

\* An append changes what the log shows of the task of the call, to the entry
\* appended, and nothing else.
LEMMA AppendShows ==
    ASSUME TypeOK, LastExists, AppendOK
    PROVE  /\ LogState(req.id)' = req.to
           /\ LogOutcome(req.id)' =
                IF req.to \in {Completed, Failed} THEN req.data ELSE Nil
           /\ \A id \in TaskIDs : id # req.id =>
                /\ LogState(id)' = LogState(id)
                /\ LogOutcome(id)' = LogOutcome(id)
<1>0. PICK n : n = Len(entries)
  OBVIOUS
<1>1. /\ n \in Nat /\ DOMAIN entries = 1..n /\ DOMAIN entries' = 1..(n + 1)
      /\ \A i \in 1..n : entries'[i] = entries[i]
      /\ entries'[n + 1].rec =
           [task |-> req.id, state |-> req.to, data |-> req.data]
  BY <1>0, AppendAdds
<1>2. /\ entries'[n + 1].rec.task = req.id
      /\ entries'[n + 1].rec.state = req.to
      /\ entries'[n + 1].rec.data = req.data
  BY <1>1
<1>3. ASSUME NEW id, NEW i \in DOMAIN entries',
             entries'[i].rec.task = id, LastOfTask(i)'
      PROVE  Logged(id)' /\ LastEntry(id)' = entries'[i].rec
  <2>1. DOMAIN entries' \subseteq Int
    BY <1>1
  <2>2. i = CHOOSE k \in DOMAIN entries' :
              /\ entries'[k].rec.task = id
              /\ \A j \in DOMAIN entries' :
                   j > k => entries'[j].rec.task # entries'[k].rec.task
    BY <1>3, <2>1, LastIsUnique DEF LastOfTask
  <2> QED BY <1>3, <2>2 DEF Logged, LastEntry, LastOfTask
<1>4. /\ LogState(req.id)' = req.to
      /\ LogOutcome(req.id)' =
           IF req.to \in {Completed, Failed} THEN req.data ELSE Nil
  <2>1. n + 1 \in DOMAIN entries' /\ \A j \in DOMAIN entries' : ~(j > n + 1)
    BY <1>1
  <2>2. LastOfTask(n + 1)'
    BY <2>1 DEF LastOfTask
  <2>3. PICK id : id = req.id
    OBVIOUS
  <2>4. Logged(id)' /\ LastEntry(id)' = entries'[n + 1].rec
    BY <1>2, <1>3, <2>1, <2>2, <2>3
  <2>5. req'.id = id
    BY <2>3, AppendAdds
  <2> QED BY <1>2, <2>4, <2>5 DEF LogState, LogOutcome
<1>5. ASSUME NEW id \in TaskIDs, id # req.id
      PROVE  /\ LogState(id)' = LogState(id)
             /\ LogOutcome(id)' = LogOutcome(id)
  <2>1. CASE Logged(id)
    <3>1. PICK i \in 1..n : entries[i].rec.task = id /\ LastOfTask(i)
      BY <1>1, <2>1 DEF LastExists
    <3>2. LastEntry(id) = entries[i].rec
      BY <1>1, <3>1, LastEntryIs
    <3>3. /\ i \in DOMAIN entries' /\ entries'[i] = entries[i]
          /\ LastOfTask(i)'
      BY <1>1, <1>2, <1>5, <3>1 DEF LastOfTask
    <3>4. Logged(id)' /\ LastEntry(id)' = LastEntry(id)
      BY <1>3, <3>1, <3>2, <3>3
    <3> QED BY <2>1, <3>4 DEF LogState, LogOutcome
  <2>2. CASE ~Logged(id)
    <3>1. ~Logged(id)'
      BY <1>1, <1>2, <1>5, <2>2 DEF Logged
    <3> QED BY <2>2, <3>1 DEF LogState, LogOutcome
  <2> QED BY <2>1, <2>2
<1> QED BY <1>4, <1>5

\* The lifecycle the log is compared with is built on the same state machine.
LEMMA SameStateMachineOnLog ==
    /\ OnLog!Absent = Absent /\ OnLog!Pending = Pending
    /\ OnLog!Completed = Completed /\ OnLog!Failed = Failed
    /\ OnLog!AllStates = AllStates
    /\ OnLog!Data = Data
    /\ \A from, to : OnLog!CanTransition(from, to) <=> CanTransition(from, to)
BY DEF OnLog!Absent, OnLog!Pending, OnLog!Scheduled, OnLog!Dispatched,
       OnLog!Completed, OnLog!Failed, OnLog!Cancelled, OnLog!AllStates,
       OnLog!Data, OnLog!CanTransition, OnLog!Transitions,
       Absent, Pending, Scheduled, Dispatched, Completed, Failed, Cancelled,
       AllStates, Data, CanTransition, Transitions

\* Every step on an open log is a step of TaskLifecycle as the log tells it, or
\* is not seen there.
LEMMA LogLifecycleStep ==
    ASSUME ~ClockMayRepeat, EngineInv, LastExists, [Next]_vars
    PROVE  [OnLog!LifecycleNext \/ closed']_(OnLog!lifecycleVars)
<1> USE DEF EngineInv
<1> DEFINE status  == [id \in TaskIDs |-> LogState(id)]
           outcome == [id \in TaskIDs |-> LogOutcome(id)]
<1>1. CASE closed'
  BY <1>1
<1>2. CASE AppendOK /\ ~closed'
  <2>1. /\ phase = "log" /\ ~closed /\ req.id \in TaskIDs
        /\ req.to \in AllStates /\ req.data \in Data
        /\ req'.id = req.id
    BY <1>2, AppendAdds DEF Request
  <2>2. PICK x : x = req.id
    OBVIOUS
  <2>3. /\ x \in TaskIDs
        /\ LogState(x)' = req.to
        /\ LogOutcome(x)' = IF req.to \in {Completed, Failed} THEN req.data ELSE Nil
        /\ \A id \in TaskIDs : id # x => /\ LogState(id)' = LogState(id)
                                         /\ LogOutcome(id)' = LogOutcome(id)
    BY <1>2, <2>1, <2>2, AppendShows
  <2>4. LogState(x) = tasks[x].state
    BY <2>1, <2>2, LogShowsMemory
  <2>5. status' = [status EXCEPT ![x] = req.to]
    BY <2>3
  <2>6. CASE req.op = "create"
    <3>1. LogState(x) = Absent /\ req.to = Pending
      BY <2>1, <2>2, <2>4, <2>6 DEF FreshIDs, RequestInv, Exists
    <3>2. Pending \notin {Completed, Failed} /\ Absent \notin {Completed, Failed}
      BY DEF Pending, Completed, Failed, Absent
    <3>3. outcome' = outcome
      BY <2>3, <3>1, <3>2, NoLogOutcome
    <3>4. OnLog!Appear(x)
      BY <2>3, <2>5, <3>1, <3>3, SameStateMachineOnLog
         DEF OnLog!Appear, LogState, LogOutcome
    <3> QED BY <2>3, <3>4 DEF OnLog!LifecycleNext
  <2>7. CASE req.op # "create"
    <3>1. CanTransition(LogState(x), req.to)
      BY <2>1, <2>2, <2>4, <2>7 DEF RequestInv
    <3>2. LogState(x) \notin {Completed, Failed}
      BY <3>1, LeavingMeansNoOutcome
    <3>3. CASE req.to \notin {Completed, Failed}
      <4>1. outcome' = outcome
        BY <2>3, <3>2, <3>3, NoLogOutcome
      <4>2. OnLog!Move(x, req.to)
        BY <2>3, <2>5, <3>1, <3>3, <4>1, SameStateMachineOnLog
           DEF OnLog!Move, LogState, LogOutcome
      <4> QED BY <2>1, <2>3, <4>2, SameStateMachineOnLog DEF OnLog!LifecycleNext
    <3>4. CASE req.to \in {Completed, Failed}
      <4>1. outcome' = [outcome EXCEPT ![x] = req.data]
        BY <2>3, <3>4
      <4>2. OnLog!End(x, req.to, req.data)
        BY <2>3, <2>5, <3>1, <3>4, <4>1, SameStateMachineOnLog
           DEF OnLog!End, LogState, LogOutcome
      <4>3. /\ req.to \in {OnLog!Completed, OnLog!Failed}
            /\ req.data \in OnLog!Data \cup {Nil}
        BY <2>1, <3>4, SameStateMachineOnLog
      <4>4. OnLog!LifecycleNext
        BY <2>3, <4>2, <4>3 DEF OnLog!LifecycleNext
      <4> QED BY <4>4
    <3> QED BY <3>3, <3>4
  <2> QED BY <2>6, <2>7
<1>3. CASE ~AppendOK /\ ~closed'
  <2>1. ~CloseEngine
    BY <1>3 DEF CloseEngine, WAL!Close
  <2>2. entries' = entries
    BY <1>3, <2>1, LogUnchanged
  <2> QED BY <2>2 DEF OnLog!lifecycleVars, Logged, LastEntry, LastOfTask
<1> QED BY <1>1, <1>2, <1>3

\* Until Close drops it, the log read back entry by entry is a lifecycle of
\* every task, with any number of tasks and failing appends: a recovery that
\* replays it meets no transition that CanTransition would refuse, and finds
\* no outcome overwritten.
THEOREM LogImplementsLifecycle ==
    ASSUME ~ClockMayRepeat PROVE Spec => LogFollowsLifecycle
<1>1. Init => OnLog!LifecycleInit
  <2> SUFFICES ASSUME Init PROVE OnLog!LifecycleInit
    OBVIOUS
  <2>1. \A id : ~Logged(id)
    BY DEF Init, WAL!WalInit, Logged
  <2> QED BY <2>1, SameStateMachineOnLog DEF OnLog!LifecycleInit
<1>2. EngineInv /\ LastExists /\ [Next]_vars
        => [OnLog!LifecycleNext \/ closed']_(OnLog!lifecycleVars)
  BY LogLifecycleStep
<1> QED
  BY <1>1, <1>2, EngineInvariant, LastExistsInvariant, PTL DEF Spec, LogFollowsLifecycle

-----------------------------------------------------------------------------
(* The engine and its log: Checkpoint names entries by number, Replay finds *)
(* them by position.                                                       *)

\* The engine reaches the log through Append, Checkpoint and Close only, so
\* what InMemoryLogger promises to any caller it promises to the engine.
THEOREM EngineUsesLog == Spec => WAL!WalSpec
<1>1. Init => WAL!WalInit
  BY DEF Init
<1>2. TypeOK /\ [Next]_vars => [WAL!WalNext]_(WAL!walVars)
  <2> SUFFICES ASSUME TypeOK, [Next]_vars
               PROVE  [WAL!WalNext]_(WAL!walVars)
    OBVIOUS
  <2>1. CASE AppendOK
    <3>1. req \in Request
      BY <2>1 DEF AppendOK, TypeOK
    <3>2. [task |-> req.id, state |-> req.to, data |-> req.data] \in Records
      BY <3>1 DEF Request, Records
    <3> QED BY <2>1, <3>2 DEF AppendOK, WAL!WalNext
  <2>2. ASSUME NEW seq \in 0..MaxSequence, CheckpointEngine(seq)
        PROVE  WAL!WalNext
    BY <2>2 DEF CheckpointEngine, WAL!WalNext
  <2>3. CASE CloseEngine
    BY <2>3 DEF CloseEngine, WAL!WalNext
  <2>4. CASE UNCHANGED logVars
    BY <2>4 DEF logVars, WAL!walVars
  <2>5. \/ AppendOK \/ CloseEngine \/ UNCHANGED logVars
        \/ \E seq \in 0..MaxSequence : CheckpointEngine(seq)
    BY DEF Next, BeginCreate, BeginTransition, BeginComplete, BeginFail,
       AppendFails, StoreTask, ApplyState, FinishTransition, vars
  <2> QED BY <2>1, <2>2, <2>3, <2>4, <2>5
<1> QED BY <1>1, <1>2, TypeCorrect, PTL DEF Spec, WAL!WalSpec

\* On an open log the position of an entry is its number.
Numbered ==
    ~closed => /\ Len(entries) = sequence
               /\ \A i \in DOMAIN entries : entries[i].seq = i

LEMMA NumberedStep ==
    ASSUME TypeOK, Numbered, [Next]_vars
    PROVE  Numbered'
<1>1. CASE closed'
  BY <1>1 DEF Numbered
<1>2. CASE AppendOK /\ ~closed'
  <2> DEFINE e == [seq |-> sequence',
                   rec |-> [task |-> req.id, state |-> req.to, data |-> req.data]]
  <2>1. /\ ~closed /\ entries' = Append(entries, e) /\ sequence' = sequence + 1
        /\ entries \in Seq(WAL!Entry) /\ sequence \in Nat
    BY <1>2, EngineAssumption DEF AppendOK, WAL!AppendEntry, TypeOK, WAL!WalTypeOK
  <2>2. e.seq = sequence'
    OBVIOUS
  <2> HIDE DEF e
  <2>3. /\ Len(entries') = Len(entries) + 1 /\ Len(entries) \in Nat
        /\ DOMAIN entries = 1..Len(entries)
        /\ DOMAIN entries' = 1..(Len(entries) + 1)
        /\ \A i \in 1..Len(entries) : entries'[i] = entries[i]
        /\ entries'[Len(entries) + 1] = e
    BY <2>1
  <2>4. Len(entries) = sequence /\ \A i \in 1..Len(entries) : entries[i].seq = i
    BY <2>1, <2>3 DEF Numbered
  <2>5. \A i \in 1..(Len(entries) + 1) : entries'[i].seq = i
    BY <2>1, <2>2, <2>3, <2>4
  <2> QED BY <2>1, <2>3, <2>4, <2>5 DEF Numbered
<1>3. CASE ~AppendOK /\ ~closed'
  <2>1. ~CloseEngine
    BY <1>3 DEF CloseEngine, WAL!Close
  <2>2. entries' = entries /\ closed' = closed
    BY <1>3, <2>1, LogUnchanged
  <2>3. sequence' = sequence
    BY <1>3, <2>1 DEF Next, BeginCreate, BeginTransition, BeginComplete, BeginFail,
       AppendFails, StoreTask, ApplyState, FinishTransition, CheckpointEngine,
          WAL!Checkpoint, vars, logVars
  <2> QED BY <2>2, <2>3 DEF Numbered
<1> QED BY <1>1, <1>2, <1>3

LEMMA NumberedInvariant == Spec => [](EngineInv /\ Numbered)
<1>1. Init => Numbered
  BY DEF Init, WAL!WalInit, Numbered
<1>2. EngineInv /\ Numbered /\ [Next]_vars => Numbered'
  BY NumberedStep DEF EngineInv
<1> QED BY <1>1, <1>2, EngineInvariant, PTL DEF Spec

\* What Replay returns on an open log: the entries behind the checkpoint.
LEMMA ReplayEntries ==
    ASSUME EngineInv, Numbered, ~closed
    PROVE  /\ committed \in Nat /\ sequence \in Nat /\ committed <= sequence
           /\ DOMAIN entries = 1..sequence
           /\ Len(WAL!Replay) = sequence - committed
           /\ DOMAIN WAL!Replay = 1..(sequence - committed)
           /\ \A k \in 1..(sequence - committed) :
                WAL!Replay[k] = entries[committed + k]
<1>1. /\ entries \in Seq(WAL!Entry) /\ Len(entries) = sequence
      /\ committed \in Nat /\ sequence \in Nat /\ sequenceCounter \in Nat
      /\ DOMAIN entries = 1..sequence
  BY EngineAssumption DEF EngineInv, TypeOK, WAL!WalTypeOK, Numbered
<1>2. committed <= sequence
  BY <1>1 DEF EngineInv, CountersInv
<1>3. CASE committed >= Len(entries)
  <2>1. WAL!Replay = <<>>
    BY <1>3 DEF WAL!Replay
  <2> QED BY <1>1, <1>2, <1>3, <2>1
<1>4. CASE committed < Len(entries)
  <2>1. WAL!Replay = SubSeq(entries, committed + 1, Len(entries))
    BY <1>1, <1>4 DEF WAL!Replay
  <2> QED BY <1>1, <1>2, <1>4, <2>1
<1> QED BY <1>1, <1>3, <1>4

\* Under the engine, with calls, failed appends and checkpoints in any order,
\* Replay returns exactly the uncommitted entries in order.
THEOREM EngineReplayIsExact == Spec => []WAL!ReplayExact
<1>1. EngineInv /\ Numbered => WAL!ReplayExact
  <2> SUFFICES ASSUME EngineInv, Numbered, ~closed
               PROVE  /\ Len(WAL!Replay) = sequence - committed
                      /\ \A i \in DOMAIN WAL!Replay :
                           WAL!Replay[i].seq = committed + i
    BY DEF WAL!ReplayExact
  <2> QED BY ReplayEntries DEF Numbered
<1> QED BY <1>1, NumberedInvariant, PTL
=============================================================================
