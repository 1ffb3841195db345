--------------------------- MODULE GatewayProofs ---------------------------
(***************************************************************************)
(* What clients of the gateway service can rely on, for any number of      *)
(* clients, tasks, attempts and results, in any order and number.          *)
(*                                                                         *)
(* The service takes only steps of the engine, so what is proved of the    *)
(* engine holds under it.  The rest is about copies made without the lock. *)
(* It rests on one fact of the engine (FrozenTask): a task in a terminal   *)
(* state keeps its state and its result.  A copy whose bytes were read in  *)
(* a terminal state therefore stays true while the rest of it is read.     *)
(***************************************************************************)
EXTENDS Gateway, EngineLifecycleProofs

-----------------------------------------------------------------------------
(* The service runs the engine.                                            *)

\* A result reports success with an output or a failure with an error text.
SentOK ==
    \A m \in sent :
      /\ m.id \in TaskIDs
      /\ m.ok => m.data \in Results
      /\ ~m.ok => m.data \in Errors

LEMMA SentStep == SentOK /\ [GatewayNext]_gatewayVars => SentOK'
<1> SUFFICES ASSUME SentOK, [GatewayNext]_gatewayVars PROVE SentOK'
  OBVIOUS
<1>1. ASSUME NEW id \in TaskIDs, NEW a, NEW ok \in BOOLEAN, NEW d, WorkerReports(id, a, ok, d)
      PROVE  SentOK'
  BY <1>1 DEF WorkerReports, SentOK
<1>2. CASE UNCHANGED sent
  BY <1>2 DEF SentOK
<1>3. \/ UNCHANGED sent
      \/ \E id \in TaskIDs, a \in 1..MaxSequence, ok \in BOOLEAN, d \in Data :
           WorkerReports(id, a, ok, d)
  BY DEF GatewayNext, SubmitTask, SubmitAccepted, handleTaskResult, Dispatch, EngineRuns,
     EngineFails, EngineCloses, GetTaskStatus, StatusReturned, Query, CopySteps, gatewayVars
<1> QED
  BY <1>1, <1>2, <1>3

\* The steps of readers and the reports of workers leave the engine alone.
ReaderStep(c) ==
    \/ \E id \in TaskIDs : GetTaskStatus(c, id)
    \/ StatusReturned(c) \/ Query(c) \/ CopySteps(c)

LEMMA ReaderLeavesEngine ==
    ASSUME NEW c \in Clients, ReaderStep(c)
    PROVE  UNCHANGED <<vars, given, submitter, sent>>
  BY DEF ReaderStep, GetTaskStatus, StatusReturned, Query, CopySteps, GetTask,
     GetTasksByState, GetTasksForPartition, GetWorkflowTasks, Collect, StartCopy,
     CopyStateBytes, CopyStateLen, CopyStructResult, TearStructResult, CopyResult, Return,
     serviceVars

LEMMA EngineStep ==
    ASSUME SentOK, [GatewayNext]_gatewayVars
    PROVE  [Next]_vars
<1>1. ASSUME NEW m \in sent, handleTaskResult(m) PROVE Next
  BY <1>1 DEF handleTaskResult, SentOK, Next
<1>2. ASSUME NEW c \in Clients, ReaderStep(c) PROVE UNCHANGED vars
  BY <1>2, ReaderLeavesEngine
<1>3. CASE \/ \E c \in Clients, wf \in Workflows, p \in Payloads, n \in 1..MaxNano :
                SubmitTask(c, wf, p, n)
           \/ SubmitAccepted
           \/ \E id \in TaskIDs, to \in TransitionTargets : Dispatch(id, to)
           \/ EngineRuns \/ EngineFails \/ EngineCloses
  BY <1>3 DEF SubmitTask, SubmitAccepted, Dispatch, EngineRuns, EngineFails, EngineCloses, Next
<1>4. CASE UNCHANGED gatewayVars
  BY <1>4 DEF gatewayVars, readVars
<1>5. ASSUME NEW id, NEW a, NEW ok, NEW d, WorkerReports(id, a, ok, d) PROVE UNCHANGED vars
  BY <1>5 DEF WorkerReports, readVars
<1> QED
  BY <1>1, <1>2, <1>3, <1>4, <1>5 DEF GatewayNext, ReaderStep

\* The gateway service uses the engine through its methods only: every behaviour
\* of the service is one of the engine, whose theorems therefore hold under it.
THEOREM GatewayRunsEngine == GatewaySpec => Spec
<1>1. GatewayInit => SentOK /\ Init
  BY DEF GatewayInit, SentOK, ReadsInit
<1> QED
  BY <1>1, SentStep, EngineStep, PTL DEF GatewaySpec, Spec

-----------------------------------------------------------------------------
(* Submissions.                                                            *)

\* A CreateTask in progress belongs to a client.
SubmitOK ==
    /\ given \in [Clients -> SUBSET TaskIDs]
    /\ phase # "idle" /\ req.op = "create" => submitter \in Clients

LEMMA SubmitStep ==
    ASSUME TypeOK, SubmitOK, [GatewayNext]_gatewayVars
    PROVE  SubmitOK'
<1>1. ASSUME NEW c \in Clients, NEW wf \in Workflows, NEW p \in Payloads,
             NEW n \in 1..MaxNano, SubmitTask(c, wf, p, n)
      PROVE  SubmitOK'
  BY <1>1 DEF SubmitTask, SubmitOK
<1>2. CASE SubmitAccepted
  <2>1. req.id \in TaskIDs /\ submitter \in Clients /\ phase' = "idle"
    BY <1>2 DEF SubmitAccepted, StoreTask, Release, SubmitOK, TypeOK, Request
  <2> QED
    BY <1>2, <2>1 DEF SubmitAccepted, SubmitOK
<1>3. ASSUME NEW m \in sent, handleTaskResult(m) PROVE SubmitOK'
  BY <1>3 DEF handleTaskResult, BeginComplete, BeginFail, Acquire, serviceVars, SubmitOK
<1>4. ASSUME NEW id \in TaskIDs, NEW to \in TransitionTargets, Dispatch(id, to)
      PROVE  SubmitOK'
  BY <1>4 DEF Dispatch, BeginTransition, Acquire, serviceVars, SubmitOK
<1>5. CASE EngineRuns
  <2>1. CASE AppendOK
    <3>1. req'.op = req.op /\ phase = "log"
      BY <2>1 DEF AppendOK, TypeOK, Request
    <3> QED
      BY <1>5, <3>1 DEF EngineRuns, serviceVars, SubmitOK
  <2>2. CASE ApplyState
    BY <1>5, <2>2 DEF EngineRuns, ApplyState, serviceVars, SubmitOK
  <2>3. CASE FinishTransition
    BY <1>5, <2>3 DEF EngineRuns, FinishTransition, Release, serviceVars, SubmitOK
  <2> QED
    BY <1>5, <2>1, <2>2, <2>3 DEF EngineRuns
<1>6. CASE EngineFails
  BY <1>6 DEF EngineFails, AppendFails, Release, SubmitOK
<1>7. CASE EngineCloses
  BY <1>7 DEF EngineCloses, CloseEngine, engineVars, serviceVars, SubmitOK
<1>8. ASSUME NEW c \in Clients, ReaderStep(c) PROVE SubmitOK'
  BY <1>8, ReaderLeavesEngine DEF vars, engineVars, SubmitOK
<1>9. ASSUME NEW id, NEW a, NEW ok, NEW d, WorkerReports(id, a, ok, d) PROVE SubmitOK'
  BY <1>9 DEF WorkerReports, readVars, vars, engineVars, serviceVars, SubmitOK
<1>10. CASE UNCHANGED gatewayVars
  BY <1>10 DEF gatewayVars, readVars, vars, engineVars, serviceVars, SubmitOK
<1> QED
  BY <1>1, <1>2, <1>3, <1>4, <1>5, <1>6, <1>7, <1>8, <1>9, <1>10
     DEF GatewayNext, ReaderStep

GivenExist ==
    \A id \in TaskIDs : Exists(tasks[id]) <=> \E c \in Clients : id \in given[c]

LEMMA GivenStep ==
    ASSUME EngineInv, SentOK, SubmitOK, GivenExist, [GatewayNext]_gatewayVars
    PROVE  GivenExist'
<1> USE DEF EngineInv
<1>1. CASE SubmitAccepted
  <2>1. /\ req.id \in TaskIDs /\ submitter \in Clients
        /\ tasks'[req.id].state = Pending
        /\ \A id \in TaskIDs : id # req.id => tasks'[id] = tasks[id]
        /\ given' = [given EXCEPT ![submitter] = @ \cup {req.id}]
    BY <1>1, StoreTaskState DEF SubmitAccepted, StoreTask, SubmitOK
  <2>2. Exists(tasks'[req.id])
    BY <2>1 DEF Exists, Pending, Absent
  <2>3. \A c \in Clients : given'[c] = IF c = submitter THEN given[c] \cup {req.id} ELSE given[c]
    BY <2>1 DEF SubmitOK
  <2> QED
    BY <2>1, <2>2, <2>3 DEF GivenExist
<1>2. CASE ~SubmitAccepted
  <2>1. given' = given
    BY <1>2 DEF GatewayNext, SubmitTask, handleTaskResult, Dispatch, EngineRuns, EngineFails,
       EngineCloses, GetTaskStatus, StatusReturned, Query, CopySteps, WorkerReports,
       gatewayVars, serviceVars
  <2>2. [Next]_vars
    BY EngineStep
  <2>3. ASSUME NEW id \in TaskIDs PROVE Exists(tasks'[id]) <=> Exists(tasks[id])
    <3>1. CASE ApplyState
      BY <3>1, ApplyStateState
    <3>2. ~StoreTask \/ UNCHANGED tasks
      <4>1. StoreTask => phase = "apply" /\ phase' = "idle" /\ req.op = "create"
        BY DEF StoreTask, Release
      <4>2. ASSUME phase = "apply", phase' = "idle", req.op = "create"
            PROVE  UNCHANGED tasks
        <5>1. \A c \in Clients : ~ReaderStep(c)
          BY <4>2, ReaderLeavesEngine DEF vars, engineVars
        <5> QED
          BY <1>2, <4>2, <5>1 DEF GatewayNext, ReaderStep, SubmitTask, BeginCreate, Acquire,
             handleTaskResult, BeginComplete, BeginFail, Dispatch, BeginTransition,
             EngineRuns, AppendOK, ApplyState, FinishTransition, EngineFails, AppendFails,
             EngineCloses, CloseEngine, WorkerReports, gatewayVars, readVars, vars, engineVars
      <4> QED
        BY <4>1, <4>2
    <3>3. CASE ~StoreTask /\ ~ApplyState
      BY <2>2, <3>3, StatesUnchanged DEF Exists
    <3> QED
      BY <3>1, <3>2, <3>3
  <2> QED
    BY <2>1, <2>3 DEF GivenExist
<1> QED
  BY <1>1, <1>2

\* A task is there exactly if SubmitTask gave its id to a client, and then it is
\* in the log, with failing appends, repeated ids and any number of clients.
THEOREM SubmissionsAreKept == GatewaySpec => []AcceptedIsKept
<1>1. GatewayInit => SentOK /\ SubmitOK /\ GivenExist
  BY DEF GatewayInit, SentOK, SubmitOK, GivenExist, ReadsInit, Init, Exists, NoTask,
     SetState, NewTask
<1>2. EngineInv => TypeOK
  BY DEF EngineInv
<1>3. EngineInv /\ SubmitOK /\ GivenExist => AcceptedIsKept
  BY DEF EngineInv, WriteAhead, GivenExist, AcceptedIsKept, Logged, SubmitOK
<1> QED
  BY <1>1, <1>2, <1>3, SentStep, SubmitStep, GivenStep, GatewayRunsEngine,
     EngineInvariant, PTL DEF GatewaySpec

-----------------------------------------------------------------------------
(* What the engine keeps.                                                  *)

\* The last step of a transition leaves states and results alone.
LEMMA FinishKeeps ==
    ASSUME TypeOK, FinishTransition, NEW id \in TaskIDs, Exists(tasks[id])
    PROVE  tasks'[id].state = tasks[id].state /\ tasks'[id].result = tasks[id].result
<1>1. /\ req.id \in TaskIDs /\ req.to \in AllStates
      /\ tasks' = [tasks EXCEPT ![req.id] = StampFields(tasks[req.id], req.to)]
  BY DEF FinishTransition, TypeOK, Request
<1>2. CASE id # req.id
  BY <1>1, <1>2 DEF TypeOK
<1>3. CASE id = req.id
  <2>1. tasks[id] \in Task
    BY ExistingIsTask DEF TypeOK
  <2>2. /\ StampFields(tasks[id], req.to).result = tasks[id].result
        /\ StampFields(tasks[id], req.to).state = tasks[id].state
    BY <2>1 DEF StampFields, Task
  <2> QED
    BY <1>1, <1>3, <2>2 DEF TypeOK
<1> QED
  BY <1>2, <1>3

\* Tasks do not disappear, and a terminal one keeps its state and its result:
\* the calls that store a result need a DISPATCHED task, and only CreateTask
\* replaces a task, which it does not do with ids that are fresh.
LEMMA FrozenTask ==
    ASSUME ~ClockMayRepeat, EngineInv, [Next]_vars, NEW id \in TaskIDs, Exists(tasks[id])
    PROVE  /\ Exists(tasks'[id])
           /\ IsTerminal(tasks[id].state) =>
                tasks'[id].state = tasks[id].state /\ tasks'[id].result = tasks[id].result
<1> USE DEF EngineInv
<1>1. CASE StoreTask
  <2>1. ~Exists(tasks[req.id])
    BY <1>1 DEF StoreTask, FreshIDs
  <2> QED
    BY <1>1, <2>1, StoreTaskState
<1>2. CASE ApplyState
  <2>1. ~IsTerminal(tasks[req.id].state)
    BY <1>2, ApplyStateState DEF CanTransition, Transitions, IsTerminal, Pending, Scheduled,
       Dispatched, Completed, Failed, Cancelled
  <2> QED
    BY <1>2, <2>1, ApplyStateState
<1>3. CASE ~StoreTask /\ ~ApplyState
  <2>1. tasks'[id].state = tasks[id].state
    BY <1>3, StatesUnchanged
  <2>2. ASSUME IsTerminal(tasks[id].state) PROVE tasks'[id].result = tasks[id].result
    <3>1. tasks[id].state # Dispatched
      BY <2>2 DEF IsTerminal, Dispatched, Completed, Failed, Cancelled
    <3>2. ASSUME NEW x \in TaskIDs, NEW r \in Results, BeginComplete(x, r)
          PROVE  tasks'[id] = tasks[id]
      BY <3>1, <3>2 DEF BeginComplete, TypeOK
    <3>3. ASSUME NEW x \in TaskIDs, NEW e \in Errors, BeginFail(x, e)
          PROVE  tasks'[id] = tasks[id]
      BY <3>1, <3>3 DEF BeginFail, TypeOK
    <3>4. ASSUME FinishTransition PROVE tasks'[id].result = tasks[id].result
      BY <3>4, FinishKeeps
    <3>5. \/ UNCHANGED tasks
          \/ FinishTransition
          \/ \E x \in TaskIDs, r \in Results : BeginComplete(x, r)
          \/ \E x \in TaskIDs, e \in Errors : BeginFail(x, e)
      BY <1>3 DEF Next, BeginCreate, BeginTransition, AppendOK, AppendFails, CheckpointEngine, CloseEngine, vars, engineVars
    <3> QED
      BY <3>2, <3>3, <3>4, <3>5
  <2> QED
    BY <2>1, <2>2 DEF Exists
<1> QED
  BY <1>1, <1>2, <1>3

-----------------------------------------------------------------------------
(* Copies made without the lock.                                           *)

Copying(r) == rd[r].pc \in {"struct", "have"}

\* The tasks a reader will copy, and the one it copies, are there.
RefsOK(r) ==
    /\ \A id \in rd[r].refs : Exists(tasks[id])
    /\ Copying(r) => rd[r].id \in TaskIDs /\ Exists(tasks[rd[r].id])
    /\ rd[r].pc = "have" => StructCopied(r)

\* Bytes that name a terminal state are still true, and so is the output that
\* was read after them, if there is one.
FinalOK(r) ==
    Copying(r) /\ IsTerminal(rd[r].bytes) =>
      /\ tasks[rd[r].id].state = rd[r].bytes
      /\ rd[r].pc = "have" => tasks[rd[r].id].result \in {Nil, rd[r].result}

\* Of a task in state s a copy has read nothing else.
ReadOnly(r, s) == rd[r].bytes \in {Nil, s} /\ rd[r].len \in {0, StateLen[s]}

\* Tasks that were selected in a terminal state are in it.
WantedOK(r) ==
    IsTerminal(rd[r].want) =>
      /\ \A id \in rd[r].refs : tasks[id].state = rd[r].want
      /\ Copying(r) => tasks[rd[r].id].state = rd[r].want /\ ReadOnly(r, rd[r].want)

OutputOf(s, t) == IF s \in {Completed, Failed} THEN t.result ELSE Nil

\* A terminal answer is still true, and a later copy agrees with it.
ToldOK(c) ==
    \A id \in TaskIDs : IsTerminal(answer[c][id].status) =>
      /\ Exists(tasks[id]) /\ tasks[id].state = answer[c][id].status
      /\ tasks[id].result # Nil =>
           answer[c][id].output = OutputOf(tasks[id].state, tasks[id])
      /\ Copying(c) /\ rd[c].id = id => ReadOnly(c, answer[c][id].status)

ReaderOK(r) == RefsOK(r) /\ FinalOK(r) /\ WantedOK(r) /\ ToldOK(r)

ReadersOK ==
    /\ ReadsTypeOK
    /\ answer \in [Clients -> [TaskIDs -> Answers]]
    /\ \A r \in Readers : ReaderOK(r)

LEMMA EngineKeepsReaders ==
    ASSUME ~ClockMayRepeat, EngineInv, [Next]_vars, ReadersOK, UNCHANGED <<rd, answer>>
    PROVE  ReadersOK'
<1>1. \A id \in TaskIDs : Exists(tasks[id]) =>
        /\ Exists(tasks'[id])
        /\ IsTerminal(tasks[id].state) =>
             tasks'[id].state = tasks[id].state /\ tasks'[id].result = tasks[id].result
  BY FrozenTask
<1>2. \A r \in Readers : rd[r].refs \subseteq TaskIDs
  BY DEF ReadersOK, ReadsTypeOK
<1> SUFFICES ASSUME NEW r \in Readers PROVE ReaderOK(r)'
  BY DEF ReadersOK, ReadsTypeOK
<1>3. ReaderOK(r)
  BY DEF ReadersOK
<1>4. RefsOK(r)'
  BY <1>1, <1>2, <1>3 DEF ReaderOK, RefsOK, Copying, StructCopied
<1>5. FinalOK(r)'
  BY <1>1, <1>3 DEF ReaderOK, RefsOK, FinalOK, Copying
<1>6. WantedOK(r)'
  BY <1>1, <1>2, <1>3 DEF ReaderOK, RefsOK, WantedOK, ReadOnly, Copying
<1>7. ToldOK(r)'
  BY <1>1, <1>3 DEF ReaderOK, ToldOK, OutputOf, ReadOnly, Copying
<1> QED
  BY <1>4, <1>5, <1>6, <1>7 DEF ReaderOK

ReaderStates ==
    [ pc     : {"idle", "next", "struct", "have"},
      want   : AllStates \cup {AnyState},
      locked : BOOLEAN,
      refs   : SUBSET TaskIDs,
      id     : TaskIDs \cup {Nil},
      bytes  : AllStates \cup {Nil},
      len    : {0, 6, 7, 9, 10},
      result : Results \cup {Nil, Torn, Unread} ]

LEMMA NotTerminal == ~IsTerminal(Nil) /\ ~IsTerminal(AnyState) /\ ~IsTerminal(Torn)
  BY ReadsAssumption DEF IsTerminal, AllStates

\* A step of one reader that leaves the engine and the answers alone concerns
\* that reader only.
LEMMA OneReader ==
    ASSUME ReadersOK, NEW r \in Readers, NEW q \in ReaderStates,
           rd' = [rd EXCEPT ![r] = q], UNCHANGED <<tasks, answer>>, ReaderOK(r)'
    PROVE  ReadersOK'
<1>1. rd \in [Readers -> ReaderStates]
  BY DEF ReadersOK, ReadsTypeOK, ReaderStates
<1>2. rd' \in [Readers -> ReaderStates] /\ \A x \in Readers : x # r => rd'[x] = rd[x]
  BY <1>1
<1>3. ASSUME NEW x \in Readers, x # r PROVE ReaderOK(x)'
  <2>1. rd'[x] = rd[x] /\ ReaderOK(x)
    BY <1>2, <1>3 DEF ReadersOK
  <2> QED
    BY <2>1 DEF ReaderOK, RefsOK, FinalOK, WantedOK, ToldOK, ReadOnly, Copying, StructCopied
<1> QED
  BY <1>2, <1>3 DEF ReadersOK, ReadsTypeOK, ReaderStates

LEMMA CollectStep ==
    ASSUME ReadersOK, NEW r \in Readers, NEW want \in AllStates \cup {AnyState},
           NEW locked \in BOOLEAN, NEW refs \in SUBSET TaskIDs,
           Collect(r, want, locked, refs), UNCHANGED answer,
           \A id \in refs : Exists(tasks[id]),
           IsTerminal(want) => \A id \in refs : tasks[id].state = want
    PROVE  ReadersOK'
<1> DEFINE q == [NoReader EXCEPT !.pc = "next", !.want = want, !.locked = locked, !.refs = refs]
<1>1. rd' = [rd EXCEPT ![r] = q] /\ UNCHANGED tasks
  BY DEF Collect, vars, engineVars
<1>2. q \in ReaderStates /\ q.pc = "next" /\ q.want = want /\ q.refs = refs
  BY DEF NoReader, ReaderStates
<1> HIDE DEF q
<1>3. rd'[r] = q
  BY <1>1 DEF ReadersOK, ReadsTypeOK
<1>4. ToldOK(r)'
  BY <1>1, <1>2, <1>3 DEF ReadersOK, ReaderOK, ToldOK, Copying
<1>5. RefsOK(r)' /\ FinalOK(r)' /\ WantedOK(r)'
  BY <1>1, <1>2, <1>3 DEF RefsOK, FinalOK, WantedOK, Copying
<1> QED
  BY <1>1, <1>2, <1>4, <1>5, OneReader DEF ReaderOK

LEMMA StartCopyStep ==
    ASSUME ReadersOK, NEW r \in Readers, StartCopy(r), UNCHANGED answer
    PROVE  ReadersOK'
<1>0. rd[r] \in ReaderStates
  BY DEF ReadersOK, ReadsTypeOK, ReaderStates
<1>1. PICK id \in rd[r].refs :
        /\ rd' = [rd EXCEPT ![r] = [NoReader EXCEPT !.pc = "struct",
                     !.want = rd[r].want, !.locked = rd[r].locked,
                     !.refs = rd[r].refs \ {id}, !.id = id]]
        /\ UNCHANGED tasks
  BY DEF StartCopy, vars, engineVars
<1> DEFINE q == [NoReader EXCEPT !.pc = "struct", !.want = rd[r].want,
                   !.locked = rd[r].locked, !.refs = rd[r].refs \ {id}, !.id = id]
<1>2. /\ q \in ReaderStates /\ q.pc = "struct" /\ q.want = rd[r].want
      /\ q.refs = rd[r].refs \ {id} /\ q.id = id /\ q.bytes = Nil /\ q.len = 0
  BY <1>0 DEF NoReader, ReaderStates
<1>3. rd' = [rd EXCEPT ![r] = q]
  BY <1>1
<1> HIDE DEF q
<1>4. rd'[r] = q
  BY <1>3 DEF ReadersOK, ReadsTypeOK
<1>5. id \in TaskIDs /\ ReaderOK(r)
  BY <1>0 DEF ReadersOK, ReaderStates
<1>6. RefsOK(r)' /\ FinalOK(r)'
  BY <1>1, <1>2, <1>4, <1>5, NotTerminal DEF ReaderOK, RefsOK, FinalOK, Copying
<1>7. WantedOK(r)'
  BY <1>1, <1>2, <1>4, <1>5 DEF ReaderOK, WantedOK, ReadOnly, Copying
<1>8. ToldOK(r)'
  BY <1>1, <1>2, <1>4, <1>5 DEF ReaderOK, ToldOK, ReadOnly, Copying
<1> QED
  BY <1>1, <1>2, <1>3, <1>6, <1>7, <1>8, OneReader DEF ReaderOK

\* The task that is being copied.
LEMMA CopiedTask ==
    ASSUME TypeOK, ReadersOK, NEW r \in Readers, Copying(r)
    PROVE  /\ rd[r] \in ReaderStates /\ rd[r].id \in TaskIDs
           /\ tasks[rd[r].id] \in Task /\ tasks[rd[r].id].state \in AllStates
           /\ ReaderOK(r)
<1>1. rd[r] \in ReaderStates /\ ReaderOK(r)
  BY DEF ReadersOK, ReadsTypeOK, ReaderStates
<1>2. rd[r].id \in TaskIDs /\ Exists(tasks[rd[r].id])
  BY <1>1 DEF ReaderOK, RefsOK
<1>3. tasks[rd[r].id] \in Task
  BY <1>2, ExistingIsTask DEF TypeOK
<1> QED
  BY <1>1, <1>2, <1>3 DEF Task

LEMMA CopyBytesStep ==
    ASSUME TypeOK, ReadersOK, NEW r \in Readers, CopyStateBytes(r), UNCHANGED answer
    PROVE  ReadersOK'
<1> DEFINE s == tasks[rd[r].id].state
           q == [rd[r] EXCEPT !.bytes = s]
<1>0. Copying(r) /\ rd[r].pc = "struct"
  BY DEF CopyStateBytes, Copying
<1>1. /\ rd[r] \in ReaderStates /\ rd[r].id \in TaskIDs /\ s \in AllStates /\ ReaderOK(r)
  BY <1>0, CopiedTask
<1>2. rd' = [rd EXCEPT ![r] = q] /\ UNCHANGED tasks
  BY DEF CopyStateBytes, vars, engineVars
<1>3. /\ q \in ReaderStates /\ q.pc = "struct" /\ q.want = rd[r].want /\ q.refs = rd[r].refs
      /\ q.id = rd[r].id /\ q.bytes = s /\ q.len = rd[r].len
  BY <1>0, <1>1 DEF ReaderStates
<1> HIDE DEF q
<1>4. rd'[r] = q
  BY <1>2 DEF ReadersOK, ReadsTypeOK
<1>5. RefsOK(r)' /\ FinalOK(r)'
  BY <1>0, <1>1, <1>2, <1>3, <1>4 DEF ReaderOK, RefsOK, FinalOK, Copying
<1>6. WantedOK(r)'
  BY <1>0, <1>1, <1>2, <1>3, <1>4 DEF ReaderOK, WantedOK, ReadOnly, Copying
<1>7. ToldOK(r)'
  BY <1>0, <1>1, <1>2, <1>3, <1>4 DEF ReaderOK, ToldOK, ReadOnly, Copying
<1> QED
  BY <1>2, <1>3, <1>5, <1>6, <1>7, OneReader DEF ReaderOK

LEMMA CopyLenStep ==
    ASSUME TypeOK, ReadersOK, NEW r \in Readers, CopyStateLen(r), UNCHANGED answer
    PROVE  ReadersOK'
<1> DEFINE n == StateLen[tasks[rd[r].id].state]
           q == [rd[r] EXCEPT !.len = n]
<1>0. Copying(r) /\ rd[r].pc = "struct"
  BY DEF CopyStateLen, Copying
<1>1. /\ rd[r] \in ReaderStates /\ rd[r].id \in TaskIDs
      /\ tasks[rd[r].id].state \in AllStates /\ ReaderOK(r)
  BY <1>0, CopiedTask
<1>2. n \in {6, 7, 9, 10}
  BY <1>1 DEF StateLen
<1>3. rd' = [rd EXCEPT ![r] = q] /\ UNCHANGED tasks
  BY DEF CopyStateLen, vars, engineVars
<1> HIDE DEF n
<1>4. /\ q \in ReaderStates /\ q.pc = "struct" /\ q.want = rd[r].want /\ q.refs = rd[r].refs
      /\ q.id = rd[r].id /\ q.bytes = rd[r].bytes /\ q.len = n
  BY <1>0, <1>1, <1>2 DEF ReaderStates
<1> HIDE DEF q
<1>5. rd'[r] = q
  BY <1>3 DEF ReadersOK, ReadsTypeOK
<1>6. RefsOK(r)' /\ FinalOK(r)'
  BY <1>0, <1>1, <1>3, <1>4, <1>5 DEF ReaderOK, RefsOK, FinalOK, Copying
<1>7. WantedOK(r)'
  BY <1>0, <1>1, <1>3, <1>4, <1>5 DEF ReaderOK, WantedOK, ReadOnly, Copying, n
<1>8. ToldOK(r)'
  BY <1>0, <1>1, <1>3, <1>4, <1>5 DEF ReaderOK, ToldOK, ReadOnly, Copying, n
<1> QED
  BY <1>3, <1>4, <1>6, <1>7, <1>8, OneReader DEF ReaderOK

\* A step that changes only the result of a copy under way.
LEMMA StructResultStep ==
    ASSUME TypeOK, ReadersOK, NEW r \in Readers, Copying(r), rd[r].pc = "struct",
           NEW x \in Results \cup {Nil, Torn, Unread},
           rd' = [rd EXCEPT ![r].result = x], UNCHANGED <<tasks, answer>>
    PROVE  ReadersOK'
<1> DEFINE q == [rd[r] EXCEPT !.result = x]
<1>1. rd[r] \in ReaderStates /\ rd[r].id \in TaskIDs /\ ReaderOK(r)
  BY CopiedTask
<1>2. rd' = [rd EXCEPT ![r] = q]
  OBVIOUS
<1>3. /\ q \in ReaderStates /\ q.pc = "struct" /\ q.want = rd[r].want /\ q.refs = rd[r].refs
      /\ q.id = rd[r].id /\ q.bytes = rd[r].bytes /\ q.len = rd[r].len
  BY <1>1 DEF ReaderStates
<1> HIDE DEF q
<1>4. rd'[r] = q
  BY <1>2 DEF ReadersOK, ReadsTypeOK
<1>5. RefsOK(r)' /\ FinalOK(r)'
  BY <1>1, <1>3, <1>4 DEF ReaderOK, RefsOK, FinalOK, Copying
<1>6. WantedOK(r)'
  BY <1>1, <1>3, <1>4 DEF ReaderOK, WantedOK, ReadOnly, Copying
<1>7. ToldOK(r)'
  BY <1>1, <1>3, <1>4 DEF ReaderOK, ToldOK, ReadOnly, Copying
<1> QED
  BY <1>2, <1>3, <1>5, <1>6, <1>7, OneReader DEF ReaderOK

LEMMA CopyStructStep ==
    ASSUME TypeOK, ReadersOK, NEW r \in Readers, UNCHANGED answer,
           CopyStructResult(r) \/ TearStructResult(r)
    PROVE  ReadersOK'
<1>1. Copying(r) /\ rd[r].pc = "struct" /\ UNCHANGED tasks
  BY DEF CopyStructResult, TearStructResult, Copying, vars, engineVars
<1>2. tasks[rd[r].id].result \in Results \cup {Nil}
  BY <1>1, CopiedTask DEF Task
<1>3. \E x \in Results \cup {Nil, Torn, Unread} : rd' = [rd EXCEPT ![r].result = x]
  BY <1>2 DEF CopyStructResult, TearStructResult
<1> QED
  BY <1>1, <1>3, StructResultStep

LEMMA CopyResultStep ==
    ASSUME TypeOK, ReadersOK, NEW r \in Readers, CopyResult(r), UNCHANGED answer
    PROVE  ReadersOK'
<1> DEFINE t == tasks[rd[r].id].result
           x == IF t # Nil THEN t ELSE rd[r].result
           q == [rd[r] EXCEPT !.pc = "have", !.result = x]
<1>0. Copying(r) /\ StructCopied(r)
  BY DEF CopyResult, Copying
<1>1. /\ rd[r] \in ReaderStates /\ rd[r].id \in TaskIDs /\ ReaderOK(r)
      /\ t \in Results \cup {Nil}
  BY <1>0, CopiedTask DEF Task
<1>2. rd' = [rd EXCEPT ![r] = q] /\ UNCHANGED tasks
  BY DEF CopyResult, vars, engineVars
<1>x. x \in Results \cup {Nil, Torn, Unread} /\ x # Unread /\ t \in {Nil, x}
  BY <1>0, <1>1, ReadsAssumption DEF ReaderStates, StructCopied
<1> HIDE DEF x
<1>3. /\ q \in ReaderStates /\ q.pc = "have" /\ q.want = rd[r].want /\ q.refs = rd[r].refs
      /\ q.id = rd[r].id /\ q.bytes = rd[r].bytes /\ q.len = rd[r].len /\ q.result = x
  BY <1>1, <1>x DEF ReaderStates
<1> HIDE DEF q
<1>4. rd'[r] = q
  BY <1>2 DEF ReadersOK, ReadsTypeOK
<1>5. RefsOK(r)' /\ FinalOK(r)'
  BY <1>0, <1>1, <1>2, <1>3, <1>4, <1>x DEF ReaderOK, RefsOK, FinalOK, Copying, StructCopied
<1>6. WantedOK(r)'
  BY <1>0, <1>1, <1>2, <1>3, <1>4 DEF ReaderOK, WantedOK, ReadOnly, Copying
<1>7. ToldOK(r)'
  BY <1>0, <1>1, <1>2, <1>3, <1>4 DEF ReaderOK, ToldOK, ReadOnly, Copying
<1> QED
  BY <1>2, <1>3, <1>5, <1>6, <1>7, OneReader DEF ReaderOK

LEMMA IdleReader ==
    /\ NoReader \in ReaderStates /\ NoReader.pc = "idle" /\ NoReader.refs = {}
    /\ ~IsTerminal(NoReader.want)
  BY NotTerminal DEF NoReader, ReaderStates

LEMMA ReturnStep ==
    ASSUME ReadersOK, NEW r \in Readers, Return(r), UNCHANGED answer
    PROVE  ReadersOK'
<1>1. rd' = [rd EXCEPT ![r] = NoReader] /\ UNCHANGED tasks
  BY DEF Return, vars, engineVars
<1>2. rd'[r] = NoReader
  BY <1>1 DEF ReadersOK, ReadsTypeOK
<1>3. RefsOK(r)' /\ FinalOK(r)' /\ WantedOK(r)'
  BY <1>2, IdleReader DEF RefsOK, FinalOK, WantedOK, Copying
<1>4. ToldOK(r)'
  BY <1>1, <1>2, IdleReader DEF ReadersOK, ReaderOK, ToldOK, Copying
<1> QED
  BY <1>1, <1>3, <1>4, IdleReader, OneReader DEF ReaderOK

\* What a finished copy shows of a terminal task is true.
LEMMA CopyIsTrue ==
    ASSUME ReadersOK, NEW r \in Readers, HasCopy(r)
    PROVE  /\ rd[r] \in ReaderStates /\ rd[r].id \in TaskIDs /\ Exists(tasks[rd[r].id])
           /\ rd[r].bytes \in AllStates /\ SnapState(r) \in AllStates \cup {Torn}
           /\ rd[r].result # Unread
           /\ IsTerminal(SnapState(r)) =>
                /\ tasks[rd[r].id].state = SnapState(r)
                /\ tasks[rd[r].id].result \in {Nil, rd[r].result}
<1>1. rd[r] \in ReaderStates /\ ReaderOK(r) /\ Copying(r) /\ StructCopied(r)
  BY DEF ReadersOK, ReadsTypeOK, ReaderStates, ReaderOK, RefsOK, HasCopy, Copying
<1>2. rd[r].bytes \in AllStates
  BY <1>1 DEF ReaderStates, StructCopied
<1>3. SnapState(r) \in {rd[r].bytes, Torn}
  BY DEF SnapState
<1>4. IsTerminal(SnapState(r)) => SnapState(r) = rd[r].bytes
  BY <1>3, NotTerminal
<1> QED
  BY <1>1, <1>2, <1>3, <1>4 DEF ReaderOK, RefsOK, FinalOK, HasCopy, StructCopied

LEMMA StatusStep ==
    ASSUME ReadersOK, NEW c \in Readers, StatusReturned(c)
    PROVE  ReadersOK'
<1> DEFINE id == rd[c].id
           a  == Response(c)
<1>1. /\ HasCopy(c) /\ rd' = [rd EXCEPT ![c] = NoReader] /\ UNCHANGED tasks
      /\ answer' = [answer EXCEPT ![c][id] = a]
  BY DEF StatusReturned, Return, HasCopy, vars, engineVars
<1>2. /\ id \in TaskIDs /\ Exists(tasks[id]) /\ rd[c] \in ReaderStates
      /\ SnapState(c) \in AllStates \cup {Torn} /\ rd[c].result # Unread
      /\ IsTerminal(SnapState(c)) =>
           tasks[id].state = SnapState(c) /\ tasks[id].result \in {Nil, rd[c].result}
  BY <1>1, CopyIsTrue
<1>3. a \in Answers /\ a.status = SnapState(c)
  BY <1>2 DEF Response, Answers, ReaderStates
<1>4. IsTerminal(a.status) =>
        /\ tasks[id].state = a.status
        /\ tasks[id].result # Nil => a.output = OutputOf(tasks[id].state, tasks[id])
  BY <1>2, <1>3 DEF Response, OutputOf
<1> HIDE DEF a
<1>5. /\ answer' \in [Clients -> [TaskIDs -> Answers]]
      /\ answer'[c][id] = a
      /\ \A x \in TaskIDs : x # id => answer'[c][x] = answer[c][x]
      /\ \A r \in Readers : r # c => answer'[r] = answer[r]
  BY <1>1, <1>2, <1>3 DEF ReadersOK, Clients
<1>6. rd \in [Readers -> ReaderStates]
  BY DEF ReadersOK, ReadsTypeOK, ReaderStates
<1>7. /\ rd' \in [Readers -> ReaderStates] /\ rd'[c] = NoReader
      /\ \A r \in Readers : r # c => rd'[r] = rd[r]
  BY <1>1, <1>6, IdleReader
<1>8. ASSUME NEW r \in Readers, r # c PROVE ReaderOK(r)'
  <2>1. rd'[r] = rd[r] /\ answer'[r] = answer[r] /\ ReaderOK(r)
    BY <1>5, <1>7, <1>8 DEF ReadersOK
  <2> QED
    BY <1>1, <2>1 DEF ReaderOK, RefsOK, FinalOK, WantedOK, ToldOK, ReadOnly, Copying,
       StructCopied
<1>9. RefsOK(c)' /\ FinalOK(c)' /\ WantedOK(c)'
  BY <1>7, IdleReader DEF RefsOK, FinalOK, WantedOK, Copying
<1>10. ToldOK(c)'
  <2> SUFFICES ASSUME NEW x \in TaskIDs, IsTerminal(answer'[c][x].status)
               PROVE  /\ Exists(tasks'[x]) /\ tasks'[x].state = answer'[c][x].status
                      /\ tasks'[x].result # Nil =>
                           answer'[c][x].output = OutputOf(tasks'[x].state, tasks'[x])
    BY <1>7, IdleReader DEF ToldOK, Copying
  <2>1. CASE x = id
    BY <1>1, <1>2, <1>4, <1>5, <2>1
  <2>2. CASE x # id
    BY <1>1, <1>5, <2>2 DEF ReadersOK, ReaderOK, ToldOK
  <2> QED
    BY <2>1, <2>2
<1> QED
  BY <1>5, <1>7, <1>8, <1>9, <1>10 DEF ReadersOK, ReadsTypeOK, ReaderStates, ReaderOK

\* The list of a workflow holds ids of that workflow.
Filed ==
    \A wf \in Workflows : \A k \in DOMAIN workflowTasks[wf] :
      WorkflowOf(workflowTasks[wf][k]) = wf

LEMMA FiledStep ==
    ASSUME EngineInv, Filed, [Next]_vars
    PROVE  Filed'
<1> USE DEF EngineInv
<1>1. CASE StoreTask
  <2> DEFINE w == WorkflowOf(req.id)
             s == workflowTasks[w]
  <2>1. /\ workflowTasks' = [workflowTasks EXCEPT ![w] = Append(s, req.id)]
        /\ req.id \in TaskIDs
    BY <1>1, StoreTaskState DEF StoreTask, TypeOK
  <2>2. w \in Workflows /\ s \in Seq(TaskIDs)
    BY <2>1 DEF TaskIDs, WorkflowOf, TypeOK
  <2>3. /\ workflowTasks'[w] = Append(s, req.id)
        /\ \A x \in Workflows : x # w => workflowTasks'[x] = workflowTasks[x]
    BY <2>1, <2>2 DEF TypeOK
  <2>4. /\ DOMAIN Append(s, req.id) = 1..(Len(s) + 1)
        /\ DOMAIN s = 1..Len(s) /\ Len(s) \in Nat
        /\ Append(s, req.id)[Len(s) + 1] = req.id
        /\ \A k \in 1..Len(s) : Append(s, req.id)[k] = s[k]
    BY <2>2
  <2>5. \A k \in 1..(Len(s) + 1) : WorkflowOf(Append(s, req.id)[k]) = w
    <3>1. \A k \in 1..Len(s) : WorkflowOf(s[k]) = w
      BY <2>2, <2>4 DEF Filed
    <3>2. \A k \in 1..(Len(s) + 1) : k = Len(s) + 1 \/ k \in 1..Len(s)
      BY <2>4
    <3> QED
      BY <2>4, <3>1, <3>2
  <2> QED
    BY <2>3, <2>4, <2>5 DEF Filed
<1>2. CASE ~StoreTask
  <2>1. workflowTasks' = workflowTasks
    BY <1>2 DEF Next, BeginCreate, BeginTransition, BeginComplete, BeginFail,
       AppendOK, AppendFails, ApplyState, FinishTransition, CheckpointEngine, CloseEngine, vars, engineVars
  <2> QED
    BY <2>1 DEF Filed
<1> QED
  BY <1>1, <1>2

LEMMA QueryStep ==
    ASSUME EngineInv, Filed, ReadersOK, NEW c \in Clients, Query(c)
    PROVE  ReadersOK'
<1> USE DEF EngineInv, Clients
<1>0. UNCHANGED answer
  BY DEF Query, serviceVars
<1>1. ASSUME NEW s \in AllStates, GetTasksByState(c, s) PROVE ReadersOK'
  <2> DEFINE refs == {id \in TaskIDs : tasks[id].state = s}
  <2>1. refs \in SUBSET TaskIDs /\ \A id \in refs : Exists(tasks[id]) /\ tasks[id].state = s
    BY DEF Exists, Absent, AllStates, Pending, Scheduled, Dispatched, Completed, Failed, Cancelled
  <2>2. Collect(c, s, FALSE, refs)
    BY <1>1 DEF GetTasksByState
  <2> HIDE DEF refs
  <2> QED
    BY <1>0, <2>1, <2>2, CollectStep
<1>2. ASSUME NEW p, GetTasksForPartition(c, p) PROVE ReadersOK'
  <2> DEFINE refs == {id \in TaskIDs : Exists(tasks[id]) /\ tasks[id].partition = p}
  <2>1. refs \in SUBSET TaskIDs /\ \A id \in refs : Exists(tasks[id])
    OBVIOUS
  <2>2. Collect(c, AnyState, FALSE, refs)
    BY <1>2 DEF GetTasksForPartition
  <2> HIDE DEF refs
  <2> QED
    BY <1>0, <2>1, <2>2, CollectStep, NotTerminal
<1>3. ASSUME NEW wf \in Workflows, GetWorkflowTasks(c, wf) PROVE ReadersOK'
  <2> DEFINE refs == {workflowTasks[wf][k] : k \in DOMAIN workflowTasks[wf]}
  <2>1. workflowTasks[wf] \in Seq(TaskIDs)
    BY DEF TypeOK
  <2>2. \A k \in DOMAIN workflowTasks[wf] : workflowTasks[wf][k] \in TaskIDs
    BY <2>1
  <2>3. \A k \in DOMAIN workflowTasks[wf] : Exists(tasks[workflowTasks[wf][k]])
    BY <2>2 DEF Filed, IndexMatchesTasks
  <2>4. refs \in SUBSET TaskIDs /\ \A id \in refs : Exists(tasks[id])
    BY <2>2, <2>3
  <2>5. Collect(c, AnyState, TRUE, refs)
    BY <1>3 DEF GetWorkflowTasks
  <2> HIDE DEF refs
  <2> QED
    BY <1>0, <2>4, <2>5, CollectStep, NotTerminal
<1>4. CASE Return(c)
  BY <1>0, <1>4, ReturnStep
<1> QED
  BY <1>1, <1>2, <1>3, <1>4 DEF Query

LEMMA ReadersStep ==
    ASSUME ~ClockMayRepeat, EngineInv, Filed, SentOK, ReadersOK, [GatewayNext]_gatewayVars
    PROVE  ReadersOK'
<1> USE DEF Clients
<1>1. ASSUME NEW c \in Clients, ReaderStep(c) PROVE ReadersOK'
  <2>1. ASSUME NEW id \in TaskIDs, GetTaskStatus(c, id) PROVE ReadersOK'
    <3>1. /\ Exists(tasks[id]) /\ Collect(c, AnyState, FALSE, {id}) /\ UNCHANGED answer
      BY <2>1 DEF GetTaskStatus, GetTask
    <3> QED
      BY <3>1, CollectStep, NotTerminal
  <2>2. CASE StatusReturned(c)
    BY <2>2, StatusStep
  <2>3. CASE Query(c)
    BY <2>3, QueryStep
  <2>4. CASE CopySteps(c)
    <3>1. TypeOK /\ UNCHANGED answer
      BY <2>4 DEF CopySteps, serviceVars, EngineInv
    <3> QED
      BY <2>4, <3>1, StartCopyStep, CopyBytesStep, CopyLenStep, CopyStructStep,
         CopyResultStep DEF CopySteps
  <2> QED
    BY <1>1, <2>1, <2>2, <2>3, <2>4 DEF ReaderStep
<1>2. CASE UNCHANGED <<rd, answer>>
  BY <1>2, EngineStep, EngineKeepsReaders
<1>3. \/ UNCHANGED <<rd, answer>>
      \/ \E c \in Clients : ReaderStep(c)
  BY DEF GatewayNext, ReaderStep, SubmitTask, SubmitAccepted, WorkerReports, handleTaskResult,
     Dispatch, EngineRuns, EngineFails, EngineCloses, gatewayVars, readVars, serviceVars
<1> QED
  BY <1>1, <1>2, <1>3

LEMMA ReadersInit == GatewayInit => Filed /\ SentOK /\ ReadersOK
<1> SUFFICES ASSUME GatewayInit PROVE Filed /\ SentOK /\ ReadersOK
  OBVIOUS
<1>1. /\ rd = [r \in Readers |-> NoReader] /\ sent = {}
      /\ answer = [c \in Clients |-> [id \in TaskIDs |-> NoAnswer]]
      /\ workflowTasks = [wf \in Workflows |-> <<>>]
  BY DEF GatewayInit, ReadsInit, Init
<1>2. Filed /\ SentOK
  BY <1>1 DEF Filed, SentOK
<1>3. NoAnswer \in Answers /\ NoAnswer.status = Nil
  BY DEF NoAnswer, Answers
<1>4. /\ answer \in [Clients -> [TaskIDs -> Answers]]
      /\ \A r \in Readers, id \in TaskIDs : answer[r][id].status = Nil
  BY <1>1, <1>3 DEF Clients
<1>5. ReadsTypeOK /\ \A r \in Readers : rd[r] = NoReader
  BY <1>1, IdleReader DEF ReadsTypeOK, ReaderStates
<1>6. ASSUME NEW r \in Readers PROVE ReaderOK(r)
  BY <1>4, <1>5, IdleReader, NotTerminal
     DEF ReaderOK, RefsOK, FinalOK, WantedOK, ToldOK, Copying
<1> QED
  BY <1>2, <1>4, <1>5, <1>6 DEF ReadersOK

\* Copies are as described at all times.
LEMMA ReadersInvariant ==
    ASSUME ~ClockMayRepeat PROVE GatewaySpec => [](EngineInv /\ ReadersOK)
<1>1. EngineInv /\ Filed /\ SentOK /\ ReadersOK /\ [GatewayNext]_gatewayVars =>
        Filed' /\ SentOK' /\ ReadersOK'
  BY SentStep, EngineStep, FiledStep, ReadersStep
<1> QED
  BY <1>1, ReadersInit, GatewayRunsEngine, EngineInvariant, PTL DEF GatewaySpec

\* No query dereferences a task that is not there, with any number of tasks
\* and queries: GetWorkflowTasks may call Copy without a test.
THEOREM QueriesFindTheirTasks ==
    ASSUME ~ClockMayRepeat PROVE GatewaySpec => []NoMissingTaskCopied
<1>1. ReadersOK => NoMissingTaskCopied
  BY DEF ReadersOK, ReaderOK, RefsOK, NoMissingTaskCopied
<1> QED
  BY <1>1, ReadersInvariant, PTL

\* A terminal state that a copy shows is the state of the task, although the
\* copy was made without the lock and its state is read in two pieces.
THEOREM TerminalCopiesAreFinal ==
    ASSUME ~ClockMayRepeat PROVE GatewaySpec => []TerminalCopyIsFinal
<1>1. ReadersOK => TerminalCopyIsFinal
  BY CopyIsTrue DEF TerminalCopyIsFinal
<1> QED
  BY <1>1, ReadersInvariant, PTL

\* A copy that has read only state s shows s.
LEMMA OnlyOneState ==
    ASSUME NEW r \in Readers, NEW s, ReadOnly(r, s), StructCopied(r)
    PROVE  SnapState(r) = s
  BY DEF ReadOnly, StructCopied, SnapState

\* GetTasksByState for a terminal state returns copies in that state only.
THEOREM TerminalQueriesAreExact ==
    ASSUME ~ClockMayRepeat PROVE GatewaySpec => []TerminalQueryIsExact
<1>1. ReadersOK => TerminalQueryIsExact
  <2> SUFFICES ASSUME ReadersOK, NEW r \in Readers, HasCopy(r), IsTerminal(rd[r].want)
               PROVE  SnapState(r) = rd[r].want
    BY DEF TerminalQueryIsExact
  <2>1. ReadOnly(r, rd[r].want) /\ StructCopied(r)
    BY DEF ReadersOK, ReaderOK, RefsOK, WantedOK, HasCopy, Copying
  <2> QED
    BY <2>1, OnlyOneState
<1> QED
  BY <1>1, ReadersInvariant, PTL

\* The status GetTaskStatus told a client of a task that ended stands, and so does
\* its output if the task has one, whatever results arrive after it and however
\* the copies of later answers race with them.
THEOREM OutcomesToldStand ==
    ASSUME ~ClockMayRepeat PROVE GatewaySpec => FinalAnswerStands
<1> DEFINE Stands == \A c \in Clients, id \in TaskIDs :
             IsTerminal(answer[c][id].status) =>
               /\ answer'[c][id].status = answer[c][id].status
               /\ tasks[id].result # Nil => answer'[c][id] = answer[c][id]
<1>1. ASSUME ReadersOK, [GatewayNext]_gatewayVars PROVE Stands
  <2>1. CASE UNCHANGED answer
    BY <2>1
  <2>2. ASSUME NEW x \in Clients, StatusReturned(x) PROVE Stands
    <3> DEFINE t == rd[x].id
    <3>1. HasCopy(x) /\ answer' = [answer EXCEPT ![x][t] = Response(x)]
      BY <2>2 DEF StatusReturned, Return, HasCopy
    <3>2. t \in TaskIDs /\ answer \in [Clients -> [TaskIDs -> Answers]]
      BY <1>1, <3>1, CopyIsTrue DEF Clients, ReadersOK
    <3>3. \A c \in Clients, id \in TaskIDs :
            c # x \/ id # t => answer'[c][id] = answer[c][id]
      BY <3>1, <3>2
    <3>4. ASSUME IsTerminal(answer[x][t].status)
          PROVE  /\ answer'[x][t].status = answer[x][t].status
                 /\ tasks[t].result # Nil => answer'[x][t] = answer[x][t]
      <4> DEFINE s == answer[x][t].status
      <4>1. /\ ReadOnly(x, s) /\ StructCopied(x) /\ tasks[t].state = s
            /\ tasks[t].result # Nil => answer[x][t].output = OutputOf(s, tasks[t])
        BY <1>1, <3>1, <3>2, <3>4
           DEF ReadersOK, ReaderOK, RefsOK, ToldOK, HasCopy, Copying, Clients
      <4>2. SnapState(x) = s
        BY <4>1, OnlyOneState DEF Clients
      <4>3. tasks[t].result \in {Nil, rd[x].result}
        BY <1>1, <3>1, <3>4, <4>2, CopyIsTrue DEF Clients
      <4>4. /\ answer'[x][t] = Response(x) /\ Response(x).status = s
            /\ tasks[t].result # Nil =>
                 Response(x) = [status |-> s, output |-> answer[x][t].output]
        BY <3>1, <3>2, <4>1, <4>2, <4>3 DEF Response, OutputOf
      <4>5. answer[x][t] \in Answers
        BY <3>2
      <4>6. answer[x][t] = [status |-> s, output |-> answer[x][t].output]
        BY <4>5 DEF Answers
      <4> QED
        BY <4>4, <4>6
    <3> QED
      BY <3>3, <3>4
  <2>3. UNCHANGED answer \/ \E x \in Clients : StatusReturned(x)
    BY <1>1 DEF GatewayNext, SubmitTask, SubmitAccepted, WorkerReports, handleTaskResult,
       Dispatch, EngineRuns, EngineFails, EngineCloses, GetTaskStatus, Query, CopySteps,
       gatewayVars, serviceVars
  <2> QED
    BY <2>1, <2>2, <2>3
<1>2. ReadersOK /\ [GatewayNext]_gatewayVars => [Stands]_gatewayVars
  BY <1>1
<1> QED
  BY <1>2, ReadersInvariant, PTL DEF GatewaySpec, FinalAnswerStands

-----------------------------------------------------------------------------
(* Where outcomes come from.                                               *)

FailureReported(id) == \E e \in Errors : Reported(id, FALSE, e)

\* A call that will complete or fail a task was made for a report.
RequestReported ==
    /\ phase \in {"log", "apply"} /\ req.to = Completed =>
         Reported(req.id, TRUE, tasks[req.id].result)
    /\ phase \in {"log", "apply"} /\ req.to = Failed => FailureReported(req.id)

\* So was every output a task holds, also one that a failed append left there.
OutcomesReported ==
    /\ RequestReported
    /\ \A id \in TaskIDs :
         /\ tasks[id].result # Nil => Reported(id, TRUE, tasks[id].result)
         /\ tasks[id].state = Completed => Reported(id, TRUE, tasks[id].result)
         /\ tasks[id].state = Failed => FailureReported(id)

\* Reports stay.
LEMMA ReportsGrow == ASSUME [GatewayNext]_gatewayVars PROVE sent \subseteq sent'
  BY DEF GatewayNext, SubmitTask, SubmitAccepted, WorkerReports, handleTaskResult, Dispatch,
     EngineRuns, EngineFails, EngineCloses, GetTaskStatus, StatusReturned, Query, CopySteps,
     gatewayVars

LEMMA ReportsStay ==
    ASSUME [GatewayNext]_gatewayVars
    PROVE  /\ \A id, ok, d : Reported(id, ok, d) => Reported(id, ok, d)'
           /\ \A id : FailureReported(id) => FailureReported(id)'
  BY ReportsGrow DEF Reported, FailureReported

LEMMA OutcomesStep ==
    ASSUME OutcomesByResult, EngineInv, SentOK, OutcomesReported, [GatewayNext]_gatewayVars
    PROVE  OutcomesReported'
<1> USE DEF EngineInv
<1>0. /\ \A id, ok, d : Reported(id, ok, d) => Reported(id, ok, d)'
      /\ \A id : FailureReported(id) => FailureReported(id)'
  BY ReportsStay
<1>1. CASE UNCHANGED <<tasks, phase, req>>
  BY <1>0, <1>1 DEF OutcomesReported, RequestReported
<1>2. ASSUME NEW c \in Clients, NEW wf \in Workflows, NEW p \in Payloads,
             NEW n \in 1..MaxNano, SubmitTask(c, wf, p, n)
      PROVE  OutcomesReported'
  <2>1. tasks' = tasks /\ req'.to = Pending
    BY <1>2 DEF SubmitTask, BeginCreate, Acquire
  <2> QED
    BY <1>0, <2>1 DEF OutcomesReported, RequestReported, Pending, Completed, Failed
<1>3. CASE SubmitAccepted
  <2>1. /\ phase' = "idle" /\ req.id \in TaskIDs /\ tasks'[req.id].state = Pending
        /\ \A id \in TaskIDs : id # req.id => tasks'[id] = tasks[id]
    BY <1>3, StoreTaskState DEF SubmitAccepted, StoreTask, Release
  <2>2. tasks'[req.id].result = Nil
    BY <1>3, <2>1 DEF SubmitAccepted, StoreTask, NewTask, TypeOK
  <2> QED
    BY <1>0, <2>1, <2>2 DEF OutcomesReported, RequestReported, Pending, Completed, Failed
<1>4. ASSUME NEW m \in sent, handleTaskResult(m) PROVE OutcomesReported'
  <2>0. m.id \in TaskIDs /\ sent' = sent
    BY <1>4 DEF handleTaskResult, SentOK
  <2>1. CASE m.ok /\ BeginComplete(m.id, m.data)
    <3>1. /\ req'.id = m.id /\ req'.to = Completed
          /\ tasks[m.id].state = Dispatched /\ Exists(tasks[m.id])
          /\ tasks' = [tasks EXCEPT ![m.id].result = m.data]
      BY <2>1 DEF BeginComplete, Acquire, Exists, Dispatched, Absent
    <3>2. tasks[m.id] \in Task
      BY <2>0, <3>1, ExistingIsTask DEF TypeOK
    <3>3. /\ tasks'[m.id].result = m.data /\ tasks'[m.id].state = Dispatched
          /\ \A id \in TaskIDs : id # m.id => tasks'[id] = tasks[id]
      BY <2>0, <3>1, <3>2 DEF TypeOK, Task
    <3>4. m.ok = TRUE
      BY <2>1 DEF SentOK
    <3>5. Reported(m.id, TRUE, m.data)'
      BY <2>0, <3>4 DEF Reported
    <3>6. RequestReported'
      BY <3>1, <3>3, <3>5 DEF RequestReported, Reported, Completed, Failed
    <3>7. ASSUME NEW id \in TaskIDs
          PROVE  /\ tasks'[id].result # Nil => Reported(id, TRUE, tasks[id].result)'
                 /\ tasks'[id].state = Completed => Reported(id, TRUE, tasks[id].result)'
                 /\ tasks'[id].state = Failed => FailureReported(id)'
      <4>1. CASE id = m.id
        BY <3>3, <3>5, <4>1 DEF Reported, Dispatched, Completed, Failed
      <4>2. CASE id # m.id
        BY <1>0, <2>0, <3>3, <4>2 DEF OutcomesReported, Reported
      <4> QED
        BY <4>1, <4>2
    <3> QED
      BY <3>6, <3>7 DEF OutcomesReported
  <2>2. CASE ~m.ok /\ BeginFail(m.id, m.data)
    <3>1. /\ req'.id = m.id /\ req'.to = Failed
          /\ tasks[m.id].state = Dispatched /\ Exists(tasks[m.id])
          /\ tasks' = [tasks EXCEPT ![m.id].error = m.data]
      BY <2>2 DEF BeginFail, Acquire, Exists, Dispatched, Absent
    <3>2. tasks[m.id] \in Task
      BY <2>0, <3>1, ExistingIsTask DEF TypeOK
    <3>3. /\ tasks'[m.id].state = Dispatched /\ tasks'[m.id].result = tasks[m.id].result
          /\ \A id \in TaskIDs : id # m.id => tasks'[id] = tasks[id]
      BY <2>0, <3>1, <3>2 DEF TypeOK, Task
    <3>4. m.ok = FALSE /\ m.data \in Errors
      BY <2>2 DEF SentOK
    <3>5. FailureReported(m.id)'
      BY <2>0, <3>4 DEF Reported, FailureReported
    <3> QED
      BY <1>0, <2>0, <3>1, <3>3, <3>5
         DEF OutcomesReported, RequestReported, Dispatched, Completed, Failed
  <2> QED
    BY <1>4, <2>1, <2>2 DEF handleTaskResult
<1>5. ASSUME NEW id \in TaskIDs, NEW to \in TransitionTargets, Dispatch(id, to)
      PROVE  OutcomesReported'
  <2>1. tasks' = tasks /\ req'.to = to /\ to \notin {Completed, Failed}
    BY <1>5 DEF Dispatch, BeginTransition, Acquire, OutcomesByResult
  <2> QED
    BY <1>0, <2>1 DEF OutcomesReported, RequestReported
<1>6. CASE EngineRuns
  <2>1. CASE AppendOK
    <3>1. tasks' = tasks /\ req'.to = req.to /\ req'.id = req.id /\ phase = "log"
      BY <2>1 DEF AppendOK, TypeOK, Request
    <3> QED
      BY <1>0, <3>1 DEF OutcomesReported, RequestReported
  <2>2. CASE ApplyState
    <3>1. /\ phase = "apply" /\ phase' = "stamp" /\ req.id \in TaskIDs /\ Exists(tasks[req.id])
          /\ tasks' = [tasks EXCEPT ![req.id] = SetState(tasks[req.id], req.to)]
      BY <2>2, ApplyStateState DEF ApplyState
    <3>2. tasks[req.id] \in Task
      BY <3>1, ExistingIsTask DEF TypeOK
    <3>3. /\ tasks'[req.id].state = req.to /\ tasks'[req.id].result = tasks[req.id].result
          /\ \A id \in TaskIDs : id # req.id => tasks'[id] = tasks[id]
      BY <3>1, <3>2 DEF TypeOK, Task, SetState
    <3> QED
      BY <1>0, <3>1, <3>3 DEF OutcomesReported, RequestReported
  <2>3. CASE FinishTransition
    <3>1. phase' = "idle"
      BY <2>3 DEF FinishTransition, Release
    <3>2. \A id \in TaskIDs : tasks'[id].state = tasks[id].state
      BY <2>3, StatesUnchanged DEF Next, FinishTransition, StoreTask, ApplyState
    <3>3. \A id \in TaskIDs : id # req.id => tasks'[id] = tasks[id]
      BY <2>3 DEF FinishTransition, TypeOK
    <3>4. req.id \in TaskIDs /\ Exists(tasks[req.id])
      BY <2>3 DEF FinishTransition, TypeOK, RequestInv, Request, Exists, AllStates, Absent,
         Pending, Scheduled, Dispatched, Completed, Failed, Cancelled
    <3>5. \A id \in TaskIDs : tasks'[id].result = tasks[id].result
      BY <2>3, <3>3, <3>4, FinishKeeps
    <3> QED
      BY <1>0, <3>1, <3>2, <3>5 DEF OutcomesReported, RequestReported
  <2> QED
    BY <1>6, <2>1, <2>2, <2>3 DEF EngineRuns
<1>7. CASE EngineFails
  <2>1. tasks' = tasks /\ phase' = "idle"
    BY <1>7 DEF EngineFails, AppendFails, Release
  <2> QED
    BY <1>0, <2>1 DEF OutcomesReported, RequestReported
<1>8. \/ UNCHANGED <<tasks, phase, req>>
      \/ \E c \in Clients, wf \in Workflows, p \in Payloads, n \in 1..MaxNano :
           SubmitTask(c, wf, p, n)
      \/ SubmitAccepted \/ EngineRuns \/ EngineFails
      \/ \E m \in sent : handleTaskResult(m)
      \/ \E id \in TaskIDs, to \in TransitionTargets : Dispatch(id, to)
  BY ReaderLeavesEngine DEF GatewayNext, ReaderStep, WorkerReports, EngineCloses, CloseEngine,
     gatewayVars, readVars, vars, engineVars
<1> QED
  BY <1>1, <1>2, <1>3, <1>4, <1>5, <1>6, <1>7, <1>8

\* An output that a copy or an answer holds was reported, or is a mixture.
CopyReported(r) ==
    Copying(r) =>
      rd[r].result \in {Unread, Torn, Nil} \/ Reported(rd[r].id, TRUE, rd[r].result)

AnswerReported(c, id) ==
    \/ answer[c][id].output \in {Unread, Torn, Nil}
    \/ Reported(id, TRUE, answer[c][id].output)

CopiesReported ==
    /\ \A r \in Readers : CopyReported(r)
    /\ \A c \in Clients, id \in TaskIDs : AnswerReported(c, id)

\* What one step of a reader can put into its copy.
LEMMA CopyHolds ==
    ASSUME ReadersOK, NEW r \in Readers, ReaderStep(r)
    PROVE  /\ \A x \in Readers : x # r => rd'[x] = rd[x]
           /\ \/ rd'[r].pc \in {"idle", "next"}
              \/ rd'[r].result \in {Unread, Torn}
              \/ /\ Copying(r) /\ rd'[r].id = rd[r].id
                 /\ rd'[r].result \in {rd[r].result, tasks[rd[r].id].result}
<1>0. rd \in [Readers -> ReaderStates]
  BY DEF ReadersOK, ReadsTypeOK, ReaderStates
<1>1. ASSUME NEW want, NEW locked, NEW refs, Collect(r, want, locked, refs)
      PROVE  (\A x \in Readers : x # r => rd'[x] = rd[x]) /\ rd'[r].pc = "next"
  BY <1>0, <1>1 DEF Collect, NoReader
<1>2. CASE Return(r)
  BY <1>0, <1>2 DEF Return, NoReader
<1>3. CASE StartCopy(r)
  <2>1. PICK id \in rd[r].refs :
          rd' = [rd EXCEPT ![r] = [NoReader EXCEPT !.pc = "struct",
                   !.want = rd[r].want, !.locked = rd[r].locked,
                   !.refs = rd[r].refs \ {id}, !.id = id]]
    BY <1>3 DEF StartCopy
  <2> QED
    BY <1>0, <2>1 DEF NoReader
<1>4. CASE \/ CopyStateBytes(r) \/ CopyStateLen(r) \/ CopyStructResult(r)
           \/ TearStructResult(r) \/ CopyResult(r)
  <2>1. rd[r] \in ReaderStates
    BY <1>0
  <2> QED
    BY <1>0, <1>4, <2>1 DEF CopyStateBytes, CopyStateLen, CopyStructResult, TearStructResult,
       CopyResult, Copying, ReaderStates
<1> QED
  BY <1>1, <1>2, <1>3, <1>4 DEF ReaderStep, GetTaskStatus, StatusReturned, Query, CopySteps,
     GetTask, GetTasksByState, GetTasksForPartition, GetWorkflowTasks

LEMMA CopiesStep ==
    ASSUME ReadersOK, OutcomesReported, CopiesReported, [GatewayNext]_gatewayVars
    PROVE  CopiesReported'
<1> USE DEF Clients, Reported
<1>0. sent \subseteq sent'
  BY ReportsGrow
<1>1. CASE UNCHANGED <<rd, answer>>
  BY <1>0, <1>1 DEF CopiesReported, CopyReported, AnswerReported, Copying
<1>2. ASSUME NEW r \in Readers, ReaderStep(r) PROVE CopiesReported'
  <2>1. Copying(r) => rd[r].id \in TaskIDs
    BY DEF ReadersOK, ReaderOK, RefsOK
  <2>2. ASSUME NEW x \in Readers, x # r PROVE CopyReported(x)'
    <3>1. rd'[x] = rd[x] /\ CopyReported(x)
      BY <1>2, <2>2, CopyHolds DEF CopiesReported
    <3> QED
      BY <1>0, <3>1 DEF CopyReported, Copying
  <2>3. CopyReported(r)'
    <3>1. \/ rd'[r].pc \in {"idle", "next"}
          \/ rd'[r].result \in {Unread, Torn}
          \/ /\ Copying(r) /\ rd'[r].id = rd[r].id
             /\ rd'[r].result \in {rd[r].result, tasks[rd[r].id].result}
      BY <1>2, CopyHolds
    <3>2. Copying(r) => \/ tasks[rd[r].id].result = Nil
                       \/ Reported(rd[r].id, TRUE, tasks[rd[r].id].result)
      BY <2>1 DEF OutcomesReported
    <3>3. CopyReported(r)
      BY DEF CopiesReported
    <3> QED
      BY <1>0, <3>1, <3>2, <3>3 DEF CopyReported, Copying
  <2>4. ASSUME NEW c \in Clients, NEW id \in TaskIDs PROVE AnswerReported(c, id)'
    <3>1. CASE answer'[c][id] = answer[c][id]
      BY <1>0, <3>1 DEF CopiesReported, AnswerReported
    <3>2. CASE answer'[c][id] # answer[c][id]
      <4>1. StatusReturned(r)
        BY <1>2, <3>2 DEF ReaderStep, GetTaskStatus, Query, CopySteps, serviceVars
      <4>2. HasCopy(r) /\ answer' = [answer EXCEPT ![r][rd[r].id] = Response(r)]
        BY <4>1 DEF StatusReturned, Return, HasCopy
      <4>3. c = r /\ id = rd[r].id /\ answer'[c][id] = Response(r)
        BY <2>1, <3>2, <4>2 DEF ReadersOK, HasCopy, Copying
      <4>4. Response(r).output \in {Nil, rd[r].result}
        BY DEF Response
      <4>5. CopyReported(r) /\ Copying(r)
        BY <4>2 DEF CopiesReported, HasCopy, Copying
      <4> QED
        BY <1>0, <4>3, <4>4, <4>5 DEF CopyReported, AnswerReported
    <3> QED
      BY <3>1, <3>2
  <2> QED
    BY <2>2, <2>3, <2>4 DEF CopiesReported
<1>3. \/ UNCHANGED <<rd, answer>>
      \/ \E c \in Clients : ReaderStep(c)
  BY DEF GatewayNext, ReaderStep, SubmitTask, SubmitAccepted, WorkerReports, handleTaskResult,
     Dispatch, EngineRuns, EngineFails, EngineCloses, gatewayVars, readVars, serviceVars
<1> QED
  BY <1>1, <1>2, <1>3

LEMMA OutcomesInvariant ==
    ASSUME ~ClockMayRepeat, OutcomesByResult
    PROVE  GatewaySpec => []( /\ EngineInv /\ SentOK /\ ReadersOK
                              /\ OutcomesReported /\ CopiesReported )
<1>1. GatewayInit => SentOK /\ OutcomesReported /\ CopiesReported
  <2> SUFFICES ASSUME GatewayInit PROVE SentOK /\ OutcomesReported /\ CopiesReported
    OBVIOUS
  <2>1. /\ sent = {} /\ phase = "idle" /\ tasks = [id \in TaskIDs |-> NoTask]
        /\ rd = [r \in Readers |-> NoReader]
        /\ answer = [c \in Clients |-> [id \in TaskIDs |-> NoAnswer]]
    BY DEF GatewayInit, ReadsInit, Init
  <2>2. NoTask.state = Absent /\ NoTask.result = Nil
    BY DEF NoTask, SetState, NewTask
  <2>3. \A id \in TaskIDs : tasks[id].state \notin {Completed, Failed} /\ tasks[id].result = Nil
    BY <2>1, <2>2 DEF Absent, Completed, Failed
  <2>4. CopiesReported
    BY <2>1 DEF CopiesReported, CopyReported, AnswerReported, Copying, NoReader, NoAnswer
  <2> QED
    BY <2>1, <2>3, <2>4 DEF SentOK, OutcomesReported, RequestReported
<1>2. EngineInv /\ SentOK /\ OutcomesReported /\ [GatewayNext]_gatewayVars => OutcomesReported'
  BY OutcomesStep
<1>3. ReadersOK /\ OutcomesReported /\ CopiesReported /\ [GatewayNext]_gatewayVars
        => CopiesReported'
  BY CopiesStep
<1> QED
  BY <1>1, <1>2, <1>3, SentStep, ReadersInvariant, PTL DEF GatewaySpec

\* A client is told that a task completed only if a worker reported it, and an
\* output only if a worker reported that one, except what a copy mixed from two
\* outputs of a task that ended without any.  This is for any number of late,
\* repeated and contradicting reports, if TransitionTask stores no outcomes.
THEOREM ToldWasReported ==
    ASSUME ~ClockMayRepeat, OutcomesByResult PROVE GatewaySpec => []AnswersWereReported
<1>1. EngineInv /\ ReadersOK /\ OutcomesReported /\ CopiesReported => AnswersWereReported
  <2> SUFFICES ASSUME EngineInv, ReadersOK, OutcomesReported, CopiesReported,
                      NEW c \in Clients, NEW id \in TaskIDs
               PROVE  LET a == answer[c][id] IN
                      /\ a.status = Completed =>
                           Reported(id, TRUE, IF a.output = Torn THEN Nil ELSE a.output)
                      /\ a.status = Failed => FailureReported(id)
    BY DEF AnswersWereReported, FailureReported
  <2>1. answer[c][id].status \in {Completed, Failed} =>
          /\ Exists(tasks[id]) /\ tasks[id].state = answer[c][id].status
          /\ tasks[id].result \in {Nil, answer[c][id].output}
    BY DEF ReadersOK, ReaderOK, ToldOK, OutputOf, IsTerminal, Clients
  <2>2. answer[c][id].output \in Results \cup {Nil, Torn}
    BY DEF ReadersOK, Answers
  <2>3. answer[c][id].output \in {Torn, Nil} \/ Reported(id, TRUE, answer[c][id].output)
    BY <2>2, ReadsAssumption DEF CopiesReported, AnswerReported
  <2>4. ASSUME answer[c][id].status = Completed
        PROVE  Reported(id, TRUE, IF answer[c][id].output = Torn THEN Nil ELSE answer[c][id].output)
    <3>1. tasks[id].state = Completed /\ Reported(id, TRUE, tasks[id].result)
      BY <2>1, <2>4 DEF OutcomesReported
    <3>2. CASE answer[c][id].output \notin {Torn, Nil}
      BY <2>3, <3>2
    <3>3. CASE answer[c][id].output \in {Torn, Nil} /\ tasks[id].result = Nil
      BY <3>1, <3>3
    <3>4. CASE tasks[id].result # Nil
      <4>1. tasks[id] \in Task /\ answer[c][id].output = tasks[id].result
        BY <2>1, <2>4, <3>4, ExistingIsTask DEF EngineInv, TypeOK
      <4>2. tasks[id].result # Torn
        BY <3>4, <4>1, ReadsAssumption DEF Task
      <4> QED
        BY <3>1, <4>1, <4>2
    <3> QED
      BY <2>1, <2>4, <3>2, <3>3, <3>4
  <2> QED
    BY <2>1, <2>4 DEF OutcomesReported
<1> QED
  BY <1>1, OutcomesInvariant, PTL

\* A copy that shows COMPLETED holds the output of the task, if it has one,
\* although Copy takes no lock and appends fail after a result was stored.
THEOREM CompletedCopiesHaveResults ==
    ASSUME ~ClockMayRepeat PROVE GatewaySpec => []CompletedCopyHasResult
<1>1. ReadersOK => CompletedCopyHasResult
  BY CopyIsTrue DEF CompletedCopyHasResult, IsTerminal
<1> QED
  BY <1>1, ReadersInvariant, PTL

-----------------------------------------------------------------------------
(* What the log tells of what clients were told.                           *)

\* No call is about to move a task that ended.
LEMMA EndedNotInFlight ==
    ASSUME ~ClockMayRepeat, EngineInv, NEW id \in TaskIDs,
           Exists(tasks[id]), IsTerminal(tasks[id].state)
    PROVE  ~InFlight(id)
<1> SUFFICES ASSUME phase = "apply", req.id = id PROVE FALSE
  BY DEF InFlight
<1>1. req.op # "create"
  BY DEF EngineInv, FreshIDs
<1>2. CanTransition(tasks[id].state, req.to)
  BY <1>1 DEF EngineInv, RequestInv
<1> QED
  BY <1>2 DEF CanTransition, Transitions, IsTerminal, Pending, Scheduled, Dispatched,
     Completed, Failed, Cancelled

\* The last entry about a task that ended names its state, and for a completed
\* task holds its result.
LEMMA LogTellsOutcome ==
    ASSUME ~ClockMayRepeat, EngineInv, LastExists, OutcomeEntries, ~closed,
           NEW id \in TaskIDs, Exists(tasks[id]), IsTerminal(tasks[id].state)
    PROVE  /\ Logged(id) /\ LastEntry(id).state = tasks[id].state
           /\ tasks[id].state = Completed => LastEntry(id).data = tasks[id].result
<1> USE DEF EngineInv
<1>1. Logged(id)
  BY DEF WriteAhead, Logged
<1>2. PICK i \in DOMAIN entries : entries[i].rec.task = id /\ LastOfTask(i)
  BY <1>1 DEF LastExists
<1>3. LastEntry(id) = entries[i].rec
  BY <1>2, LastEntryIs
<1>4. entries[i].rec.state = tasks[id].state
  BY <1>2, EndedNotInFlight DEF WriteAhead
<1>5. ASSUME tasks[id].state = Completed PROVE entries[i].rec.data = tasks[id].result
  <2>1. PICK k \in DOMAIN entries : /\ EntriesTo(id, Completed) = {k}
                                    /\ entries[k].rec.data = Stored(id, Completed)
    BY <1>5 DEF OutcomeEntries, Ended
  <2>2. i \in EntriesTo(id, Completed)
    BY <1>2, <1>4, <1>5 DEF EntriesTo
  <2>3. i = k
    BY <2>1, <2>2
  <2> QED
    BY <2>1, <2>3 DEF Stored
<1> QED
  BY <1>1, <1>3, <1>4, <1>5

\* The log ends with what GetTaskStatus told, for any number of clients, tasks,
\* attempts and failed appends: an answer is made from memory without the lock,
\* and memory never shows an end the log does not have, or an output other than
\* the one the log has.
THEOREM ToldIsRecoverable ==
    ASSUME ~ClockMayRepeat, OutcomesByResult PROVE GatewaySpec => []ToldIsLogged
<1>1. EngineInv /\ ReadersOK /\ LastExists /\ OutcomeEntries => ToldIsLogged
  <2> SUFFICES ASSUME EngineInv, ReadersOK, LastExists, OutcomeEntries, ~closed,
                      NEW c \in Clients, NEW id \in TaskIDs,
                      IsTerminal(answer[c][id].status)
               PROVE  /\ Logged(id) /\ LastEntry(id).state = answer[c][id].status
                      /\ answer[c][id].status = Completed =>
                           LastEntry(id).data \in {Nil, answer[c][id].output}
    BY DEF ToldIsLogged
  <2>1. /\ Exists(tasks[id]) /\ tasks[id].state = answer[c][id].status
        /\ tasks[id].result # Nil =>
             answer[c][id].output = OutputOf(tasks[id].state, tasks[id])
    BY DEF ReadersOK, ReaderOK, ToldOK, Clients
  <2> QED
    BY <2>1, LogTellsOutcome DEF OutputOf
<1> QED
  BY <1>1, ReadersInvariant, GatewayRunsEngine, LastExistsInvariant,
     OutcomeEntriesInvariant, PTL

\* Under the gateway the log holds every outcome and every attempt.
THEOREM GatewayLogsOutcomes ==
    ASSUME ~ClockMayRepeat, OutcomesByResult
    PROVE  GatewaySpec => [](OutcomeIsLogged /\ AttemptsAreLogged)
  BY GatewayRunsEngine, OutcomesAreRecoverable, AttemptsAreRecoverable, PTL

\* Two clients are never told different ends of one task, nor different outputs
\* of one that has an output.
ClientsAgree ==
    \A c, d \in Clients, id \in TaskIDs :
      IsTerminal(answer[c][id].status) /\ IsTerminal(answer[d][id].status) =>
        /\ answer[c][id].status = answer[d][id].status
        /\ tasks[id].result # Nil => answer[c][id] = answer[d][id]

\* Any two clients that are told how a task ended are told the same status, and
\* the same output if it has one, whenever and however often each of them asks:
\* answers are copied without the lock while results for several attempts arrive.
THEOREM ClientsAreToldTheSame ==
    ASSUME ~ClockMayRepeat PROVE GatewaySpec => []ClientsAgree
<1>1. ReadersOK => ClientsAgree
  <2> SUFFICES ASSUME ReadersOK, NEW c \in Clients, NEW d \in Clients, NEW id \in TaskIDs,
                      IsTerminal(answer[c][id].status), IsTerminal(answer[d][id].status)
               PROVE  /\ answer[c][id].status = answer[d][id].status
                      /\ tasks[id].result # Nil => answer[c][id] = answer[d][id]
    BY DEF ClientsAgree
  <2>1. \A x \in {c, d} :
          /\ tasks[id].state = answer[x][id].status
          /\ tasks[id].result # Nil =>
               answer[x][id].output = OutputOf(tasks[id].state, tasks[id])
    BY DEF ReadersOK, ReaderOK, ToldOK, Clients
  <2>2. answer[c][id] \in Answers /\ answer[d][id] \in Answers
    BY DEF ReadersOK
  <2>3. \A a \in Answers, b \in Answers :
          a.status = b.status /\ a.output = b.output => a = b
    BY DEF Answers
  <2> QED
    BY <2>1, <2>2, <2>3
<1> QED
  BY <1>1, ReadersInvariant, PTL

-----------------------------------------------------------------------------

ServiceTypes ==
    /\ submitter \in Clients \cup {NoClient}
    /\ asking \subseteq Clients
    /\ sent \subseteq Reports

\* The variables of the service and of its readers keep their types.
THEOREM GatewayTypeCorrect ==
    ASSUME ~ClockMayRepeat PROVE GatewaySpec => []GatewayTypeOK
<1>1. GatewayInit => SubmitOK /\ ServiceTypes
  BY DEF GatewayInit, SubmitOK, ServiceTypes, ReadsInit, Init
<1>2. ServiceTypes /\ [GatewayNext]_gatewayVars => ServiceTypes'
  <2> SUFFICES ASSUME ServiceTypes, [GatewayNext]_gatewayVars PROVE ServiceTypes'
    OBVIOUS
  <2>1. ASSUME NEW id \in TaskIDs, NEW a \in 1..MaxSequence, NEW ok \in BOOLEAN,
               NEW d \in Data, WorkerReports(id, a, ok, d)
        PROVE  ServiceTypes'
    <3>1. [id |-> id, attempt |-> a, ok |-> ok, data |-> d] \in Reports
      BY EngineAssumption DEF Reports
    <3> QED
      BY <2>1, <3>1 DEF WorkerReports, serviceVars, ServiceTypes
  <2>2. CASE ~\E id \in TaskIDs, a \in 1..MaxSequence, ok \in BOOLEAN, d \in Data :
                WorkerReports(id, a, ok, d)
    BY <2>2 DEF GatewayNext, SubmitTask, SubmitAccepted, handleTaskResult, Dispatch,
       EngineRuns, EngineFails, EngineCloses, GetTaskStatus, StatusReturned, Query, CopySteps,
       gatewayVars, serviceVars, ServiceTypes
  <2> QED
    BY <2>1, <2>2
<1>3. EngineInv => TypeOK
  BY DEF EngineInv
<1>4. SubmitOK /\ ServiceTypes /\ ReadersOK => GatewayTypeOK
  BY DEF SubmitOK, ServiceTypes, ReadersOK, GatewayTypeOK
<1> QED
  BY <1>1, <1>2, <1>3, <1>4, SubmitStep, ReadersInvariant, PTL DEF GatewaySpec
=============================================================================
