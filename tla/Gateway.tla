------------------------------- MODULE Gateway -------------------------------
(***************************************************************************)
(* gateway.GatewayService and WorkerServiceHandler over the engine: clients *)
(* that submit tasks and ask for their status, and the results of workers, *)
(* which handleTaskResult applies to the engine whenever they come.        *)
(*                                                                         *)
(* A result names its task and nothing else.  The streams that carry it    *)
(* break and are opened again, so a result may come late, after the task   *)
(* was sent back to PENDING and dispatched again, or more than once: sent  *)
(* only grows, and any result in it may be handled at any time.            *)
(*                                                                         *)
(* Requests that are refused by their own fields are not steps.  Who       *)
(* schedules and dispatches tasks is not written yet; Dispatch stands for  *)
(* it and calls TransitionTask as the tests do.  Of an answer the status   *)
(* and the output are kept; the error text is copied with the structure    *)
(* and can be that of before, after or between two assignments.            *)
(***************************************************************************)
EXTENDS EngineReads

CONSTANT NoClient     \* no SubmitTask is in progress

VARIABLES given,      \* per client: the task ids SubmitTask returned to it
          submitter,  \* the client whose CreateTask holds e.mu
          asking,     \* clients inside GetTaskStatus
          answer,     \* per client and task: the last status it was given
          sent        \* results workers sent, delivered or not

Clients == Readers

serviceVars == <<given, submitter, asking, answer>>
gatewayVars == <<readVars, serviceVars, sent>>

Reports == [id : TaskIDs, attempt : Nat, ok : BOOLEAN, data : Data]

Answers == [status : AllStates \cup {Nil, Torn}, output : Results \cup {Nil, Torn}]

NoAnswer == [status |-> Nil, output |-> Nil]

GatewayTypeOK ==
    /\ ReadsTypeOK
    /\ given \in [Clients -> SUBSET TaskIDs]
    /\ submitter \in Clients \cup {NoClient}
    /\ asking \subseteq Clients
    /\ answer \in [Clients -> [TaskIDs -> Answers]]
    /\ sent \subseteq Reports

GatewayInit ==
    /\ ReadsInit
    /\ given = [c \in Clients |-> {}]
    /\ submitter = NoClient
    /\ asking = {}
    /\ answer = [c \in Clients |-> [id \in TaskIDs |-> NoAnswer]]
    /\ sent = {}

-----------------------------------------------------------------------------
(* SubmitTask.                                                             *)

\* The workflow id is a clock reading of its own: two submissions may share it.
SubmitTask(c, wf, payload, n) ==
    /\ rd[c].pc = "idle"
    /\ BeginCreate(wf, payload, n)
    /\ submitter' = c
    /\ UNCHANGED <<rd, given, asking, answer, sent>>

MutantSubmitAccepted ==
    /\ AppendOK
    /\ IF req.op = "create"
         THEN given' = [given EXCEPT ![submitter] = @ \cup {req.id}]
         ELSE UNCHANGED given
    /\ UNCHANGED <<rd, submitter, asking, answer, sent>>

\* CreateTask returns, and the client is given the id of the task.
SubmitAccepted ==
    /\ StoreTask
    /\ given' = [given EXCEPT ![submitter] = @ \cup {req.id}]
    /\ submitter' = NoClient
    /\ UNCHANGED <<rd, asking, answer, sent>>

-----------------------------------------------------------------------------
(* handleTaskResult, and the calls of others.                              *)

\* External: a worker reports on an attempt that was dispatched to it.
WorkerReports(id, attempt, ok, data) ==
    /\ attempt \in 1..tasks[id].attempts
    /\ data \in IF ok THEN Results ELSE Errors
    /\ ~\E m \in sent : m.id = id /\ m.attempt = attempt
    /\ sent' = sent \cup {[id |-> id, attempt |-> attempt, ok |-> ok, data |-> data]}
    /\ UNCHANGED <<readVars, serviceVars>>

MutantIgnoresSuccess(m) ==
    /\ BeginComplete(m.id, m.data)
    /\ UNCHANGED <<rd, serviceVars, sent>>

\* An engine that refuses the call changes nothing, and the error is logged.
handleTaskResult(m) ==
    /\ \/ m.ok /\ BeginComplete(m.id, m.data)
       \/ ~m.ok /\ BeginFail(m.id, m.data)
    /\ UNCHANGED <<rd, serviceVars, sent>>

Dispatch(id, to) ==
    /\ BeginTransition(id, to)
    /\ UNCHANGED <<rd, serviceVars, sent>>

\* The steps of the call that holds e.mu, after its first.
EngineRuns ==
    /\ AppendOK \/ ApplyState \/ FinishTransition
    /\ UNCHANGED <<rd, serviceVars, sent>>

\* The caller gets the error; for SubmitTask that is its client.
EngineFails ==
    /\ AppendFails
    /\ submitter' = NoClient
    /\ UNCHANGED <<rd, given, asking, answer, sent>>

EngineCloses ==
    /\ CloseEngine
    /\ UNCHANGED <<rd, serviceVars, sent>>

-----------------------------------------------------------------------------
(* GetTaskStatus, and the queries of others.                               *)

GetTaskStatus(c, id) ==
    /\ c # submitter
    /\ id \in given[c]
    /\ GetTask(c, id)
    /\ asking' = asking \cup {c}
    /\ UNCHANGED <<given, submitter, answer, sent>>

\* The response: a result only for a task that completed or failed.
Response(c) ==
    [status |-> SnapState(c),
     output |-> IF SnapState(c) \in {Completed, Failed} THEN rd[c].result ELSE Nil]

StatusReturned(c) ==
    /\ c \in asking
    /\ Return(c)
    /\ answer' = [answer EXCEPT ![c][rd[c].id] = Response(c)]
    /\ asking' = asking \ {c}
    /\ UNCHANGED <<given, submitter, sent>>

\* The other query methods, which no handler calls yet.
Query(c) ==
    /\ c # submitter
    /\ \/ \E s \in AllStates : GetTasksByState(c, s)
       \/ \E p \in 0..(PartitionCount - 1) : GetTasksForPartition(c, p)
       \/ \E wf \in Workflows : GetWorkflowTasks(c, wf)
       \/ c \notin asking /\ Return(c)
    /\ UNCHANGED <<serviceVars, sent>>

CopySteps(c) ==
    /\ \/ StartCopy(c)
       \/ CopyStateBytes(c)
       \/ CopyStateLen(c)
       \/ CopyStructResult(c)
       \/ TearStructResult(c)
       \/ CopyResult(c)
    /\ UNCHANGED <<serviceVars, sent>>

GatewayNext ==
    \/ \E c \in Clients, wf \in Workflows, p \in Payloads, n \in 1..MaxNano :
         SubmitTask(c, wf, p, n)
    \/ SubmitAccepted
    \/ \E id \in TaskIDs, a \in 1..MaxSequence, ok \in BOOLEAN, d \in Data :
         WorkerReports(id, a, ok, d)
    \/ \E m \in sent : handleTaskResult(m)
    \/ \E id \in TaskIDs, to \in TransitionTargets : Dispatch(id, to)
    \/ EngineRuns
    \/ EngineFails
    \/ EngineCloses
    \/ \E c \in Clients :
         \/ \E id \in TaskIDs : GetTaskStatus(c, id)
         \/ StatusReturned(c)
         \/ Query(c)
         \/ CopySteps(c)

GatewaySpec == GatewayInit /\ [][GatewayNext]_gatewayVars

-----------------------------------------------------------------------------

\* A submission that was accepted is in memory and in the log, one that was
\* refused has left nothing behind: the tasks are those whose ids were given
\* to clients.
AcceptedIsKept ==
    /\ \A id \in TaskIDs : Exists(tasks[id]) <=> \E c \in Clients : id \in given[c]
    /\ ~closed => \A c \in Clients : \A id \in given[c] : Logged(id)

\* A client that was told how a task ended is never told otherwise: not by
\* results that come twice or late, not by a call that failed half way, not by a
\* copy that raced with either.  Its status stands, and so does its output if
\* the task has one; for a task that ended without, an answer may hold a
\* leftover.
FinalAnswerStands ==
    [][\A c \in Clients, id \in TaskIDs :
         IsTerminal(answer[c][id].status) =>
           /\ answer'[c][id].status = answer[c][id].status
           /\ tasks[id].result # Nil => answer'[c][id] = answer[c][id]]_gatewayVars

Reported(id, ok, data) ==
    \E m \in sent : m.id = id /\ m.ok = ok /\ m.data = data

\* What clients are told comes from a worker: a task is COMPLETED for a client
\* only if a worker reported a success of it, and the output was reported as one,
\* unless a copy mixed two reported outputs of a task that ended without any.  A
\* task is FAILED only if a worker reported a failure of it.  An attempt that was
\* given up counts as any other.
AnswersWereReported ==
    \A c \in Clients, id \in TaskIDs :
      LET a == answer[c][id] IN
      /\ a.status = Completed =>
           Reported(id, TRUE, IF a.output = Torn THEN Nil ELSE a.output)
      /\ a.status = Failed => \E e \in Errors : Reported(id, FALSE, e)

\* What a client was told is what the log tells: until Close drops it, the last
\* entry about the task names the state the client was told, and holds the
\* output it was given, unless it records a completion without output.
ToldIsLogged ==
    ~closed => \A c \in Clients, id \in TaskIDs :
      LET a == answer[c][id] IN
      IsTerminal(a.status) =>
        /\ Logged(id) /\ LastEntry(id).state = a.status
        /\ a.status = Completed => LastEntry(id).data \in {Nil, a.output}
=============================================================================
