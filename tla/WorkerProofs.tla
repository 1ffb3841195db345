---------------------------- MODULE WorkerProofs ----------------------------
(***************************************************************************)
(* What the worker promises about the tasks it executes, for any number of *)
(* streams and tasks and whatever the stream manager does: the statistics  *)
(* count every task once, and Stop leaves at most one more task to each    *)
(* stream.                                                                 *)
(*                                                                         *)
(* The second is not inductive by itself: a stream that has executed its   *)
(* task must not receive again.  StopBound adds that one that is receiving *)
(* has received nothing since Stop, which holds because processStream      *)
(* tests done before every Recv.  The first needs that the goroutine       *)
(* onConnected starts is a stream that executes nothing yet (OpenedExists).*)
(*                                                                         *)
(* The second part is about the composition.  The worker takes only steps  *)
(* of the stream manager, so the manager's invariants hold under it; with  *)
(* them follow what the callbacks can rely on (CallbackInv) and that, with *)
(* the callback the worker passes today, it never gets a stream.           *)
(***************************************************************************)
EXTENDS Worker, StreamManagerProofs, FiniteSetTheorems

StreamStates == [Streams -> [pc : StreamPcs, then : {"top", "ended"}, known : BOOLEAN]]

\* The records WorkerTypeOK speaks of field by field.
RecordsOK ==
    /\ stats \in [processed : Nat, failed : Nat]
    /\ hist \in [got : Nat, late : [Streams -> Nat]]

OpenedExists == cb \in {"opened", "up"} => \E s \in Streams : st[s].pc = "opened"

StopBound ==
    \A s \in Streams :
      /\ hist.late[s] <= 1
      /\ st[s].pc = "recv" \/ ~Stopping => hist.late[s] = 0

WorkerInv == WorkerTypeOK /\ RecordsOK /\ OpenedExists /\ StopBound /\ EveryTaskCounted

-----------------------------------------------------------------------------
(* Counting the streams that are at a step.                                *)

Here(pc) == {s \in Streams : st[s].pc = pc}

LEMMA CountIsNat ==
    ASSUME NEW F \in SUBSET Streams
    PROVE  Cardinality(F) \in Nat /\ IsFiniteSet(F)
  BY WorkerAssumption, FS_Subset, FS_CardinalityType

LEMMA CountEnters ==
    ASSUME NEW F \in SUBSET Streams, NEW s \in Streams \ F
    PROVE  Cardinality(F \cup {s}) = Cardinality(F) + 1
  BY CountIsNat, FS_AddElement

LEMMA CountLeaves ==
    ASSUME NEW F \in SUBSET Streams, NEW s \in F
    PROVE  Cardinality(F \ {s}) = Cardinality(F) - 1
  BY CountIsNat, FS_RemoveElement

-----------------------------------------------------------------------------
(* Steps.                                                                  *)

\* The step moves stream s and no other.
Moves(s, from, to) ==
    /\ st[s].pc = from /\ st'[s].pc = to
    /\ st' \in StreamStates
    /\ \A x \in Streams \ {s} : st'[x] = st[x]

LEMMA MoveForms ==
    ASSUME WorkerInv, NEW s \in Streams, NEW to \in StreamPcs,
           \/ Goto(s, to)
           \/ st' = [st EXCEPT ![s].pc = to]
           \/ \E t \in {"top", "ended"} : st' = [st EXCEPT ![s].pc = to, ![s].then = t]
           \/ \E k \in BOOLEAN : st' = [st EXCEPT ![s].pc = to, ![s].known = k]
    PROVE  Moves(s, st[s].pc, to)
<1> DEFINE Rec == [pc : StreamPcs, then : {"top", "ended"}, known : BOOLEAN]
<1>1. st \in [Streams -> Rec] /\ st[s] \in Rec
  BY DEF WorkerInv, WorkerTypeOK
<1>2. \E r \in Rec : r.pc = to /\ st' = [st EXCEPT ![s] = r]
  <2>1. CASE Goto(s, to)
    BY <2>1, At(to) \in Rec, At(to).pc = to DEF Goto, At
  <2>2. CASE st' = [st EXCEPT ![s].pc = to]
    <3>1. [st[s] EXCEPT !.pc = to] \in Rec /\ [st[s] EXCEPT !.pc = to].pc = to
      BY <1>1
    <3> QED
      BY <2>2, <3>1
  <2>3. ASSUME NEW t \in {"top", "ended"}, st' = [st EXCEPT ![s].pc = to, ![s].then = t]
        PROVE  \E r \in Rec : r.pc = to /\ st' = [st EXCEPT ![s] = r]
    <3> DEFINE r == [st[s] EXCEPT !.pc = to, !.then = t]
    <3>1. r \in Rec /\ r.pc = to
      BY <1>1
    <3>2. st' = [st EXCEPT ![s] = r]
      BY <1>1, <2>3
    <3> QED
      BY <3>1, <3>2
  <2>4. ASSUME NEW k \in BOOLEAN, st' = [st EXCEPT ![s].pc = to, ![s].known = k]
        PROVE  \E r \in Rec : r.pc = to /\ st' = [st EXCEPT ![s] = r]
    <3> DEFINE r == [st[s] EXCEPT !.pc = to, !.known = k]
    <3>1. r \in Rec /\ r.pc = to
      BY <1>1
    <3>2. st' = [st EXCEPT ![s] = r]
      BY <1>1, <2>4
    <3> QED
      BY <3>1, <3>2
  <2> QED
    BY <2>1, <2>2, <2>3, <2>4
<1> HIDE DEF Rec
<1>3. st' \in [Streams -> Rec] /\ st'[s].pc = to /\ \A x \in Streams \ {s} : st'[x] = st[x]
  BY <1>1, <1>2
<1> QED
  BY <1>3 DEF Rec, Moves, StreamStates

\* A stream moves between steps other than executing.
LEMMA QuietMove ==
    ASSUME WorkerInv, NEW s \in Streams, NEW from, NEW to, Moves(s, from, to),
           "run" \notin {from, to},
           to = "recv" => ~Stopping,
           UNCHANGED <<stop, stats, hist>>
    PROVE  StopBound' /\ EveryTaskCounted' /\ RecordsOK'
<1>1. StopBound'
  BY DEF WorkerInv, StopBound, Moves, Stopping
<1>2. Here("run")' = Here("run")
  BY DEF Moves, Here
<1>3. EveryTaskCounted'
  BY <1>2 DEF WorkerInv, EveryTaskCounted, StreamsAt, Here
<1> QED
  BY <1>1, <1>3 DEF WorkerInv, RecordsOK

\* Steps that concern no stream's goroutine; Stop only advances.
LEMMA IdleStep ==
    ASSUME WorkerInv, UNCHANGED <<st, stats, hist>>, Stopping => Stopping'
    PROVE  StopBound' /\ EveryTaskCounted' /\ RecordsOK'
  BY DEF WorkerInv, StopBound, EveryTaskCounted, RecordsOK, StreamsAt

LEMMA WorkerInitInv == WorkerInit => WorkerInv
<1> SUFFICES ASSUME WorkerInit PROVE WorkerInv
  OBVIOUS
<1>1. st \in StreamStates
  BY DEF WorkerInit, StreamStates, At, StreamPcs
<1>2. RecordsOK /\ hist.late \in [Streams -> 0..MaxTasks]
  BY WorkerAssumption DEF WorkerInit, RecordsOK
<1>3. WorkerTypeOK
  <2>1. {client, current} \subseteq Streams \cup {NoStream} /\ handlers \subseteq TaskTypes
    BY DEF WorkerInit
  <2>2. stats.processed \in 0..MaxTasks /\ stats.failed \in 0..stats.processed /\ hist.got \in 0..MaxTasks
    BY WorkerAssumption DEF WorkerInit
  <2>3. /\ connected \in BOOLEAN /\ cb \in {"none", "opened", "up", "down"}
        /\ stop \in {"no", "cancel", "close", "client", "stopped"}
    BY DEF WorkerInit
  <2> QED
    BY <1>1, <1>2, <2>1, <2>2, <2>3 DEF WorkerTypeOK, StreamStates
<1>4. OpenedExists
  BY DEF WorkerInit, OpenedExists
<1>5. StopBound
  BY DEF WorkerInit, StopBound, At
<1>6. {s \in Streams : st[s].pc = "run"} = {}
  BY DEF WorkerInit, At
<1>7. Cardinality({}) = 0
  BY FS_EmptySet
<1>8. EveryTaskCounted
  BY <1>6, <1>7 DEF WorkerInit, EveryTaskCounted, StreamsAt
<1> QED
  BY <1>2, <1>3, <1>4, <1>5, <1>8 DEF WorkerInv

\* The manager, the callbacks and Stop where they move no stream.
LEMMA IdleSteps ==
    ASSUME WorkerInv,
           \/ \E t \in TaskTypes : RegisterHandler(t)
           \/ ManagerStep \/ NewConnection \/ SetConnected \/ OpenFails
           \/ LoopSetsDown \/ LoopUnsetsClient
           \/ CloseDone \/ Cancel \/ CloseManager \/ CloseClient
           \/ UNCHANGED allVars
    PROVE  WorkerInv'
<1> USE DEF taskVars, workerVars, allVars
<1>1. UNCHANGED <<st, stats, hist>>
  BY DEF RegisterHandler, ManagerStep, NewConnection, SetConnected, OpenFails,
     LoopSetsDown, LoopUnsetsClient, CloseDone, Cancel, CloseManager, CloseClient, StopAt
<1>2. Stopping => Stopping'
  BY DEF RegisterHandler, ManagerStep, NewConnection, SetConnected, OpenFails,
     LoopSetsDown, LoopUnsetsClient, CloseDone, Cancel, CloseManager, CloseClient,
     StopAt, Stopping
<1>3. OpenedExists'
  BY <1>1 DEF WorkerInv, OpenedExists, RegisterHandler, ManagerStep, NewConnection,
     SetConnected, OpenFails, LoopSetsDown, LoopUnsetsClient, CloseDone, Cancel,
     CloseManager, CloseClient, StopAt
<1>4. WorkerTypeOK'
  <2>1. handlers' \subseteq TaskTypes
    BY DEF WorkerInv, WorkerTypeOK, RegisterHandler, ManagerStep, NewConnection,
       SetConnected, OpenFails, LoopSetsDown, LoopUnsetsClient, CloseDone, Cancel,
       CloseManager, CloseClient, StopAt
  <2>2. {client, current}' \subseteq Streams \cup {NoStream}
    BY DEF WorkerInv, WorkerTypeOK, RegisterHandler, ManagerStep, NewConnection,
       SetConnected, OpenFails, LoopSetsDown, LoopUnsetsClient, CloseDone, Cancel,
       CloseManager, CloseClient, StopAt
  <2>3. /\ connected' \in BOOLEAN /\ cb' \in {"none", "opened", "up", "down"}
        /\ stop' \in {"no", "cancel", "close", "client", "stopped"}
    BY DEF WorkerInv, WorkerTypeOK, RegisterHandler, ManagerStep, NewConnection,
       SetConnected, OpenFails, LoopSetsDown, LoopUnsetsClient, CloseDone, Cancel,
       CloseManager, CloseClient, StopAt
  <2> QED
    BY <1>1, <2>1, <2>2, <2>3 DEF WorkerInv, WorkerTypeOK
<1> QED
  BY <1>1, <1>2, <1>3, <1>4, IdleStep DEF WorkerInv

\* Types and OpenedExists when a stream that is not being opened moves.
LEMMA MoveKeepsRest ==
    ASSUME WorkerInv, NEW s \in Streams, NEW from, NEW to, Moves(s, from, to),
           from # "opened",
           UNCHANGED <<handlers, cb, stop, current>>,
           client' \in Streams \cup {NoStream}, connected' \in BOOLEAN
    PROVE  /\ OpenedExists'
           /\ UNCHANGED <<stats, hist>> => WorkerTypeOK'
<1>1. OpenedExists'
  BY DEF WorkerInv, OpenedExists, Moves
<1>2. ASSUME UNCHANGED <<stats, hist>> PROVE WorkerTypeOK'
  BY <1>2 DEF WorkerInv, WorkerTypeOK, Moves, StreamStates
<1> QED
  BY <1>1, <1>2

\* The steps of a stream's goroutine beside receiving and executing; a result is
\* sent or lost.
LEMMA QuietSteps ==
    ASSUME WorkerInv, NEW s \in Streams,
           \/ CheckDone(s) \/ ReceiveOther(s) \/ RecvFails(s)
           \/ SendResult(s) \/ SendFails(s)
           \/ MarkFirst(s) \/ MarkAgain(s) \/ SetDown(s) \/ UnsetClient(s)
    PROVE  WorkerInv'
<1> DEFINE to == st'[s].pc
<1>1. st \in StreamStates /\ st[s].then \in {"top", "ended"}
  BY DEF WorkerInv, WorkerTypeOK, StreamStates
<1>2. \E pc \in StreamPcs : Moves(s, st[s].pc, pc)
  <2>1. CASE CheckDone(s) \/ ReceiveOther(s) \/ SendResult(s) \/ MarkAgain(s) \/ UnsetClient(s)
    <3>1. \E pc \in {"top", "recv", "ended"} : Goto(s, pc)
      BY <1>1, <2>1 DEF CheckDone, ReceiveOther, SendResult, MarkAgain, UnsetClient
    <3> QED
      BY <3>1, MoveForms DEF StreamPcs
  <2>2. CASE RecvFails(s) \/ SendFails(s)
    BY <2>2, MoveForms DEF RecvFails, SendFails, StreamPcs
  <2>3. CASE MarkFirst(s)
    BY <2>3, MoveForms DEF MarkFirst, StreamPcs
  <2>4. CASE SetDown(s)
    BY <2>4, MoveForms DEF SetDown, StreamPcs
  <2> QED
    BY <2>1, <2>2, <2>3, <2>4
<1>3. /\ {st[s].pc, to} \cap {"run", "opened"} = {}
      /\ to = "recv" => ~Stopping
  BY <1>1 DEF StreamStates, Goto, At, CheckDone, ReceiveOther, SendResult, SendFails,
     RecvFails, MarkFirst, MarkAgain, SetDown, UnsetClient
<1>4. /\ UNCHANGED <<handlers, cb, stop, current, stats, hist>>
      /\ client' \in Streams \cup {NoStream} /\ connected' \in BOOLEAN
  BY DEF WorkerInv, WorkerTypeOK, StreamOnly, taskVars, CheckDone, ReceiveOther,
     SendResult, SendFails, RecvFails, MarkFirst, MarkAgain, SetDown, UnsetClient
<1>5. Moves(s, st[s].pc, to)
  BY <1>2 DEF Moves
<1> HIDE DEF to
<1>6. StopBound' /\ EveryTaskCounted' /\ RecordsOK'
  BY <1>5, <1>3, <1>4, QuietMove
<1>7. OpenedExists' /\ WorkerTypeOK'
  BY <1>5, <1>3, <1>4, MoveKeepsRest
<1> QED
  BY <1>6, <1>7 DEF WorkerInv

\* onConnected opens a stream; later it starts its goroutine or gives it up.
LEMMA OpenSteps ==
    ASSUME WorkerInv,
           (\E s \in Streams : OpenStream(s)) \/ Registered \/ RegistrationFails
    PROVE  WorkerInv'
<1>1. ASSUME NEW s \in Streams, OpenStream(s) PROVE WorkerInv'
  <2>1. Moves(s, "free", "opened")
    BY <1>1, MoveForms DEF OpenStream, StreamPcs
  <2>2. UNCHANGED <<handlers, connected, stop, stats, hist>>
    BY <1>1 DEF OpenStream, taskVars
  <2>3. StopBound' /\ EveryTaskCounted' /\ RecordsOK'
    BY <2>1, <2>2, QuietMove
  <2>4. OpenedExists'
    BY <2>1 DEF OpenedExists, Moves
  <2>5. WorkerTypeOK'
    BY <1>1, <2>1, <2>2 DEF WorkerInv, WorkerTypeOK, OpenStream, Moves, StreamStates
  <2> QED
    BY <2>3, <2>4, <2>5 DEF WorkerInv
<1>2. ASSUME Registered \/ RegistrationFails PROVE WorkerInv'
  <2>1. cb = "up" /\ cb' = "none"
    BY <1>2 DEF Registered, RegistrationFails
  <2>2. Opened \in Streams /\ st[Opened].pc = "opened"
    BY <2>1 DEF WorkerInv, OpenedExists, Opened
  <2>3. PICK to \in {"top", "ended"} : Goto(Opened, to)
    BY <1>2 DEF Registered, RegistrationFails
  <2>4. Moves(Opened, "opened", to)
    BY <2>2, <2>3, MoveForms DEF StreamPcs
  <2>5. /\ UNCHANGED <<handlers, client, stop, current, stats, hist>>
        /\ connected' \in BOOLEAN
    BY <1>2 DEF WorkerInv, WorkerTypeOK, Registered, RegistrationFails, taskVars
  <2>6. StopBound' /\ EveryTaskCounted' /\ RecordsOK'
    BY <2>2, <2>4, <2>5, QuietMove
  <2>7. OpenedExists' /\ WorkerTypeOK'
    BY <2>1, <2>4, <2>5 DEF WorkerInv, WorkerTypeOK, OpenedExists, Moves, StreamStates
  <2> QED
    BY <2>6, <2>7 DEF WorkerInv
<1> QED
  BY <1>1, <1>2

\* A task is received: one stream more executes, one task more was received.
LEMMA ReceiveStep ==
    ASSUME WorkerInv, NEW s \in Streams, NEW t \in TaskTypes, ReceiveTask(s, t)
    PROVE  WorkerInv'
<1>1. Moves(s, "recv", "run")
  <2> DEFINE k == t \in handlers
  <2>1. st[s].pc = "recv" /\ st' = [st EXCEPT ![s].pc = "run", ![s].known = k]
    BY DEF ReceiveTask
  <2>2. k \in BOOLEAN
    OBVIOUS
  <2> HIDE DEF k
  <2> QED
    BY <2>1, <2>2, MoveForms DEF StreamPcs
<1>2. /\ UNCHANGED <<handlers, client, connected, cb, stop, current, stats>>
      /\ hist.got < MaxTasks
  BY DEF ReceiveTask, StreamOnly
<1>3. /\ RecordsOK' /\ hist'.got = hist.got + 1
      /\ \A x \in Streams \ {s} : hist'.late[x] = hist.late[x]
      /\ hist'.late[s] = IF Stopping THEN hist.late[s] + 1 ELSE hist.late[s]
  <2> DEFINE n == IF Stopping THEN hist.late[s] + 1 ELSE hist.late[s]
  <2>1. hist \in [got : Nat, late : [Streams -> Nat]] /\ n \in Nat
    BY DEF WorkerInv, RecordsOK
  <2>2. hist' = [hist EXCEPT !.got = hist.got + 1, !.late[s] = n]
    BY DEF ReceiveTask
  <2> HIDE DEF n
  <2>3. /\ hist'.got = hist.got + 1
        /\ hist'.late = [hist.late EXCEPT ![s] = n]
        /\ hist' = [got |-> hist'.got, late |-> hist'.late]
    BY <2>1, <2>2
  <2>4. hist'.late \in [Streams -> Nat] /\ hist'.late[s] = n
        /\ \A x \in Streams \ {s} : hist'.late[x] = hist.late[x]
    BY <2>1, <2>3
  <2>5. RecordsOK'
    BY <1>2, <2>1, <2>3, <2>4 DEF WorkerInv, RecordsOK
  <2> QED
    BY <2>3, <2>4, <2>5 DEF n
<1>4. hist.late[s] = 0
  BY <1>1 DEF WorkerInv, StopBound, Moves
<1>5. StopBound'
  BY <1>1, <1>2, <1>3, <1>4 DEF WorkerInv, StopBound, Moves, Stopping
<1>6. hist'.late \in [Streams -> 0..MaxTasks]
  BY <1>2, <1>3, <1>4, WorkerAssumption DEF WorkerInv, WorkerTypeOK, RecordsOK
<1>7. WorkerTypeOK'
  BY <1>1, <1>2, <1>3, <1>6, WorkerAssumption
     DEF WorkerInv, WorkerTypeOK, RecordsOK, Moves, StreamStates
<1>8. OpenedExists'
  BY <1>1, <1>2 DEF WorkerInv, OpenedExists, Moves
<1>9. EveryTaskCounted'
  <2>1. Here("run")' = Here("run") \cup {s} /\ s \notin Here("run")
    BY <1>1 DEF Moves, Here
  <2>2. Cardinality(Here("run")') = Cardinality(Here("run")) + 1
    BY <2>1, CountEnters DEF Here
  <2>3. Cardinality(Here("run")) \in Nat
    BY CountIsNat DEF Here
  <2>4. /\ hist.got = stats.processed + Cardinality(Here("run"))
        /\ stats.processed \in Nat /\ hist.got \in Nat
    BY DEF WorkerInv, RecordsOK, EveryTaskCounted, StreamsAt, Here
  <2>5. hist'.got = stats'.processed + Cardinality(Here("run")')
    BY <1>2, <1>3, <2>1, <2>2, <2>3, <2>4
  <2> QED
    BY <2>5 DEF EveryTaskCounted, StreamsAt, Here
<1> QED
  BY <1>3, <1>5, <1>7, <1>8, <1>9 DEF WorkerInv

\* What is counted before a step.
LEMMA Counts ==
    ASSUME WorkerInv
    PROVE  /\ hist.got = stats.processed + Cardinality(Here("run"))
           /\ stats \in [processed : Nat, failed : Nat]
           /\ hist \in [got : Nat, late : [Streams -> Nat]]
           /\ Cardinality(Here("run")) \in Nat
<1>1. Cardinality(Here("run")) \in Nat
  BY CountIsNat DEF Here
<1> QED
  BY <1>1 DEF WorkerInv, RecordsOK, EveryTaskCounted, StreamsAt, Here

\* A handler returns: its stream executes no more, and the task is counted.
LEMMA FinishStep ==
    ASSUME WorkerInv, NEW s \in Streams, NEW ok \in BOOLEAN, FinishTask(s, ok)
    PROVE  WorkerInv'
<1>1. Moves(s, "run", "send")
  BY MoveForms DEF FinishTask, StreamPcs
<1>2. UNCHANGED <<handlers, client, connected, cb, stop, current, hist>>
  BY DEF FinishTask, StreamOnly
<1>3. /\ stats' \in [processed : Nat, failed : Nat]
      /\ stats'.processed = stats.processed + 1
      /\ stats'.failed \in {stats.failed, stats.failed + 1}
  <2>1. stats \in [processed : Nat, failed : Nat]
    BY Counts
  <2>2. PICK f \in {stats.failed, stats.failed + 1} :
           stats' = [stats EXCEPT !.processed = stats.processed + 1, !.failed = f]
    BY <2>1 DEF FinishTask, recordTaskProcessed
  <2>3. f \in Nat
    BY <2>1
  <2>4. /\ stats'.processed = stats.processed + 1 /\ stats'.failed = f
        /\ stats' = [processed |-> stats.processed + 1, failed |-> f]
    BY <2>1, <2>2
  <2>5. stats.processed + 1 \in Nat
    BY <2>1
  <2> QED
    BY <2>2, <2>3, <2>4, <2>5
<1>4. Here("run")' = Here("run") \ {s} /\ s \in Here("run")
  BY <1>1 DEF Moves, Here
<1>5. Cardinality(Here("run")') = Cardinality(Here("run")) - 1
  BY <1>4, CountLeaves DEF Here
<1>6. Cardinality(Here("run")') \in Nat
  BY CountIsNat DEF Here
<1>7. hist'.got = stats'.processed + Cardinality(Here("run")')
  BY <1>2, <1>3, <1>5, Counts
<1>8. EveryTaskCounted'
  BY <1>7 DEF EveryTaskCounted, StreamsAt, Here
<1>9. stats'.processed \in 0..MaxTasks /\ stats'.failed \in 0..stats'.processed
  BY <1>2, <1>3, <1>6, <1>7, Counts, WorkerAssumption DEF WorkerInv, WorkerTypeOK
<1>10. WorkerTypeOK' /\ RecordsOK'
  BY <1>1, <1>2, <1>3, <1>9 DEF WorkerInv, WorkerTypeOK, RecordsOK, Moves, StreamStates
<1>11. OpenedExists' /\ StopBound'
  BY <1>1, <1>2 DEF WorkerInv, OpenedExists, StopBound, Stopping, Moves
<1> QED
  BY <1>8, <1>10, <1>11 DEF WorkerInv

LEMMA WorkerStepInv == WorkerInv /\ [WorkerNext]_allVars => WorkerInv'
  BY IdleSteps, QuietSteps, OpenSteps, ReceiveStep, FinishStep
     DEF WorkerNext, CallbackStep, StreamRuns, StreamReceives, StopRuns

LEMMA WorkerInvariant == WorkerSpec => []WorkerInv
  BY WorkerInitInv, WorkerStepInv, PTL DEF WorkerSpec

\* The worker's variables keep their types; no more tasks fail than are
\* processed, and none is processed that was not received.
THEOREM WorkerTypeCorrect == WorkerSpec => []WorkerTypeOK
<1>1. WorkerInv => WorkerTypeOK
  BY DEF WorkerInv
<1> QED
  BY WorkerInvariant, <1>1, PTL

\* recordTaskProcessed counts each task that processTask executes once, on any
\* number of streams and whatever becomes of its result.
THEOREM StatisticsAreExact == WorkerSpec => []EveryTaskCounted
<1>1. WorkerInv => EveryTaskCounted
  BY DEF WorkerInv
<1> QED
  BY WorkerInvariant, <1>1, PTL

\* Once Stop was called a stream executes at most one task more, although Stop
\* does not wait for it.
THEOREM StopBoundsTasks == WorkerSpec => []AtMostOneTaskAfterStop
<1>1. WorkerInv => AtMostOneTaskAfterStop
  BY DEF WorkerInv, StopBound, AtMostOneTaskAfterStop
<1> QED
  BY WorkerInvariant, <1>1, PTL
-----------------------------------------------------------------------------
(* The worker and the stream manager it owns.                              *)

\* Every step of the worker is a step of the manager or is not seen by it.
LEMMA ManagerSteps == [WorkerNext]_allVars => [StreamNext]_streamVars
<1> SUFFICES ASSUME [WorkerNext]_allVars PROVE [StreamNext]_streamVars
  OBVIOUS
<1>1. CASE ManagerStep \/ NewConnection \/ Registered \/ RegistrationFails \/ OpenFails
           \/ LoopUnsetsClient
  BY <1>1 DEF ManagerStep, NewConnection, Registered, RegistrationFails, OpenFails,
     LoopUnsetsClient, StreamNext, ConnectStep, LoopStep
<1>2. ASSUME NEW s \in Streams, MarkFirst(s) \/ UnsetClient(s) PROVE StreamNext
  BY <1>2 DEF MarkFirst, UnsetClient, StreamNext
<1>3. CASE CloseManager
  BY <1>3 DEF CloseManager, StreamNext
<1>4. \/ UNCHANGED streamVars
      \/ ManagerStep \/ NewConnection \/ Registered \/ RegistrationFails \/ OpenFails
      \/ LoopUnsetsClient \/ CloseManager
      \/ \E s \in Streams : MarkFirst(s) \/ UnsetClient(s)
  BY DEF WorkerNext, RegisterHandler, CallbackStep, OpenStream, SetConnected, LoopSetsDown,
     StreamRuns, StreamReceives, CheckDone, FinishTask, SendResult, SendFails, MarkAgain,
     SetDown, ReceiveTask, ReceiveOther, RecvFails, StreamOnly, CloseDone, StopRuns, Cancel,
     CloseClient, allVars
<1> QED
  BY <1>1, <1>2, <1>3, <1>4

\* The worker uses the stream manager through its methods and callbacks only:
\* whatever streams, handlers and Stop do, the manager sees one of its own
\* behaviours.
THEOREM WorkerRunsManager == WorkerSpec => StreamInit /\ [][StreamNext]_streamVars
<1>1. WorkerInit => StreamInit
  BY DEF WorkerInit
<1> QED
  BY <1>1, ManagerSteps, PTL DEF WorkerSpec

\* So under the worker, with any number of streams, of old connections too, that
\* call MarkDisconnected at any time, the loop replaces no connection that counts
\* as connected, and backoff and retry count stay in their ranges.
THEOREM WorkerManagerIsSafe ==
    WorkerSpec => [](StreamTypeOK /\ ReplacesOnlyDisconnected)
<1>1. StreamInv => ReplacesOnlyDisconnected
  BY DEF StreamInv
<1> QED
  BY <1>1, WorkerRunsManager, StreamInvInit, StreamInvStep, StreamTypeInit,
     StreamTypeStep, PTL

-----------------------------------------------------------------------------
(* The callbacks.                                                          *)

\* While onConnected works on a stream, the goroutine that runs it stays where it
\* called it, the stream is the only one that is opened and not started, and no
\* other connection is stored.  onDisconnected is run by the loop likewise.
CallbackInv ==
    /\ cb \in {"opened", "up"} => caller = "locked" \/ loop = "callback"
    /\ cb = "down" => loop = "notify"
    /\ Here("opened") = IF cb \in {"opened", "up"} THEN {current} ELSE {}

\* A step that leaves the callback alone keeps this if it opens no stream and the
\* goroutine that runs the callback does not move.
LEMMA CallbackFrame ==
    ASSUME CallbackInv, UNCHANGED <<cb, current>>, Here("opened")' = Here("opened"),
           cb # "none" => UNCHANGED <<caller, loop>>
    PROVE  CallbackInv'
  BY DEF CallbackInv

\* A goroutine of a stream moves itself only, and not to or from the state the
\* callback has opened it in.
LEMMA StreamMoves ==
    ASSUME WorkerInv, NEW s \in Streams, StreamRuns(s) \/ StreamReceives(s)
    PROVE  \E pc \in StreamPcs \ {"opened"} : Moves(s, st[s].pc, pc) /\ st[s].pc # "opened"
<1>1. st \in StreamStates /\ st[s].then \in {"top", "ended"}
  BY DEF WorkerInv, WorkerTypeOK, StreamStates
<1>2. CASE CheckDone(s) \/ ReceiveOther(s) \/ MarkAgain(s) \/ UnsetClient(s) \/ SendResult(s)
           \/ \E ok \in BOOLEAN : FinishTask(s, ok)
  <2>1. PICK pc \in {"top", "recv", "send", "ended"} : Goto(s, pc)
    BY <1>1, <1>2 DEF CheckDone, ReceiveOther, MarkAgain, UnsetClient, SendResult, FinishTask
  <2>2. Moves(s, st[s].pc, pc)
    BY <2>1, MoveForms DEF StreamPcs
  <2> QED
    BY <1>2, <2>2 DEF StreamPcs, CheckDone, ReceiveOther, MarkAgain, UnsetClient, SendResult,
       FinishTask
<1>3. CASE RecvFails(s) \/ SendFails(s)
  <2>1. Moves(s, st[s].pc, "mark")
    BY <1>3, MoveForms DEF RecvFails, SendFails, StreamPcs
  <2> QED
    BY <1>3, <2>1 DEF RecvFails, SendFails, StreamPcs
<1>4. CASE MarkFirst(s)
  <2>1. Moves(s, st[s].pc, "down")
    BY <1>4, MoveForms DEF MarkFirst, StreamPcs
  <2> QED
    BY <1>4, <2>1 DEF MarkFirst, StreamPcs
<1>5. CASE SetDown(s)
  <2>1. Moves(s, st[s].pc, "unset")
    BY <1>5, MoveForms DEF SetDown, StreamPcs
  <2> QED
    BY <1>5, <2>1 DEF SetDown, StreamPcs
<1>6. ASSUME NEW t \in TaskTypes, ReceiveTask(s, t)
      PROVE  Moves(s, st[s].pc, "run") /\ st[s].pc # "opened"
  <2> DEFINE k == t \in handlers
  <2>1. st[s].pc = "recv" /\ st' = [st EXCEPT ![s].pc = "run", ![s].known = k]
    BY <1>6 DEF ReceiveTask
  <2>2. k \in BOOLEAN
    OBVIOUS
  <2> HIDE DEF k
  <2> QED
    BY <2>1, <2>2, MoveForms DEF StreamPcs
<1> QED
  BY <1>2, <1>3, <1>4, <1>5, <1>6 DEF StreamRuns, StreamReceives, StreamPcs

LEMMA CallbackStepInv ==
    ASSUME WorkerInv, StreamInv, CallbackInv, [WorkerNext]_allVars
    PROVE  CallbackInv'
<1> USE DEF taskVars, workerVars, allVars
<1>1. CASE ManagerStep \/ NewConnection
  <2>1. /\ UNCHANGED <<cb, st>>
        /\ \/ caller \in {"idle", "calling"}
           \/ loop \in {"wait", "attempt", "sleep", "dial", "install", "mark"}
    BY <1>1 DEF ManagerStep, NewConnection, CallConnect, ConnectDialFails, ConnectDials,
       LoopTick, LoopExit, GiveUpAttempt, BeginAttempt, SleepEnds, SleepCancelled,
       DialFails, DialSucceeds, Reinstall, LoopMarks
  <2>2. cb \in {"opened", "up"} \/ cb = "down" => FALSE
    BY <2>1 DEF CallbackInv, StreamInv
  <2>3. Here("opened")' = Here("opened")
    BY <2>1 DEF Here
  <2> QED
    BY <2>1, <2>2, <2>3 DEF CallbackInv
<1>2. ASSUME NEW s \in Streams, OpenStream(s) PROVE CallbackInv'
  <2>1. Moves(s, "free", "opened")
    BY <1>2, MoveForms DEF OpenStream, StreamPcs
  <2>2. /\ cb = "none" /\ cb' = "opened" /\ current' = s
        /\ UNCHANGED streamVars
        /\ caller = "locked" \/ loop = "callback"
    BY <1>2 DEF OpenStream
  <2>3. Here("opened") = {}
    BY <2>2 DEF CallbackInv
  <2>4. Here("opened")' = {s}
    BY <2>1, <2>3 DEF Moves, Here
  <2> QED
    BY <2>2, <2>4 DEF CallbackInv, streamVars
<1>3. CASE SetConnected
  <2>1. /\ cb = "opened" /\ cb' = "up" /\ UNCHANGED <<st, current, caller, loop>>
    BY <1>3 DEF SetConnected, streamVars
  <2>2. Here("opened")' = Here("opened")
    BY <2>1 DEF Here
  <2> QED
    BY <2>1, <2>2 DEF CallbackInv
<1>4. CASE Registered \/ RegistrationFails
  <2>1. cb = "up" /\ cb' = "none" /\ current' = current
    BY <1>4 DEF Registered, RegistrationFails
  <2>2. Opened \in Streams /\ st[Opened].pc = "opened"
    BY <2>1 DEF WorkerInv, OpenedExists, Opened
  <2>3. PICK to \in {"top", "ended"} : Goto(Opened, to)
    BY <1>4 DEF Registered, RegistrationFails
  <2>4. Moves(Opened, "opened", to)
    BY <2>2, <2>3, MoveForms DEF StreamPcs
  <2>5. Here("opened") = {current}
    BY <2>1 DEF CallbackInv
  <2>6. Here("opened")' = {}
    BY <2>2, <2>4, <2>5 DEF Moves, Here
  <2> QED
    BY <2>1, <2>6 DEF CallbackInv
<1>5. CASE OpenFails
  <2>1. cb = "none" /\ UNCHANGED <<cb, st, current>>
    BY <1>5 DEF OpenFails
  <2>2. Here("opened")' = Here("opened")
    BY <2>1 DEF Here
  <2> QED
    BY <2>1, <2>2, CallbackFrame
<1>6. CASE LoopSetsDown \/ LoopUnsetsClient
  <2>1. /\ UNCHANGED <<st, current>>
        /\ \/ cb = "none" /\ cb' = "down" /\ loop' = "notify"
           \/ cb = "down" /\ cb' = "none"
    BY <1>6 DEF LoopSetsDown, LoopUnsetsClient, streamVars
  <2>2. Here("opened")' = Here("opened")
    BY <2>1 DEF Here
  <2> QED
    BY <2>1, <2>2 DEF CallbackInv
<1>7. ASSUME NEW s \in Streams, StreamRuns(s) \/ StreamReceives(s) PROVE CallbackInv'
  <2>1. UNCHANGED <<cb, current, caller, loop>>
    BY <1>7 DEF StreamRuns, StreamReceives, CheckDone, FinishTask, SendResult, SendFails,
       MarkFirst, MarkDisconnected, MarkAgain, SetDown, UnsetClient, NotifyDisconnected,
       ReceiveTask, ReceiveOther, RecvFails, StreamOnly, streamVars
  <2>2. \E pc \in StreamPcs \ {"opened"} : Moves(s, st[s].pc, pc) /\ st[s].pc # "opened"
    BY <1>7, StreamMoves
  <2>3. Here("opened")' = Here("opened")
    BY <2>2 DEF Moves, Here
  <2> QED
    BY <2>1, <2>3, CallbackFrame
<1>8. CASE (\E t \in TaskTypes : RegisterHandler(t)) \/ CloseDone \/ StopRuns \/ UNCHANGED allVars
  <2>1. UNCHANGED <<cb, st, current, caller, loop>>
    BY <1>8 DEF RegisterHandler, CloseDone, StopRuns, Cancel, CloseManager, CloseClient, StopAt,
       Close, streamVars
  <2>2. Here("opened")' = Here("opened")
    BY <2>1 DEF Here
  <2> QED
    BY <2>1, <2>2, CallbackFrame
<1> QED
  BY <1>1, <1>2, <1>3, <1>4, <1>5, <1>6, <1>7, <1>8 DEF WorkerNext, CallbackStep

\* The goroutine onConnected starts receives on the stream that was opened on the
\* connection in sm.conn, and no other stream waits to be started.
StartsOwnStream ==
    cb \in {"opened", "up"} => Here("opened") = {current} /\ Opened = current

\* onConnected opens a stream and starts its goroutine in different steps, with
\* streams of older connections, onDisconnected and Stop in between: it always
\* starts the stream it has opened, whatever happened meanwhile.
THEOREM CallbackStartsItsStream == WorkerSpec => []StartsOwnStream
<1>1. WorkerInit => CallbackInv
  <2> SUFFICES ASSUME WorkerInit PROVE CallbackInv
    OBVIOUS
  <2>1. cb = "none" /\ \A s \in Streams : st[s].pc = "free"
    BY DEF WorkerInit, At
  <2> QED
    BY <2>1 DEF CallbackInv, Here
<1>2. WorkerInv /\ StreamInv /\ CallbackInv /\ [WorkerNext]_allVars => CallbackInv'
  BY CallbackStepInv
<1>3. CallbackInv => StartsOwnStream
  <2> SUFFICES ASSUME CallbackInv, cb \in {"opened", "up"}
               PROVE  Here("opened") = {current} /\ Opened = current
    BY DEF StartsOwnStream
  <2>1. Here("opened") = {current}
    BY DEF CallbackInv
  <2>2. \A s \in Streams : st[s].pc = "opened" <=> s = current
    BY <2>1 DEF Here
  <2>3. current \in Streams
    BY <2>1 DEF Here
  <2>4. Opened \in Streams /\ st[Opened].pc = "opened"
    BY <2>2, <2>3 DEF Opened
  <2> QED
    BY <2>1, <2>2, <2>4
<1> QED
  BY <1>1, <1>2, <1>3, WorkerInvariant, WorkerRunsManager, StreamInvInit, StreamInvStep, PTL
     DEF WorkerSpec

\* The manager owes its onDisconnected callback to the streams that are running it.
NotifiesCallers == dropping = {s \in Streams : st[s].pc \in {"down", "unset"}}

LEMMA NotifiesStep ==
    ASSUME WorkerInv, NotifiesCallers, [WorkerNext]_allVars
    PROVE  NotifiesCallers'
<1> USE DEF taskVars, workerVars, allVars
<1>1. ASSUME UNCHANGED dropping, NEW s \in Streams, NEW to \in StreamPcs,
             Moves(s, st[s].pc, to),
             st[s].pc \in {"down", "unset"} <=> to \in {"down", "unset"}
      PROVE  NotifiesCallers'
  BY <1>1 DEF NotifiesCallers, Moves
<1>2. CASE UNCHANGED <<dropping, st>>
  BY <1>2 DEF NotifiesCallers
<1>3. ASSUME NEW s \in Streams, StreamRuns(s) \/ StreamReceives(s) PROVE NotifiesCallers'
  <2>1. PICK pc \in StreamPcs \ {"opened"} : Moves(s, st[s].pc, pc)
    BY <1>3, StreamMoves
  <2>2. st \in StreamStates /\ st[s].then \in {"top", "ended"}
    BY DEF WorkerInv, WorkerTypeOK, StreamStates
  <2>3. CASE MarkFirst(s)
    <3>1. dropping' = dropping \cup {s} /\ st'[s].pc = "down"
      BY <2>2, <2>3 DEF MarkFirst, MarkDisconnected, StreamStates
    <3> QED
      BY <2>1, <3>1 DEF NotifiesCallers, Moves
  <2>4. CASE UnsetClient(s)
    <3>1. dropping' = dropping \ {s} /\ st'[s].pc \in {"top", "ended"}
      BY <2>2, <2>4 DEF UnsetClient, NotifyDisconnected, Goto, At, StreamStates
    <3> QED
      BY <2>1, <3>1 DEF NotifiesCallers, Moves
  <2>5. CASE ~MarkFirst(s) /\ ~UnsetClient(s)
    <3>1. UNCHANGED dropping
      BY <1>3, <2>5 DEF StreamRuns, StreamReceives, CheckDone, FinishTask, SendResult,
         SendFails, MarkAgain, SetDown, ReceiveTask, ReceiveOther, RecvFails, StreamOnly,
         streamVars
    <3>2. st[s].pc \in {"down", "unset"} <=> st'[s].pc \in {"down", "unset"}
      BY <1>3, <2>2, <2>5 DEF StreamRuns, StreamReceives, CheckDone, FinishTask, SendResult,
         SendFails, MarkAgain, SetDown, ReceiveTask, ReceiveOther, RecvFails, Goto, At,
         StreamStates
    <3> QED
      BY <2>1, <3>1, <3>2 DEF NotifiesCallers, Moves
  <2> QED
    BY <2>3, <2>4, <2>5
<1>4. ASSUME NEW s \in Streams, OpenStream(s) PROVE NotifiesCallers'
  <2>1. Moves(s, "free", "opened") /\ UNCHANGED dropping
    BY <1>4, MoveForms DEF OpenStream, StreamPcs, streamVars
  <2> QED
    BY <2>1 DEF NotifiesCallers, Moves
<1>5. CASE Registered \/ RegistrationFails
  <2>1. Opened \in Streams /\ st[Opened].pc = "opened"
    BY <1>5 DEF Registered, RegistrationFails, WorkerInv, OpenedExists, Opened
  <2>2. PICK to \in {"top", "ended"} : Goto(Opened, to)
    BY <1>5 DEF Registered, RegistrationFails
  <2>3. Moves(Opened, "opened", to)
    BY <2>1, <2>2, MoveForms DEF StreamPcs
  <2>4. UNCHANGED dropping
    BY <1>5 DEF Registered, RegistrationFails, ConnectReturns, ReconnectReturns,
       ConnectCallbackFails, ReconnectCallbackFails
  <2> QED
    BY <2>1, <2>3, <2>4 DEF NotifiesCallers, Moves
<1>6. CASE ManagerStep \/ NewConnection \/ OpenFails
  BY <1>2, <1>6 DEF ManagerStep, NewConnection, OpenFails, CallConnect, ConnectDialFails,
     ConnectDials, ConnectCallbackFails, ReconnectCallbackFails, LoopTick, LoopExit,
     GiveUpAttempt, BeginAttempt, SleepEnds, SleepCancelled, DialFails, DialSucceeds,
     Reinstall, LoopMarks
<1>7. CASE \/ SetConnected \/ LoopSetsDown \/ LoopUnsetsClient
           \/ \E t \in TaskTypes : RegisterHandler(t)
           \/ CloseDone \/ StopRuns \/ UNCHANGED allVars
  BY <1>2, <1>7 DEF SetConnected, LoopSetsDown, LoopUnsetsClient, LoopNotifies,
     RegisterHandler, CloseDone, StopRuns, Cancel, CloseManager, CloseClient, StopAt, Close,
     streamVars
<1> QED
  BY <1>3, <1>4, <1>5, <1>6, <1>7 DEF WorkerNext, CallbackStep

\* markDisconnected notes under sm.mu that it must call onDisconnected, and calls
\* it after the unlock.  The streams it owes a call are those whose goroutine is
\* between the two: none is called for twice and none is forgotten, so a stream
\* that fails again later finds the manager ready for it.
THEOREM DisconnectsAreNotified == WorkerSpec => []NotifiesCallers
<1>1. WorkerInit => NotifiesCallers
  BY DEF WorkerInit, StreamInit, NotifiesCallers, At
<1>2. WorkerInv /\ NotifiesCallers /\ [WorkerNext]_allVars => NotifiesCallers'
  BY NotifiesStep
<1> QED
  BY <1>1, <1>2, WorkerInvariant, PTL DEF WorkerSpec

-----------------------------------------------------------------------------
(* The worker with the callback it passes to Connect.                      *)

\* No stream was opened, the worker does not count as connected, and no task was
\* received.
NeverServes ==
    /\ \A s \in Streams : st[s].pc = "free"
    /\ cb = "none" /\ ~connected /\ client = NoStream
    /\ hist.got = 0

\* onConnected begins with GetConnection, which waits for the lock Connect holds:
\* as the code is, no worker ever opens a stream or executes a task, in any
\* configuration and with any orchestrator.
THEOREM WorkerNeverServes ==
    ASSUME CallbackReadsConnection PROVE WorkerSpec => []NeverServes
<1>1. WorkerInit => NeverServes /\ NotConnected
  BY DEF WorkerInit, StreamInit, NeverServes, NotConnected, At
<1>2. NotConnected /\ [StreamNext]_streamVars => NotConnected'
  BY NotConnectedStep
<1>3. NotConnected /\ NeverServes /\ [WorkerNext]_allVars => NeverServes'
  <2> SUFFICES ASSUME NotConnected, NeverServes, [WorkerNext]_allVars PROVE NeverServes'
    OBVIOUS
  <2>1. \A s \in Streams : ~OpenStream(s) /\ ~StreamRuns(s) /\ ~StreamReceives(s)
    BY DEF NotConnected, NeverServes, OpenStream, CanRunCallback, MuFree, StreamRuns,
       StreamReceives, CheckDone, FinishTask, SendResult, SendFails, MarkFirst, MarkAgain,
       SetDown, UnsetClient, ReceiveTask, ReceiveOther, RecvFails
  <2>2. ~SetConnected /\ ~Registered /\ ~RegistrationFails /\ ~LoopSetsDown /\ ~LoopUnsetsClient
    BY DEF NotConnected, NeverServes, SetConnected, Registered, RegistrationFails,
       LoopSetsDown, LoopUnsetsClient
  <2> QED
    BY <2>1, <2>2 DEF WorkerNext, CallbackStep, RegisterHandler, ManagerStep, NewConnection,
       OpenFails, CloseDone, StopRuns, Cancel, CloseManager, CloseClient, StopAt, taskVars,
       workerVars, allVars, NeverServes
<1> QED
  BY <1>1, <1>2, <1>3, WorkerRunsManager, PTL DEF WorkerSpec

-----------------------------------------------------------------------------
(* How far Stop lets the streams go on.                                    *)

\* How far a stream's goroutine is from its end once done is closed.
StreamRank(pc) ==
    CASE pc = "ended"  -> 0
      [] pc = "top"    -> 1
      [] pc = "unset"  -> 2
      [] pc = "down"   -> 3
      [] pc = "mark"   -> 4
      [] pc = "send"   -> 5
      [] pc = "run"    -> 6
      [] pc = "recv"   -> 7
      [] pc = "opened" -> 8
      [] OTHER         -> 9

\* After Stop has closed done, every step of a stream brings it closer to its
\* end.
StoppedStreamsAdvance ==
    [][Stopping => \A s \in Streams :
         st'[s] # st[s] => StreamRank(st'[s].pc) < StreamRank(st[s].pc)]_allVars

\* The part of StreamsEndAfterStop that needs no fairness, for any number of
\* streams and tasks: Stop does not wait for the streams, and each of them, also
\* one that is opened during Stop, takes at most nine more steps, whether it
\* receives, executes, sends or disconnects.
THEOREM StoppedStreamsAreBounded == WorkerSpec => StoppedStreamsAdvance
<1> DEFINE Advances == \A s \in Streams :
             st'[s] # st[s] => StreamRank(st'[s].pc) < StreamRank(st[s].pc)
<1>1. ASSUME WorkerInv, [WorkerNext]_allVars, Stopping PROVE Advances
  <2> USE DEF taskVars, workerVars, allVars
  <2>1. CASE UNCHANGED st
    BY <2>1
  <2>2. ASSUME NEW s \in Streams, NEW from, NEW to, Moves(s, from, to),
               StreamRank(to) < StreamRank(from)
        PROVE  Advances
    BY <2>2 DEF Moves
  <2>3. ASSUME NEW s \in Streams, OpenStream(s) PROVE Advances
    <3>1. Moves(s, "free", "opened")
      BY <1>1, <2>3, MoveForms DEF OpenStream, StreamPcs
    <3>2. StreamRank("opened") < StreamRank("free")
      BY DEF StreamRank
    <3> QED
      BY <2>2, <3>1, <3>2
  <2>4. CASE Registered \/ RegistrationFails
    <3>1. Opened \in Streams /\ st[Opened].pc = "opened"
      BY <1>1, <2>4 DEF Registered, RegistrationFails, WorkerInv, OpenedExists, Opened
    <3>2. PICK to \in {"top", "ended"} : Goto(Opened, to)
      BY <2>4 DEF Registered, RegistrationFails
    <3>3. Moves(Opened, "opened", to)
      BY <1>1, <3>1, <3>2, MoveForms DEF StreamPcs
    <3>4. StreamRank(to) < StreamRank("opened")
      BY <3>2 DEF StreamRank
    <3> QED
      BY <2>2, <3>1, <3>3, <3>4
  <2>5. ASSUME NEW s \in Streams, StreamRuns(s) \/ StreamReceives(s) PROVE Advances
    <3>1. PICK pc \in StreamPcs \ {"opened"} : Moves(s, st[s].pc, pc)
      BY <1>1, <2>5, StreamMoves
    <3>2. st \in StreamStates /\ st[s].then \in {"top", "ended"}
      BY <1>1 DEF WorkerInv, WorkerTypeOK, StreamStates
    <3>3. \/ st[s].pc = "top" /\ st'[s].pc = "ended"
          \/ st[s].pc = "recv" /\ st'[s].pc \in {"run", "top", "mark"}
          \/ st[s].pc = "run" /\ st'[s].pc = "send"
          \/ st[s].pc = "send" /\ st'[s].pc \in {"top", "mark"}
          \/ st[s].pc = "mark" /\ st'[s].pc \in {"down", "top", "ended"}
          \/ st[s].pc = "down" /\ st'[s].pc = "unset"
          \/ st[s].pc = "unset" /\ st'[s].pc \in {"top", "ended"}
      BY <1>1, <2>5, <3>2 DEF StreamRuns, StreamReceives, CheckDone, FinishTask, SendResult,
         SendFails, MarkFirst, MarkAgain, SetDown, UnsetClient, ReceiveTask, ReceiveOther,
         RecvFails, Goto, At, StreamStates
    <3>4. StreamRank(st'[s].pc) < StreamRank(st[s].pc)
      BY <3>3 DEF StreamRank
    <3>5. st'[s].pc = pc
      BY <3>1 DEF Moves
    <3> QED
      BY <2>2, <3>1, <3>4, <3>5
  <2>6. \/ UNCHANGED st
        \/ \E s \in Streams : OpenStream(s)
        \/ Registered \/ RegistrationFails
        \/ \E s \in Streams : StreamRuns(s) \/ StreamReceives(s)
    BY <1>1 DEF WorkerNext, CallbackStep, RegisterHandler, ManagerStep, NewConnection,
       SetConnected, OpenFails, LoopSetsDown, LoopUnsetsClient, CloseDone, StopRuns, Cancel,
       CloseManager, CloseClient, StopAt
  <2> QED
    BY <2>1, <2>3, <2>4, <2>5, <2>6
<1>2. WorkerInv /\ [WorkerNext]_allVars => [Stopping => Advances]_allVars
  BY <1>1
<1> QED
  BY <1>2, WorkerInvariant, PTL DEF WorkerSpec, StoppedStreamsAdvance
=============================================================================
