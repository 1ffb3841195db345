--------------------------- MODULE TaskLifecycle ---------------------------
(***************************************************************************)
(* What the engine promises about one task, however it is stored, locked   *)
(* and logged: a task appears once, moves along the transition table only, *)
(* and the outcome it ends with never changes.  Outcome is what a client   *)
(* is told: the result of a completed task, the error of a failed one.     *)
(***************************************************************************)
EXTENDS TaskState

CONSTANT TaskIDs

VARIABLES status,    \* the state of each task, Absent before it is created
          outcome    \* what a completed or failed task ended with

lifecycleVars == <<status, outcome>>

LifecycleInit ==
    /\ status = [id \in TaskIDs |-> Absent]
    /\ outcome = [id \in TaskIDs |-> Nil]

Appear(id) ==
    /\ status[id] = Absent
    /\ status' = [status EXCEPT ![id] = Pending]
    /\ UNCHANGED outcome

\* A move that leaves the task without an outcome.
Move(id, to) ==
    /\ CanTransition(status[id], to)
    /\ to \notin {Completed, Failed}
    /\ status' = [status EXCEPT ![id] = to]
    /\ UNCHANGED outcome

\* The task ends with an outcome.  It may be Nil: a caller of TransitionTask
\* can name COMPLETED or FAILED without a result or an error.
End(id, to, data) ==
    /\ CanTransition(status[id], to)
    /\ to \in {Completed, Failed}
    /\ status' = [status EXCEPT ![id] = to]
    /\ outcome' = [outcome EXCEPT ![id] = data]

LifecycleNext ==
    \E id \in TaskIDs :
      \/ Appear(id)
      \/ \E to \in AllStates : Move(id, to)
      \/ \E to \in {Completed, Failed} : \E data \in Data \cup {Nil} : End(id, to, data)

LifecycleSpec == LifecycleInit /\ [][LifecycleNext]_lifecycleVars
=============================================================================
