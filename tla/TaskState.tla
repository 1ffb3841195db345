----------------------------- MODULE TaskState -----------------------------
(***************************************************************************)
(* The task state machine of internal/task: the six states, the table of  *)
(* allowed transitions, and the methods of the Task structure.  Everything *)
(* here is constant level; the modules that keep tasks in variables extend *)
(* it.                                                                     *)
(*                                                                         *)
(* Payloads, results and error texts are opaque values.  Nil is the nil    *)
(* slice, the empty error string: Results may hold it, for workers whose   *)
(* handler returns no output.  The pointers DispatchedAt and           *)
(* CompletedAt are kept as "is set"; the other timestamps and the name of  *)
(* a task are read by no code and are left out.                            *)
(***************************************************************************)
EXTENDS Integers

CONSTANTS Payloads,   \* the inputs a task can be created with
          Results,    \* the outputs a worker can report
          Errors,     \* the error texts a worker can report
          Nil         \* no result, no error

Pending    == "PENDING"
Scheduled  == "SCHEDULED"
Dispatched == "DISPATCHED"
Completed  == "COMPLETED"
Failed     == "FAILED"
Cancelled  == "CANCELLED"

AllStates == {Pending, Scheduled, Dispatched, Completed, Failed, Cancelled}

\* The table of CanTransition, as a relation.
Transitions ==
    ({Pending}    \X {Scheduled, Cancelled})
      \cup ({Scheduled}  \X {Dispatched, Cancelled})
      \cup ({Dispatched} \X {Completed, Failed, Pending})

MutantTerminalRetry(from, to) ==
    <<from, to>> \in Transitions \cup {<<Failed, Pending>>}

\* CanTransition(from, to) == nil.  A state outside AllStates is in no pair.
CanTransition(from, to) == <<from, to>> \in Transitions

IsTerminal(s) == s \in {Completed, Failed, Cancelled}

-----------------------------------------------------------------------------

Data == Payloads \cup Results \cup Errors

Task == [ state      : AllStates,
          payload    : Payloads,
          result     : Results \cup {Nil},
          error      : Errors \cup {Nil},
          partition  : Nat,
          attempts   : Nat,
          dispatched : BOOLEAN,
          completed  : BOOLEAN ]

\* NewTask, with the partition CreateTask assigns right after.
NewTask(payload, partition) ==
    [ state      |-> Pending,
      payload    |-> payload,
      result     |-> Nil,
      error      |-> Nil,
      partition  |-> partition,
      attempts   |-> 0,
      dispatched |-> FALSE,
      completed  |-> FALSE ]

\* The two halves of TransitionTo: the state is assigned first, the fields
\* that go with the new state after it.  Code that reads a task without the
\* engine's lock can see the state between them.
SetState(t, to) == [t EXCEPT !.state = to]

StampFields(t, to) ==
    [t EXCEPT !.attempts   = IF to = Dispatched THEN @ + 1 ELSE @,
              !.dispatched = @ \/ to = Dispatched,
              !.completed  = @ \/ to = Completed]

\* A key that is absent from the engine's map of tasks.
Absent == "ABSENT"

NoTask == SetState(NewTask(Nil, 0), Absent)

Exists(t) == t.state # Absent
=============================================================================
