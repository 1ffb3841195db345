----------------------------- MODULE EngineReads -----------------------------
(***************************************************************************)
(* The query methods of the engine, running beside the calls that change   *)
(* tasks.  A query collects pointers to tasks under a read lock on e.mu    *)
(* and copies the tasks one after the other with Task.Copy, without the    *)
(* lock: the copy races with the call that changes the task.               *)
(*                                                                         *)
(* Task.Copy copies the whole structure first, in no particular order, and *)
(* then reads the slices again.  Of its fields the properties tell apart   *)
(* two.  The state is a Go string: its bytes and its length are read       *)
(* separately.  The result is a slice, whose words are read separately     *)
(* too; after the structure it is read a second time, and this read        *)
(* replaces the first unless it finds nil.  The second read is one step,   *)
(* which is exact where its value is told: a task whose copied state is    *)
(* terminal changes no more.  Reads and writes of one goroutine take       *)
(* effect in program order, as on amd64.                                   *)
(*                                                                         *)
(* A pointer stays the entry of the map as long as no id is given twice    *)
(* (ClockMayRepeat is FALSE).                                              *)
(***************************************************************************)
EXTENDS Engine

CONSTANTS Readers,     \* goroutines that query the engine
          AnyState,    \* the query does not select by state
          Torn,        \* a string or a slice made of words of two
          Unread       \* the structure's result is not copied yet

ASSUME ReadsAssumption ==
    /\ {AnyState, Torn, Nil} \cap AllStates = {}
    /\ {Torn, Unread} \cap (Results \cup {Nil}) = {}
    /\ Torn # Unread

VARIABLE rd            \* per reader: its query and the copy it is making

readVars == <<vars, rd>>

\* The length of each state's text.
StateLen == [s \in AllStates |->
               CASE s = Pending    -> 7
                 [] s = Dispatched -> 10
                 [] s = Failed     -> 6
                 [] OTHER          -> 9]

NoReader == [pc |-> "idle", want |-> AnyState, locked |-> FALSE, refs |-> {},
             id |-> Nil, bytes |-> Nil, len |-> 0, result |-> Unread]

ReadsTypeOK ==
    rd \in [Readers ->
              [ pc     : {"idle", "next", "struct", "have"},
                want   : AllStates \cup {AnyState},
                locked : BOOLEAN,
                refs   : SUBSET TaskIDs,
                id     : TaskIDs \cup {Nil},
                bytes  : AllStates \cup {Nil},
                len    : {0, 6, 7, 9, 10},
                result : Results \cup {Nil, Torn, Unread} ]]

ReadsInit == Init /\ rd = [r \in Readers |-> NoReader]

-----------------------------------------------------------------------------

\* The part of a query that holds the read lock: collect the tasks to copy.
\* locked says that the lock is taken again before each copy.
Collect(r, want, locked, refs) ==
    /\ rd[r].pc = "idle"
    /\ phase = "idle"
    /\ refs # {}
    /\ rd' = [rd EXCEPT ![r] = [NoReader EXCEPT !.pc = "next", !.want = want,
                                                !.locked = locked, !.refs = refs]]
    /\ UNCHANGED vars

GetTask(r, id) ==
    /\ Exists(tasks[id])
    /\ Collect(r, AnyState, FALSE, {id})

GetTasksByState(r, state) ==
    Collect(r, state, FALSE, {id \in TaskIDs : tasks[id].state = state})

GetTasksForPartition(r, p) ==
    Collect(r, AnyState, FALSE,
            {id \in TaskIDs : Exists(tasks[id]) /\ tasks[id].partition = p})

\* GetWorkflowTasks copies the ids and looks each task up when it gets to it.
GetWorkflowTasks(r, wf) ==
    Collect(r, AnyState, TRUE,
            {workflowTasks[wf][k] : k \in DOMAIN workflowTasks[wf]})

-----------------------------------------------------------------------------
(* Task.Copy, of one of the tasks collected.                               *)

StartCopy(r) ==
    \E id \in rd[r].refs :
      /\ rd[r].pc \in {"next", "have"}
      /\ rd[r].locked => phase = "idle"
      /\ rd' = [rd EXCEPT ![r] = [NoReader EXCEPT !.pc = "struct",
                                    !.want = rd[r].want, !.locked = rd[r].locked,
                                    !.refs = rd[r].refs \ {id}, !.id = id]]
      /\ UNCHANGED vars

CopyStateBytes(r) ==
    /\ rd[r].pc = "struct"
    /\ rd[r].bytes = Nil
    /\ rd' = [rd EXCEPT ![r].bytes = tasks[rd[r].id].state]
    /\ UNCHANGED vars

CopyStateLen(r) ==
    /\ rd[r].pc = "struct"
    /\ rd[r].len = 0
    /\ rd' = [rd EXCEPT ![r].len = StateLen[tasks[rd[r].id].state]]
    /\ UNCHANGED vars

CopyStructResult(r) ==
    /\ rd[r].pc = "struct"
    /\ rd[r].result = Unread
    /\ rd' = [rd EXCEPT ![r].result = tasks[rd[r].id].result]
    /\ UNCHANGED vars

\* Another word of the slice is read after the result was replaced.
TearStructResult(r) ==
    /\ rd[r].pc = "struct"
    /\ rd[r].result \notin {Unread, Torn, tasks[rd[r].id].result}
    /\ rd' = [rd EXCEPT ![r].result = Torn]
    /\ UNCHANGED vars

StructCopied(r) == rd[r].bytes # Nil /\ rd[r].len # 0 /\ rd[r].result # Unread

MutantKeepStructResult(r) ==
    /\ rd[r].pc = "struct"
    /\ StructCopied(r)
    /\ rd' = [rd EXCEPT ![r].pc = "have"]
    /\ UNCHANGED vars

MutantCopyPayload(r) ==
    /\ rd[r].pc = "struct"
    /\ StructCopied(r)
    /\ rd' = [rd EXCEPT ![r].pc = "have",
                        ![r].result = tasks[rd[r].id].payload]
    /\ UNCHANGED vars

\* The second read: a result that is nil leaves the first one in the copy.
CopyResult(r) ==
    /\ rd[r].pc = "struct"
    /\ StructCopied(r)
    /\ LET result == tasks[rd[r].id].result IN
       rd' = [rd EXCEPT ![r].pc = "have",
                        ![r].result = IF result # Nil THEN result ELSE @]
    /\ UNCHANGED vars

Return(r) ==
    /\ rd[r].pc = "have"
    /\ rd[r].refs = {}
    /\ rd' = [rd EXCEPT ![r] = NoReader]
    /\ UNCHANGED vars

-----------------------------------------------------------------------------

\* The state a copy shows: the bytes of one read with the length of another.
SnapState(r) ==
    IF StateLen[rd[r].bytes] = rd[r].len THEN rd[r].bytes ELSE Torn

HasCopy(r) == rd[r].pc = "have"

\* A client that polls until a task is COMPLETED gets its output with it, and
\* the one that is final: CompleteTask stores the result before the state, and
\* Copy reads it after.  This holds although the copy is made without a lock
\* and although an earlier completion may have failed after storing another
\* result.  A task that completed without an output is left out: its copy can
\* keep what such a completion left in the structure.
CompletedCopyHasResult ==
    \A r \in Readers :
      HasCopy(r) /\ SnapState(r) = Completed =>
        tasks[rd[r].id].result \in {Nil, rd[r].result}

\* A copy that shows a terminal state is never stale: the task has that state
\* now.  A client may stop polling.
TerminalCopyIsFinal ==
    \A r \in Readers :
      HasCopy(r) /\ IsTerminal(SnapState(r)) =>
        tasks[rd[r].id].state = SnapState(r)

\* "GetTasksByState returns all tasks in a specific state": asked for a terminal
\* state, every copy it returns is in it, although the copies are made after the
\* lock was released.  (For the other states the code does not guarantee it.)
TerminalQueryIsExact ==
    \A r \in Readers :
      HasCopy(r) /\ IsTerminal(rd[r].want) => SnapState(r) = rd[r].want

\* A query never looks up a task that is not in the map: GetWorkflowTasks calls
\* Copy on what it finds without testing it.
NoMissingTaskCopied ==
    \A r \in Readers : \A id \in rd[r].refs   : Exists(tasks[id])
=============================================================================
