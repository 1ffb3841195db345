------------------------ MODULE StreamManagerProofs ------------------------
(***************************************************************************)
(* For every configuration and any number of streams: the variables keep   *)
(* their types, the backoff stays between its initial value and its cap,   *)
(* and the reconnection loop never replaces a connection that counts as    *)
(* connected.  For the last, besides the loop only Connect sets            *)
(* isConnected, so the invariant adds that a loop exists only once Connect *)
(* has returned for good.                                                  *)
(*                                                                         *)
(* Two results bound what the runs stream_start and stream_close find: a   *)
(* callback that reads the connection always stops the manager, and the    *)
(* loop leaves at most one connection behind Close.                        *)
(***************************************************************************)
EXTENDS StreamManager, TLAPS

StreamInv ==
    /\ loop # "off" => caller = "returned"
    /\ ReplacesOnlyDisconnected

LEMMA StreamInvInit == StreamInit => StreamInv
  BY DEF StreamInit, StreamInv, ReplacesOnlyDisconnected

LEMMA StreamInvStep == StreamInv /\ [StreamNext]_streamVars => StreamInv'
<1> SUFFICES ASSUME StreamInv, [StreamNext]_streamVars
             PROVE  StreamInv'
  OBVIOUS
<1> USE DEF connState, StreamInv, ReplacesOnlyDisconnected
<1>1. CASE CallConnect
  BY <1>1 DEF CallConnect
<1>2. CASE ConnectStep
  BY <1>2 DEF ConnectStep, ConnectDialFails, ConnectDials, ConnectReturns,
     ConnectCallbackFails, InstallConnection
<1>3. CASE LoopTick \/ LoopExit \/ GiveUpAttempt \/ BeginAttempt
  BY <1>3 DEF LoopTick, LoopExit, GiveUpAttempt, BeginAttempt, BackToWait
<1>4. CASE SleepEnds \/ SleepCancelled \/ DialFails \/ DialSucceeds
  BY <1>4 DEF SleepEnds, SleepCancelled, DialFails, DialSucceeds, BackToWait
<1>5. CASE Reinstall \/ ReconnectReturns \/ ReconnectCallbackFails
  BY <1>5 DEF Reinstall, ReconnectReturns, ReconnectCallbackFails,
     InstallConnection, BackToWait
<1>6. CASE LoopMarks \/ LoopNotifies
  BY <1>6 DEF LoopMarks, LoopNotifies, BackToWait
<1>7. ASSUME NEW s \in Streams, MarkDisconnected(s) \/ NotifyDisconnected(s)
      PROVE  StreamInv'
  BY <1>7 DEF MarkDisconnected, NotifyDisconnected
<1>8. CASE Close
  BY <1>8 DEF Close
<1>9. CASE UNCHANGED streamVars
  BY <1>9 DEF streamVars
<1> QED BY <1>1, <1>2, <1>3, <1>4, <1>5, <1>6, <1>7, <1>8, <1>9
    DEF StreamNext, LoopStep

\* reconnectionLoop and attemptReconnect hold no lock between reading
\* isConnected and storing the new connection; the decision is not stale when
\* it is used.
THEOREM LoopReplacesOnlyDisconnected == StreamSpec => []ReplacesOnlyDisconnected
<1>1. StreamInv => ReplacesOnlyDisconnected
  BY DEF StreamInv
<1> QED BY <1>1, StreamInvInit, StreamInvStep, PTL DEF StreamSpec

-----------------------------------------------------------------------------

\* Growing and capping keeps a backoff in its range.
LEMMA BackoffInRange ==
    ASSUME NEW b \in InitialBackoff..MaxBackoff
    PROVE  NextBackoff(b) \in InitialBackoff..MaxBackoff
<1>1. b \in Nat /\ InitialBackoff \in Nat /\ MaxBackoff \in Nat
  BY StreamAssumption
<1>2. Grown[b] \in Nat /\ Grown[b] >= b
  BY StreamAssumption
<1> QED
  BY <1>1, <1>2 DEF NextBackoff

LEMMA StreamTypeInit == StreamInit => StreamTypeOK
<1> SUFFICES ASSUME StreamInit PROVE StreamTypeOK
  OBVIOUS
<1>1. {connOpen, isConnected, done} \subseteq BOOLEAN
  BY Zenon DEF StreamInit
<1>2. maxRetries \in Nat /\ CountCap \in Nat
  BY StreamAssumption DEF StreamInit
<1>3. retryCount \in 0..CountCap
  BY <1>2 DEF StreamInit
<1>4. backoff \in InitialBackoff..MaxBackoff
  BY StreamAssumption DEF StreamInit
<1> QED
  BY <1>1, <1>3, <1>4 DEF StreamInit, StreamTypeOK

LEMMA StreamTypeStep == StreamTypeOK /\ [StreamNext]_streamVars => StreamTypeOK'
<1> SUFFICES ASSUME StreamTypeOK, [StreamNext]_streamVars
             PROVE  StreamTypeOK'
  OBVIOUS
<1>a. maxRetries \in Nat /\ CountCap \in Nat /\ retryCount \in 0..CountCap
  BY StreamAssumption DEF StreamTypeOK
<1>b. InitialBackoff \in InitialBackoff..MaxBackoff
  BY StreamAssumption
<1> USE <1>a, <1>b DEF StreamTypeOK, connState
<1>c. ASSUME InstallConnection, done' = done
      PROVE  /\ {connOpen, isConnected, done}' \subseteq BOOLEAN
             /\ retryCount' \in 0..CountCap
  <2>1. {connOpen, isConnected, done}' \subseteq BOOLEAN
    BY <1>c, Zenon DEF InstallConnection
  <2>2. retryCount' \in 0..CountCap
    BY <1>c DEF InstallConnection
  <2> QED
    BY <2>1, <2>2
<1>1. CASE CallConnect \/ ConnectDialFails
  BY <1>1 DEF CallConnect, ConnectDialFails
<1>2. CASE ConnectDials
  BY <1>2, <1>c DEF ConnectDials, InstallConnection
<1>3. CASE ConnectReturns \/ ConnectCallbackFails
  BY <1>3 DEF ConnectReturns, ConnectCallbackFails
<1>4. CASE LoopTick \/ LoopExit \/ GiveUpAttempt
  BY <1>4 DEF LoopTick, LoopExit, GiveUpAttempt, BackToWait
<1>5. CASE BeginAttempt
  BY <1>5 DEF BeginAttempt, AtLimit, Saturate
<1>6. CASE SleepEnds \/ SleepCancelled \/ DialSucceeds
  BY <1>6 DEF SleepEnds, SleepCancelled, DialSucceeds
<1>7. CASE DialFails
  <2>1. backoff' \in InitialBackoff..MaxBackoff
    BY <1>7, BackoffInRange DEF DialFails
  <2> QED
    BY <1>7, <2>1 DEF DialFails, BackToWait
<1>8. CASE Reinstall
  BY <1>8, <1>c DEF Reinstall, InstallConnection
<1>9. CASE ReconnectReturns \/ ReconnectCallbackFails
  BY <1>9 DEF ReconnectReturns, ReconnectCallbackFails, BackToWait
<1>10. CASE LoopMarks \/ LoopNotifies
  BY <1>10 DEF LoopMarks, LoopNotifies, BackToWait
<1>11. ASSUME NEW s \in Streams, MarkDisconnected(s) \/ NotifyDisconnected(s)
      PROVE  StreamTypeOK'
  BY <1>11 DEF MarkDisconnected, NotifyDisconnected
<1>12. CASE Close
  BY <1>12 DEF Close
<1>13. CASE UNCHANGED streamVars
  BY <1>13 DEF streamVars
<1> QED
  BY <1>1, <1>2, <1>3, <1>4, <1>5, <1>6, <1>7, <1>8, <1>9, <1>10, <1>11, <1>12,
     <1>13 DEF StreamNext, ConnectStep, LoopStep

\* The variables keep their types; of these only the backoff is more than that:
\* it stays in its range over any sequence of failed dials and resets.
THEOREM StreamTypeCorrect == StreamSpec => []StreamTypeOK
  BY StreamTypeInit, StreamTypeStep, PTL DEF StreamSpec

-----------------------------------------------------------------------------
(* Connect with the callback the worker passes.                            *)

\* The manager before Connect has returned.
NotConnected == caller # "returned" /\ loop = "off" /\ dropping = {}

LEMMA NotConnectedStep ==
    ASSUME CallbackReadsConnection, NotConnected, [StreamNext]_streamVars
    PROVE  NotConnected'
<1> USE DEF NotConnected
<1>1. CASE CallConnect \/ Close
  BY <1>1 DEF CallConnect, Close
<1>2. CASE ConnectStep
  BY <1>2 DEF ConnectStep, ConnectDialFails, ConnectDials, ConnectReturns,
     ConnectCallbackFails, CanRunCallback, MuFree
<1>3. ~LoopStep /\ \A s \in Streams : ~MarkDisconnected(s) /\ ~NotifyDisconnected(s)
  BY DEF LoopStep, LoopTick, LoopExit, GiveUpAttempt, BeginAttempt, SleepEnds,
     SleepCancelled, DialFails, DialSucceeds, Reinstall, ReconnectReturns,
     ReconnectCallbackFails, LoopMarks, LoopNotifies, MarkDisconnected,
     NotifyDisconnected
<1>4. CASE UNCHANGED streamVars
  BY <1>4 DEF streamVars
<1> QED BY <1>1, <1>2, <1>3, <1>4 DEF StreamNext

\* Connect calls onConnected with sm.mu held.  If onConnected calls GetConnection,
\* as the worker's does, Connect never returns with success and no reconnection
\* loop is ever started, in any configuration.
THEOREM ConnectNeverSucceeds ==
    ASSUME CallbackReadsConnection PROVE StreamSpec => []NotConnected
<1>1. StreamInit => NotConnected
  BY DEF StreamInit, NotConnected
<1>2. NotConnected /\ [StreamNext]_streamVars => NotConnected'
  BY NotConnectedStep
<1> QED BY <1>1, <1>2, PTL DEF StreamSpec

\* More: the first dial that succeeds is the last step of the manager.  Nobody
\* gets sm.mu after it, Close included.
THEOREM DialStopsManager ==
    ASSUME CallbackReadsConnection
    PROVE  StreamSpec => [][caller # "locked"]_streamVars
<1>1. NotConnected /\ [StreamNext]_streamVars => [caller # "locked"]_streamVars
  <2> SUFFICES ASSUME NotConnected, StreamNext, caller = "locked" PROVE FALSE
    BY DEF NotConnected
  <2> USE DEF NotConnected
  <2>1. ~CallConnect /\ ~Close
    BY DEF CallConnect, Close, MuFree
  <2>2. ~ConnectStep
    BY DEF ConnectStep, ConnectDialFails, ConnectDials, ConnectReturns,
       ConnectCallbackFails, CanRunCallback, MuFree
  <2>3. ~LoopStep /\ \A s \in Streams : ~MarkDisconnected(s) /\ ~NotifyDisconnected(s)
    BY DEF LoopStep, LoopTick, LoopExit, GiveUpAttempt, BeginAttempt, SleepEnds,
       SleepCancelled, DialFails, DialSucceeds, Reinstall, ReconnectReturns,
       ReconnectCallbackFails, LoopMarks, LoopNotifies, MarkDisconnected,
       NotifyDisconnected
  <2> QED BY <2>1, <2>2, <2>3 DEF StreamNext
<1> QED BY <1>1, ConnectNeverSucceeds, PTL DEF StreamSpec

-----------------------------------------------------------------------------
(* Close.                                                                  *)

\* When a closed manager holds an open connection, the loop is not about to store
\* another one: it begins an attempt only while done is open, the attempt Close
\* finds under way finds no connection open, and Connect is not called then.
LateInv == done /\ connOpen => loop \notin {"sleep", "dial", "install"}

LEMMA LateInvStep ==
    StreamInv /\ LateInv /\ [StreamNext]_streamVars => LateInv'
<1> SUFFICES ASSUME StreamInv, LateInv, [StreamNext]_streamVars
             PROVE  LateInv'
  OBVIOUS
<1> USE DEF connState, LateInv
<1>1. CASE CallConnect
  BY <1>1 DEF CallConnect
<1>2. CASE ConnectStep
  BY <1>2 DEF StreamInv, ConnectStep, ConnectDialFails, ConnectDials, ConnectReturns,
     ConnectCallbackFails, InstallConnection
<1>3. CASE LoopTick \/ LoopExit \/ GiveUpAttempt \/ BeginAttempt
  BY <1>3 DEF LoopTick, LoopExit, GiveUpAttempt, BeginAttempt, BackToWait
<1>4. CASE SleepEnds \/ SleepCancelled \/ DialFails \/ DialSucceeds
  BY <1>4 DEF SleepEnds, SleepCancelled, DialFails, DialSucceeds, BackToWait
<1>5. CASE Reinstall \/ ReconnectReturns \/ ReconnectCallbackFails
  BY <1>5 DEF StreamInv, Reinstall, ReconnectReturns, ReconnectCallbackFails,
     InstallConnection, BackToWait
<1>6. CASE LoopMarks \/ LoopNotifies
  BY <1>6 DEF LoopMarks, LoopNotifies, BackToWait
<1>7. ASSUME NEW s \in Streams, MarkDisconnected(s) \/ NotifyDisconnected(s)
      PROVE  LateInv'
  BY <1>7 DEF MarkDisconnected, NotifyDisconnected
<1>8. CASE Close
  BY <1>8 DEF Close
<1>9. CASE UNCHANGED streamVars
  BY <1>9 DEF streamVars
<1> QED BY <1>1, <1>2, <1>3, <1>4, <1>5, <1>6, <1>7, <1>8, <1>9
    DEF StreamNext, LoopStep

\* After Close the loop stores no connection over one that is open.
OneLateConnection == [][done /\ connOpen => ~Reinstall]_streamVars

\* Close does not wait for an attempt to reconnect, and the attempt may store a
\* connection after it, which then stays open (run stream_close).  The loop
\* leaves no second one: a connection that Close missed is never followed by
\* another.  (Connect, called on a closed manager, dials anew each time.)
THEOREM CloseMissesAtMostOne == StreamSpec => OneLateConnection
<1>1. StreamInit => LateInv
  BY DEF StreamInit, LateInv
<1>2. LateInv /\ [StreamNext]_streamVars => [done /\ connOpen => ~Reinstall]_streamVars
  BY DEF LateInv, Reinstall
<1> QED BY <1>1, <1>2, LateInvStep, StreamInvInit, StreamInvStep, PTL
        DEF StreamSpec, OneLateConnection

\* How far the loop is from its end once done is closed.
LoopRank(pc) ==
    CASE pc = "exit"     -> 0
      [] pc = "attempt"  -> 1
      [] pc = "wait"     -> 2
      [] pc = "notify"   -> 3
      [] pc = "mark"     -> 4
      [] pc = "callback" -> 5
      [] pc = "install"  -> 6
      [] pc = "dial"     -> 7
      [] pc = "sleep"    -> 8
      [] OTHER           -> 9

\* After Close the loop only advances, and every step it takes is an advance.
ClosedLoopAdvances ==
    [][done => /\ loop' # loop => LoopRank(loop') < LoopRank(loop)
               /\ LoopStep => loop' # loop]_streamVars

\* The part of CloseEndsLoop that needs no fairness, for every configuration:
\* once Close was called the loop takes at most nine steps, in whichever wait,
\* dial or callback Close finds it, also if Connect starts it after that.
THEOREM ClosedLoopIsBounded == StreamSpec => ClosedLoopAdvances
<1> DEFINE Advances == /\ loop' # loop => LoopRank(loop') < LoopRank(loop)
                       /\ LoopStep => loop' # loop
<1>1. ASSUME StreamInv, [StreamNext]_streamVars, done PROVE Advances
  <2>a. ASSUME \/ loop = "wait" /\ loop' \in {"attempt", "exit"}
               \/ loop = "attempt" /\ loop' = "exit"
               \/ loop = "sleep" /\ loop' \in {"dial", "exit"}
               \/ loop = "dial" /\ loop' \in {"install", "exit"}
               \/ loop = "install" /\ loop' = "callback"
               \/ loop = "callback" /\ loop' \in {"mark", "exit"}
               \/ loop = "mark" /\ loop' \in {"notify", "exit"}
               \/ loop = "notify" /\ loop' = "exit"
        PROVE  Advances
    BY <2>a DEF LoopRank
  <2>1. CASE LoopTick \/ LoopExit \/ GiveUpAttempt \/ BeginAttempt
    <3>1. CASE LoopTick \/ LoopExit
      BY <2>a, <3>1 DEF LoopTick, LoopExit
    <3>2. CASE GiveUpAttempt \/ BeginAttempt
      <4>1. loop = "attempt" /\ loop' = "exit"
        BY <1>1, <3>2 DEF GiveUpAttempt, BeginAttempt, BackToWait
      <4> QED BY <2>a, <4>1
    <3> QED BY <2>1, <3>1, <3>2
  <2>2. CASE SleepEnds \/ SleepCancelled \/ DialFails \/ DialSucceeds
    <3>1. \/ loop = "sleep" /\ loop' \in {"dial", "exit"}
          \/ loop = "dial" /\ loop' \in {"install", "exit"}
      BY <1>1, <2>2 DEF SleepEnds, SleepCancelled, DialFails, DialSucceeds, BackToWait
    <3> QED BY <2>a, <3>1
  <2>3. CASE Reinstall \/ ReconnectReturns \/ ReconnectCallbackFails
    <3>1. \/ loop = "install" /\ loop' = "callback"
          \/ loop = "callback" /\ loop' \in {"mark", "exit"}
      BY <1>1, <2>3 DEF Reinstall, ReconnectReturns, ReconnectCallbackFails, BackToWait
    <3> QED BY <2>a, <3>1
  <2>4. CASE LoopMarks \/ LoopNotifies
    <3>1. \/ loop = "mark" /\ loop' \in {"notify", "exit"}
          \/ loop = "notify" /\ loop' = "exit"
      BY <1>1, <2>4 DEF LoopMarks, LoopNotifies, BackToWait
    <3> QED BY <2>a, <3>1
  <2>5. CASE ConnectReturns /\ ~LoopStep
    <3>1. loop = "off" /\ loop' = "wait"
      BY <1>1, <2>5 DEF ConnectReturns, StreamInv
    <3> QED BY <2>5, <3>1 DEF LoopRank
  <2>6. CASE UNCHANGED loop /\ ~LoopStep
    BY <2>6
  <2>7. LoopStep \/ ConnectReturns \/ UNCHANGED loop
    BY <1>1 DEF StreamNext, ConnectStep, CallConnect, ConnectDialFails, ConnectDials,
       ConnectCallbackFails, MarkDisconnected, NotifyDisconnected, Close, streamVars
  <2> QED BY <2>1, <2>2, <2>3, <2>4, <2>5, <2>6, <2>7 DEF LoopStep
<1>2. StreamInv /\ [StreamNext]_streamVars => [done => Advances]_streamVars
  BY <1>1
<1> QED BY <1>2, StreamInvInit, StreamInvStep, PTL DEF StreamSpec, ClosedLoopAdvances
=============================================================================
