------------------------- MODULE ServerProcessProofs -------------------------
(***************************************************************************)
(* A clean exit of either program cuts off no gRPC call, for any set of    *)
(* calls and requests.  main may return only when the goroutine of the     *)
(* signal is past GracefulStop.  That it then finds no open call is not    *)
(* inductive by itself: it rests on the server refusing calls since the    *)
(* signal, which is what Drained adds.                                     *)
(***************************************************************************)
EXTENDS ServerProcess, TLAPS

\* Since the signal no call is accepted, past GracefulStop none is open, and
\* only the gateway has an HTTP server to stop.
Drained ==
    /\ sig \in {"grpc", "http", "drain", "done"} => stopped
    /\ sig \in {"http", "drain", "done"} => calls = {}
    /\ sig \in {"http", "drain"} => program = "gateway"

ProcessInv == ProcessTypeOK /\ Drained /\ CleanExitCutsNoCall

LEMMA ProcessInitInv == ProcessInit => ProcessInv
  BY DEF ProcessInit, ProcessInv, ProcessTypeOK, Drained, CleanExitCutsNoCall

\* One step per action of main, of the signal's goroutine, of the HTTP server
\* and of the handlers.
LEMMA ProcessStepInv == ProcessInv /\ [ProcessNext]_procVars => ProcessInv'
<1> SUFFICES ASSUME ProcessInv, [ProcessNext]_procVars PROVE ProcessInv'
  OBVIOUS
<1> USE DEF ProcessInv, ProcessTypeOK, Drained, CleanExitCutsNoCall, Alive, Exit
<1>1. CASE Listen
  BY <1>1 DEF Listen
<1>2. CASE ListenFails
  BY <1>2 DEF ListenFails
<1>3. CASE Serve
  <2>1. CASE stopped
    BY <1>3, <2>1 DEF Serve
  <2>2. CASE ~stopped
    BY <1>3, <2>2 DEF Serve
  <2> QED
    BY <2>1, <2>2
<1>4. CASE MainReturns
  BY <1>4 DEF MainReturns, ServeMayReturn
<1>5. CASE ServeFails
  BY <1>5 DEF ServeFails
<1>6. CASE Notify
  BY <1>6 DEF Notify
<1>7. CASE GracefulStopReturns
  BY <1>7 DEF GracefulStopReturns
<1>8. CASE Shutdown
  BY <1>8 DEF Shutdown
<1>9. CASE ShutdownReturns
  BY <1>9 DEF ShutdownReturns
<1>10. CASE KilledEarly
  BY <1>10 DEF KilledEarly
<1>11. CASE Signal
  BY <1>11 DEF Signal
<1>12. CASE ListenAndServe
  BY <1>12 DEF ListenAndServe
<1>13. CASE HTTPFails
  BY <1>13 DEF HTTPFails
<1>14. ASSUME NEW c \in Calls, AcceptCall(c) PROVE ProcessInv'
  BY <1>14 DEF AcceptCall
<1>15. ASSUME NEW c \in Calls, CallEnds(c) PROVE ProcessInv'
  BY <1>15 DEF CallEnds
<1>16. ASSUME NEW r \in Requests, AcceptRequest(r) PROVE ProcessInv'
  BY <1>16 DEF AcceptRequest
<1>17. ASSUME NEW r \in Requests, AnswerRequest(r) PROVE ProcessInv'
  BY <1>17 DEF AnswerRequest
<1>18. CASE UNCHANGED procVars
  BY <1>18 DEF procVars
<1> HIDE DEF ProcessInv, Alive, Exit
<1> QED
  BY <1>1, <1>2, <1>3, <1>4, <1>5, <1>6, <1>7, <1>8, <1>9, <1>10, <1>11, <1>12,
     <1>13, <1>14, <1>15, <1>16, <1>17, <1>18
     DEF ProcessNext, MainStep, SigStep, AnswerCall, StreamTasksReturns

LEMMA ProcessInvariant == ProcessSpec => []ProcessInv
  BY ProcessInitInv, ProcessStepInv, PTL DEF ProcessSpec

\* The variables of a process keep their types, and the orchestrator never has
\* an HTTP server.
THEOREM ProcessTypeCorrect == ProcessSpec => []ProcessTypeOK
<1>1. ProcessInv => ProcessTypeOK
  BY DEF ProcessInv
<1> QED
  BY ProcessInvariant, <1>1, PTL

\* "Graceful shutdown": when main returns, racing with the goroutine that stops
\* the servers, no gRPC call is open.
THEOREM CleanExit == ProcessSpec => []CleanExitCutsNoCall
<1>1. ProcessInv => CleanExitCutsNoCall
  BY DEF ProcessInv
<1> QED
  BY ProcessInvariant, <1>1, PTL

-----------------------------------------------------------------------------
(* HTTP requests, which a clean exit of the gateway may cut off.           *)

\* Shutdown closes the listener for good, and returns with no request open;
\* main returns only past GracefulStop.
Shut ==
    /\ sig \in {"drain", "done"} => http \in {"off", "closed"}
    /\ sig = "done" => requests = {}
    /\ exit = "ok" => sig \in {"http", "drain", "done"}

\* A clean exit with requests open: main returned while the goroutine of the
\* signal was between GracefulStop and the return of Shutdown.
CutsOnlyDuringShutdown ==
    exit = "ok" /\ requests # {} => program = "gateway" /\ sig \in {"http", "drain"}

LEMMA ShutStep ==
    ASSUME ProcessInv, Shut, [ProcessNext]_procVars
    PROVE  Shut'
<1> USE DEF ProcessInv, ProcessTypeOK, Shut, Alive, Exit
<1>1. CASE Listen \/ ListenFails \/ MainReturns \/ ServeFails \/ KilledEarly \/ HTTPFails
  BY <1>1 DEF Listen, ListenFails, MainReturns, ServeMayReturn, ServeFails, KilledEarly, HTTPFails
<1>2. CASE Serve
  BY <1>2 DEF Serve
<1>3. CASE Notify \/ Signal \/ Shutdown \/ ShutdownReturns
  BY <1>3 DEF Notify, Signal, Shutdown, ShutdownReturns
<1>4. CASE GracefulStopReturns
  BY <1>4 DEF GracefulStopReturns
<1>5. CASE ListenAndServe
  BY <1>5 DEF ListenAndServe
<1>6. ASSUME NEW c \in Calls, AcceptCall(c) \/ CallEnds(c) PROVE Shut'
  BY <1>6 DEF AcceptCall, CallEnds
<1>7. ASSUME NEW r \in Requests, AcceptRequest(r) \/ AnswerRequest(r) PROVE Shut'
  BY <1>7 DEF AcceptRequest, AnswerRequest
<1>8. CASE UNCHANGED procVars
  BY <1>8 DEF procVars
<1> HIDE DEF ProcessInv, ProcessTypeOK, Shut, Alive, Exit
<1> QED
  BY <1>1, <1>2, <1>3, <1>4, <1>5, <1>6, <1>7, <1>8
     DEF ProcessNext, MainStep, SigStep, AnswerCall, StreamTasksReturns

\* A clean exit may cut off HTTP requests (run gateway_shutdown), and this is the
\* only way: main returned before the Shutdown it does not wait for.  A gateway
\* whose goroutine of the signal got to its end cuts off nothing, and neither
\* does the orchestrator.
THEOREM RequestsCutOnlyDuringShutdown == ProcessSpec => []CutsOnlyDuringShutdown
<1>1. ProcessInit => Shut
  BY DEF ProcessInit, Shut
<1>2. ProcessInv /\ Shut /\ [ProcessNext]_procVars => Shut'
  BY ShutStep
<1>3. ProcessInv /\ Shut => CutsOnlyDuringShutdown
  BY DEF ProcessInv, ProcessTypeOK, Shut, CutsOnlyDuringShutdown
<1> QED
  BY <1>1, <1>2, <1>3, ProcessInvariant, PTL DEF ProcessSpec
=============================================================================
