---------------------------- MODULE ServerProcess ----------------------------
(***************************************************************************)
(* The main functions of cmd/gateway and cmd/orchestrator: how a process   *)
(* starts its servers, what its handlers do to requests in flight, and how *)
(* it stops.  Both run a gRPC server in main and wait for a signal in a    *)
(* goroutine; the gateway runs an HTTP server in a third one.              *)
(*                                                                         *)
(* The gRPC server is external.  GracefulStop waits for the calls that are *)
(* open and Serve returns nil after it has; a server that was stopped      *)
(* before Serve makes Serve return an error.  Of the HTTP server, Shutdown *)
(* closes the listener and waits for the requests that are open.           *)
(*                                                                         *)
(* How long a call or a request stays open is up to its client: a worker   *)
(* stream of the orchestrator and a reflection stream of the gateway wait  *)
(* for the client's next message, an HTTP request for the rest of its      *)
(* body.  When main returns, or logger.Fatal is called, the process ends   *)
(* with all its goroutines: what is open then is cut off.                  *)
(***************************************************************************)
CONSTANTS Calls,      \* gRPC calls: unary ones, reflection or worker streams
          Requests    \* HTTP requests

VARIABLES program,    \* which of the two it is
          main,       \* the goroutine of main
          sig,        \* the goroutine that waits for the signal
          http,       \* the goroutine of the HTTP server
          stopped,    \* GracefulStop was called
          calls,      \* gRPC calls that are open
          requests,   \* HTTP requests that are open
          exit        \* how the process ended

procVars == <<program, main, sig, http, stopped, calls, requests, exit>>

ProcessTypeOK ==
    /\ program \in {"gateway", "orchestrator"}
    /\ main \in {"start", "ready", "serving"}
    /\ sig \in {"off", "start", "wait", "grpc", "http", "drain", "done"}
    /\ http \in {"off", "start", "serving", "closed"}
    /\ stopped \in BOOLEAN
    /\ calls \subseteq Calls
    /\ requests \subseteq Requests
    /\ exit \in {"no", "ok", "fatal", "killed"}
    /\ program = "orchestrator" => http = "off" /\ requests = {}

ProcessInit ==
    /\ program \in {"gateway", "orchestrator"}
    /\ main = "start" /\ sig = "off" /\ http = "off"
    /\ stopped = FALSE
    /\ calls = {} /\ requests = {}
    /\ exit = "no"

\* A step of a process that has not ended.
Alive == exit = "no" /\ UNCHANGED program

Exit(how) == exit' = how /\ UNCHANGED <<main, sig, http, stopped, calls, requests>>

-----------------------------------------------------------------------------
(* main.                                                                   *)

MutantListenAlwaysHTTP ==
    /\ Alive
    /\ main = "start"
    /\ main' = "ready"
    /\ sig' = "start"
    /\ http' = "start"
    /\ UNCHANGED <<stopped, calls, requests, exit>>

\* net.Listen, the servers, and the goroutines main starts.
Listen ==
    /\ Alive
    /\ main = "start"
    /\ main' = "ready"
    /\ sig' = "start"
    /\ http' = IF program = "gateway" THEN "start" ELSE "off"
    /\ UNCHANGED <<stopped, calls, requests, exit>>

ListenFails ==
    /\ Alive
    /\ main = "start"
    /\ Exit("fatal")

\* grpcServer.Serve: a server that was stopped already is an error.
Serve ==
    /\ Alive
    /\ main = "ready"
    /\ IF stopped THEN Exit("fatal")
                  ELSE main' = "serving"
                       /\ UNCHANGED <<sig, http, stopped, calls, requests, exit>>

\* Serve returns an error of the listener.
ServeFails ==
    /\ Alive
    /\ main = "serving"
    /\ ~stopped
    /\ Exit("fatal")

MutantServeReturnsAtOnce == stopped

MutantServeWaitsForShutdown == sig = "done"

\* External: Serve returns nil once GracefulStop has returned.
ServeMayReturn == sig \in {"http", "drain", "done"}

\* main returns after Serve.
MainReturns ==
    /\ Alive
    /\ main = "serving"
    /\ ServeMayReturn
    /\ Exit("ok")

-----------------------------------------------------------------------------
(* The goroutine that waits for the signal.                                *)

\* signal.Notify.  Before it, a signal ends the process.
Notify ==
    /\ Alive
    /\ sig = "start"
    /\ sig' = "wait"
    /\ UNCHANGED <<main, http, stopped, calls, requests, exit>>

KilledEarly ==
    /\ Alive
    /\ sig \in {"off", "start"}
    /\ Exit("killed")

\* The first signal; nobody reads the channel again, so others have no effect.
Signal ==
    /\ Alive
    /\ sig = "wait"
    /\ sig' = "grpc"
    /\ stopped' = TRUE
    /\ UNCHANGED <<main, http, calls, requests, exit>>

\* GracefulStop returns; the orchestrator has nothing else to stop.
GracefulStopReturns ==
    /\ Alive
    /\ sig = "grpc"
    /\ calls = {}
    /\ sig' = IF program = "gateway" THEN "http" ELSE "done"
    /\ UNCHANGED <<main, http, stopped, calls, requests, exit>>

\* httpServer.Shutdown closes the listener ...
Shutdown ==
    /\ Alive
    /\ sig = "http"
    /\ sig' = "drain"
    /\ http' = "closed"
    /\ UNCHANGED <<main, stopped, calls, requests, exit>>

\* ... and waits for the open requests.
ShutdownReturns ==
    /\ Alive
    /\ sig = "drain"
    /\ requests = {}
    /\ sig' = "done"
    /\ UNCHANGED <<main, http, stopped, calls, requests, exit>>

-----------------------------------------------------------------------------
(* The goroutine of the HTTP server.                                       *)

ListenAndServe ==
    /\ Alive
    /\ http = "start"
    /\ http' = "serving"
    /\ UNCHANGED <<main, sig, stopped, calls, requests, exit>>

\* The port is taken, or the listener fails later.
HTTPFails ==
    /\ Alive
    /\ http \in {"start", "serving"}
    /\ Exit("fatal")

-----------------------------------------------------------------------------
(* Calls and requests.                                                     *)

AcceptCall(c) ==
    /\ Alive
    /\ main = "serving"
    /\ ~stopped
    /\ calls' = calls \cup {c}
    /\ UNCHANGED <<main, sig, http, stopped, requests, exit>>

CallEnds(c) ==
    /\ Alive
    /\ c \in calls
    /\ calls' = calls \ {c}
    /\ UNCHANGED <<main, sig, http, stopped, requests, exit>>

\* SubmitTask and GetTaskStatus of the gateway return once they have their
\* message; a reflection stream ends when its client leaves.
AnswerCall(c) == program = "gateway" /\ CallEnds(c)

\* StreamTasks of the orchestrator acknowledges registrations, takes results
\* and heartbeats, and returns when Recv does: the worker closed its side, or
\* the stream broke.
StreamTasksReturns(c) == program = "orchestrator" /\ CallEnds(c)

AcceptRequest(r) ==
    /\ Alive
    /\ http = "serving"
    /\ requests' = requests \cup {r}
    /\ UNCHANGED <<main, sig, http, stopped, calls, exit>>

\* GetWorkflowStatus and HealthCheck return without waiting, StartWorkflow when
\* it has read the body, for which the server sets no limit.
AnswerRequest(r) ==
    /\ Alive
    /\ r \in requests
    /\ requests' = requests \ {r}
    /\ UNCHANGED <<main, sig, http, stopped, calls, exit>>

-----------------------------------------------------------------------------

MainStep == Listen \/ ListenFails \/ Serve \/ MainReturns

SigStep == Notify \/ GracefulStopReturns \/ Shutdown \/ ShutdownReturns

ProcessNext ==
    \/ MainStep
    \/ ServeFails
    \/ SigStep
    \/ KilledEarly
    \/ Signal
    \/ ListenAndServe
    \/ HTTPFails
    \/ \E c \in Calls : AcceptCall(c) \/ AnswerCall(c) \/ StreamTasksReturns(c)
    \/ \E r \in Requests : AcceptRequest(r) \/ AnswerRequest(r)

\* The three goroutines of the process run when they can.  Nothing is assumed of
\* signals, clients and workers: calls and requests may stay open for ever.
ProcessFairness ==
    /\ WF_procVars(MainStep)
    /\ WF_procVars(SigStep)
    /\ WF_procVars(ListenAndServe)

ProcessSpec == ProcessInit /\ [][ProcessNext]_procVars /\ ProcessFairness

-----------------------------------------------------------------------------

\* "Graceful shutdown": a process that ends by returning from main, which races
\* with the goroutine that stops the servers, cuts off no gRPC call.
CleanExitCutsNoCall == exit = "ok" => calls = {}

\* A signal the process has taken ends it once no gRPC call is open, however far
\* it had come with its start and whatever HTTP requests do.  GracefulStop waits
\* for the open calls without a limit: a worker stream or a reflection stream
\* whose client stays keeps the process alive.
SignalEndsProcess == (stopped /\ calls = {}) ~> exit # "no"

\* "Graceful shutdown": nor does it cut off an HTTP request.
CleanExitCutsNoRequest == exit = "ok" => requests = {}
=============================================================================
