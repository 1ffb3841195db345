---------------------------- MODULE StreamManager ----------------------------
(***************************************************************************)
(* streaming.StreamManager: the goroutine that calls Connect, the          *)
(* reconnection loop Connect starts, the goroutines that call              *)
(* MarkDisconnected when a stream ends, and Close.  What the callbacks do  *)
(* is left to the application (Worker); here they return an error or not.  *)
(*                                                                         *)
(* Connect holds sm.mu from its first statement to its return, across the  *)
(* onConnected callback; every other section under the mutex makes no call *)
(* that waits and is one action, guarded by MuFree.  onDisconnected is     *)
(* called after the mutex was released.  Dialing does not wait for the     *)
(* server, so a dial that succeeds says nothing about it.                  *)
(*                                                                         *)
(* Connect tests nothing.  It is called on a closed manager here too, but  *)
(* after a success not again, which would start a second loop: the worker  *)
(* calls it once.                                                          *)
(***************************************************************************)
EXTENDS Integers

CONSTANTS InitialBackoff, MaxBackoff,  \* StreamConfig, in units of time
          Grown,                       \* a backoff times BackoffMultiplier
          RetryLimits,                 \* values of MaxRetries; 0 is no limit
          Streams,                     \* goroutines that see a stream end
          CallbackReadsConnection,     \* onConnected calls GetConnection
          CountCap                     \* bound: the retry count saturates here

ASSUME StreamAssumption ==
    /\ InitialBackoff \in Nat \ {0}
    /\ MaxBackoff \in Nat
    /\ InitialBackoff <= MaxBackoff
    /\ Grown \in [InitialBackoff..MaxBackoff -> Nat]
    /\ \A b \in InitialBackoff..MaxBackoff : Grown[b] >= b
    /\ RetryLimits \subseteq Nat
    /\ CallbackReadsConnection \in BOOLEAN
    /\ CountCap \in Nat
    /\ \A limit \in RetryLimits : limit < CountCap

VARIABLES maxRetries,    \* config.MaxRetries of this manager, never changed
          connOpen,      \* sm.conn is a connection that was not closed
          isConnected, retryCount,
          backoff,       \* local variable of the loop
          done,          \* Close was called
          caller,        \* the goroutine that calls Connect
          loop,          \* the reconnection loop
          dropping       \* streams between markDisconnected and its callback

streamVars == <<maxRetries, connOpen, isConnected, retryCount, backoff, done,
                caller, loop, dropping>>
connState  == <<maxRetries, connOpen, isConnected, retryCount>>

StreamTypeOK ==
    /\ {connOpen, isConnected, done} \subseteq BOOLEAN
    /\ maxRetries \in RetryLimits
    /\ retryCount \in 0..CountCap
    /\ backoff \in InitialBackoff..MaxBackoff
    /\ caller \in {"idle", "calling", "locked", "returned"}
    /\ loop \in {"off", "wait", "attempt", "sleep", "dial", "install",
                 "callback", "mark", "notify", "exit"}
    /\ dropping \in SUBSET Streams

StreamInit ==
    /\ maxRetries \in RetryLimits
    /\ connOpen = FALSE /\ isConnected = FALSE /\ retryCount = 0
    /\ backoff = InitialBackoff
    /\ done = FALSE
    /\ caller = "idle" /\ loop = "off" /\ dropping = {}

MuFree == caller # "locked"

Saturate(n) == IF n < CountCap THEN n + 1 ELSE CountCap

\* Assigning sm.conn, isConnected and retryCount.  A connection that is still
\* in sm.conn is dropped without being closed.
InstallConnection ==
    /\ connOpen' = TRUE
    /\ isConnected' = TRUE
    /\ retryCount' = 0
    /\ UNCHANGED maxRetries

MutantCallbackTakesLock == MuFree

\* Whether the onConnected callback can get past its first call: the worker's
\* is GetConnection, which takes a read lock on sm.mu.
CanRunCallback == CallbackReadsConnection => MuFree

\* Back to the head of the loop.  A channel that is closed already is ready
\* there and the timer is not, so select takes it and the loop returns.
BackToWait == loop' = IF done THEN "exit" ELSE "wait"

-----------------------------------------------------------------------------
(* Connect.                                                                *)

CallConnect ==
    /\ caller = "idle"
    /\ caller' = "calling"
    /\ UNCHANGED <<connState, backoff, done, loop, dropping>>

ConnectDialFails ==
    /\ caller = "calling"
    /\ caller' = "idle"
    /\ UNCHANGED <<connState, backoff, done, loop, dropping>>

ConnectDials ==
    /\ caller = "calling"
    /\ InstallConnection
    /\ caller' = "locked"
    /\ UNCHANGED <<backoff, done, loop, dropping>>

\* The callback succeeded: start the loop, return and release sm.mu.
ConnectReturns ==
    /\ caller = "locked"
    /\ CanRunCallback
    /\ caller' = "returned"
    /\ loop' = "wait"
    /\ UNCHANGED <<connState, backoff, done, dropping>>

\* The callback failed: return its error.  No loop is started and isConnected
\* stays set.
ConnectCallbackFails ==
    /\ caller = "locked"
    /\ CanRunCallback
    /\ caller' = "idle"
    /\ UNCHANGED <<connState, backoff, done, loop, dropping>>

-----------------------------------------------------------------------------
(* reconnectionLoop and attemptReconnect.                                  *)

MutantTickUnchecked ==
    /\ loop = "wait"
    /\ MuFree
    /\ loop' = "attempt"
    /\ UNCHANGED <<connState, backoff, done, caller, dropping>>

\* A tick of the loop that finds the stream disconnected.
LoopTick ==
    /\ loop = "wait"
    /\ MuFree
    /\ ~isConnected
    /\ loop' = "attempt"
    /\ UNCHANGED <<connState, backoff, done, caller, dropping>>

MutantLoopExit ==
    /\ loop = "wait"
    /\ done
    /\ ~isConnected
    /\ loop' = "exit"
    /\ UNCHANGED <<connState, backoff, done, caller, dropping>>

LoopExit ==
    /\ loop = "wait"
    /\ done
    /\ loop' = "exit"
    /\ UNCHANGED <<connState, backoff, done, caller, dropping>>

AtLimit == maxRetries > 0 /\ retryCount >= maxRetries

GiveUpAttempt ==
    /\ loop = "attempt"
    /\ MuFree
    /\ AtLimit
    /\ BackToWait
    /\ UNCHANGED <<connState, backoff, done, caller, dropping>>

\* The wait for the backoff ends at once if done is closed already.
BeginAttempt ==
    /\ loop = "attempt"
    /\ MuFree
    /\ ~AtLimit
    /\ retryCount' = Saturate(retryCount)
    /\ loop' = IF done THEN "exit" ELSE "sleep"
    /\ UNCHANGED <<maxRetries, connOpen, isConnected, backoff, done,
                   caller, dropping>>

SleepEnds ==
    /\ loop = "sleep"
    /\ loop' = "dial"
    /\ UNCHANGED <<connState, backoff, done, caller, dropping>>

SleepCancelled ==
    /\ loop = "sleep"
    /\ done
    /\ loop' = "exit"
    /\ UNCHANGED <<connState, backoff, done, caller, dropping>>

MutantBackoffUncapped(b) == Grown[b]

\* The backoff grows by the configured factor, which is at least 1, up to the cap.
NextBackoff(b) == IF Grown[b] > MaxBackoff THEN MaxBackoff ELSE Grown[b]

MutantDialFails ==
    /\ loop = "dial"
    /\ backoff' = NextBackoff(backoff)
    /\ loop' = "exit"
    /\ UNCHANGED <<connState, done, caller, dropping>>

DialFails ==
    /\ loop = "dial"
    /\ backoff' = NextBackoff(backoff)
    /\ BackToWait
    /\ UNCHANGED <<connState, done, caller, dropping>>

DialSucceeds ==
    /\ loop = "dial"
    /\ loop' = "install"
    /\ UNCHANGED <<connState, backoff, done, caller, dropping>>

\* The new connection is stored without a look at done.
Reinstall ==
    /\ loop = "install"
    /\ MuFree
    /\ InstallConnection
    /\ loop' = "callback"
    /\ UNCHANGED <<backoff, done, caller, dropping>>

\* GetConnection answers inside the callback unless the stream was marked
\* disconnected or closed meanwhile.
ReconnectReturns ==
    /\ loop = "callback"
    /\ CanRunCallback
    /\ CallbackReadsConnection => connOpen /\ isConnected
    /\ backoff' = InitialBackoff
    /\ BackToWait
    /\ UNCHANGED <<connState, done, caller, dropping>>

ReconnectCallbackFails ==
    /\ loop = "callback"
    /\ CanRunCallback
    /\ loop' = "mark"
    /\ UNCHANGED <<connState, backoff, done, caller, dropping>>

\* The locked half of markDisconnected, called by the loop after a failed
\* callback; with nothing to notify the attempt ends and resets the backoff.
LoopMarks ==
    /\ loop = "mark"
    /\ MuFree
    /\ isConnected' = FALSE
    /\ IF isConnected
         THEN loop' = "notify" /\ UNCHANGED backoff
         ELSE BackToWait /\ backoff' = InitialBackoff
    /\ UNCHANGED <<maxRetries, connOpen, retryCount, done, caller,
                   dropping>>

LoopNotifies ==
    /\ loop = "notify"
    /\ backoff' = InitialBackoff
    /\ BackToWait
    /\ UNCHANGED <<connState, done, caller, dropping>>

-----------------------------------------------------------------------------
(* Streams that end, and Close.                                            *)

\* The locked half of markDisconnected, called by processStream or processTask.
\* The first stream is opened by the callback that lets Connect start the loop.
\* When it finds the stream disconnected already it changes nothing.
MarkDisconnected(s) ==
    /\ loop # "off"
    /\ s \notin dropping
    /\ MuFree
    /\ isConnected
    /\ isConnected' = FALSE
    /\ dropping' = dropping \cup {s}
    /\ UNCHANGED <<maxRetries, connOpen, retryCount, backoff, done,
                   caller, loop>>

NotifyDisconnected(s) ==
    /\ s \in dropping
    /\ dropping' = dropping \ {s}
    /\ UNCHANGED <<connState, backoff, done, caller, loop>>

\* The first call closes sm.conn and sets it to nil; isConnected is left.
Close ==
    /\ MuFree
    /\ ~done
    /\ done' = TRUE
    /\ connOpen' = FALSE
    /\ UNCHANGED <<maxRetries, isConnected, retryCount, backoff,
                   caller, loop, dropping>>

-----------------------------------------------------------------------------

ConnectStep ==
    ConnectDialFails \/ ConnectDials \/ ConnectReturns \/ ConnectCallbackFails

LoopStep ==
    \/ LoopTick \/ LoopExit
    \/ GiveUpAttempt \/ BeginAttempt
    \/ SleepEnds \/ SleepCancelled
    \/ DialFails \/ DialSucceeds
    \/ Reinstall \/ ReconnectReturns \/ ReconnectCallbackFails
    \/ LoopMarks \/ LoopNotifies

StreamNext ==
    \/ CallConnect
    \/ ConnectStep
    \/ LoopStep
    \/ \E s \in Streams : MarkDisconnected(s) \/ NotifyDisconnected(s)
    \/ Close

\* Goroutines that can run do; a server that stays reachable accepts a dial and
\* a stream in the end.
StreamFairness ==
    /\ WF_streamVars(ConnectStep)
    /\ WF_streamVars(LoopStep)
    /\ \A s \in Streams : WF_streamVars(NotifyDisconnected(s))
    /\ SF_streamVars(DialSucceeds)
    /\ SF_streamVars(ReconnectReturns)

StreamSpec == StreamInit /\ [][StreamNext]_streamVars /\ StreamFairness

-----------------------------------------------------------------------------

\* The loop never replaces a connection that counts as connected: from the
\* moment it decides to reconnect until it stores the new connection, through
\* the backoff and the dial during which it holds no lock, nobody else has
\* connected.
ReplacesOnlyDisconnected ==
    loop \in {"attempt", "sleep", "dial", "install"} => ~isConnected

\* Close ends the loop, in whichever of its steps and waits it is caught.
CloseEndsLoop == done ~> loop \in {"off", "exit"}

\* "handles automatic reconnection": without a retry limit a stream that is
\* marked disconnected after Connect returned is connected again, or closed.
Reconnects ==
    (maxRetries = 0 /\ caller = "returned" /\ ~isConnected)
      ~> (isConnected \/ done)

\* "Connect establishes a connection and starts the reconnection loop": the
\* call returns.
ConnectCallReturns == caller = "calling" ~> caller \in {"idle", "returned"}

\* "Close closes the stream manager and underlying connection": an attempt to
\* reconnect that Close finds under way leaves no connection open when it has
\* stored what it dialled and runs the callback.
CloseLeavesNothingOpen == done /\ loop = "callback" => ~connOpen
=============================================================================
