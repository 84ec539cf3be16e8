---------------------------- MODULE ServerLifecycle ----------------------------
(***************************************************************************)
(* The life of the process as its background workers and its HTTP handlers *)
(* see it (src/main.go, and Server.Shutdown in src/internal/app/server.go):*)
(* serving, the five seconds httpServer.Shutdown gives the handlers, the   *)
(* flag isShuttingDown, the closed channel shutdownCh, the ten seconds the *)
(* workers get, the closed store, the end of the process; and a new start. *)
(*                                                                         *)
(* A handler is in one of the stages of Stages.  What it does between them *)
(* belongs to the modules of the queues it feeds.                          *)
(***************************************************************************)
EXTENDS Naturals, FiniteSets

CONSTANTS
  Requests,   \* the requests of all starts of the process
  Sockets,    \* the ones that arrive on a hijacked (WebSocket) connection
  Failing     \* the ones that end in handleProxyErrorResponse

ASSUME RequestsAssumption == Sockets \subseteq Requests /\ Failing \subseteq Requests

VARIABLES
  phase,    \* how far the process has come
  clean,    \* the workers have ended before the store is closed
  at        \* of every request: where its handler is

lifeVars == <<phase, clean, at>>

Phases == {"serving",
           "draining",   \* in httpServer.Shutdown
           "stopping",   \* it has returned, Server.Shutdown is next
           "flagged",    \* isShuttingDown is set
           "signalled",  \* shutdownCh is closed; waiting for the workers
           "finishing",  \* they are done, or have had their ten seconds
           "closed",     \* the store is closed
           "down"}

Stages == {"idle",
           "running",    \* the request is being answered
           "log",        \* LogService.AddLogAsync is called
           "logSend",    \* ... has found the server running
           "charge",     \* updateTokenStatsAsync is called
           "chargeSend", \* ... has found the server running
           "chargeSync", \* ... has found it shutting down
           "returned",
           "over"}       \* its process has ended

Logging  == {"log", "logSend"}
Charging == {"charge", "chargeSend", "chargeSync"}

\* The stages of a handler that httpServer.Shutdown waits for.
InHandler == Stages \ {"idle", "returned", "over"}

Up == phase # "down"

isShuttingDown == phase \in {"flagged", "signalled", "finishing", "closed"}

\* shutdownCh is closed.
shutdownCh == phase \in {"signalled", "finishing", "closed"}

StoreOpen == phase \notin {"closed", "down"}

Goto(r, s) == at' = [at EXCEPT ![r] = s]

\* A handler logs and then charges; handleProxyErrorResponse charges first.
First(r)       == IF r \in Failing THEN "charge" ELSE "log"
AfterLog(r)    == IF r \in Failing THEN "returned" ELSE "charge"
AfterCharge(r) == IF r \in Failing THEN "log" ELSE "returned"

-----------------------------------------------------------------------------
(* Handlers *)

Begin(r) ==
  /\ phase = "serving"
  /\ at[r] = "idle"
  /\ Goto(r, "running")
  /\ UNCHANGED <<phase, clean>>

\* The upstream has answered or failed, or the client is gone.
Answered(r) ==
  /\ Up
  /\ at[r] = "running"
  /\ Goto(r, First(r))
  /\ UNCHANGED <<phase, clean>>

-----------------------------------------------------------------------------
(* main and Server.Shutdown *)

Advance(from, to) ==
  /\ phase = from
  /\ phase' = to
  /\ UNCHANGED at

\* SIGINT or SIGTERM.
Signal == Advance("serving", "draining") /\ UNCHANGED clean

\* httpServer.Shutdown returns: no handler is left on a connection it owns.
HttpDrained ==
  /\ \A r \in Requests \ Sockets : at[r] \notin InHandler
  /\ Advance("draining", "stopping")
  /\ UNCHANGED clean

\* Five seconds have passed: httpServer.Close cuts the connections, and the
\* handlers go on with what they have.
HttpTimesOut == Advance("draining", "stopping") /\ UNCHANGED clean

SetFlag == Advance("stopping", "flagged") /\ UNCHANGED clean

CloseShutdownCh == Advance("flagged", "signalled") /\ UNCHANGED clean

\* wg.Wait() returns; `done` says that every worker has ended.
WorkersEnd(done) ==
  /\ done
  /\ Advance("signalled", "finishing")
  /\ clean' = TRUE

\* Ten seconds have passed.
WorkersTimeOut == Advance("signalled", "finishing") /\ UNCHANGED clean

CloseStore == Advance("finishing", "closed") /\ UNCHANGED clean

\* The process and the handlers it still has end.
Stop ==
  /\ phase' = "down"
  /\ at' = [r \in Requests |-> IF at[r] = "idle" THEN "idle" ELSE "over"]
  /\ clean' = FALSE

\* main returns.
Exit == phase = "closed" /\ Stop

\* The process is killed.
Crash == Up /\ Stop

\* A new process.
Start ==
  /\ phase = "down"
  /\ phase' = "serving"
  /\ UNCHANGED <<clean, at>>

lifeInit ==
  /\ phase = "serving"
  /\ clean = FALSE
  /\ at = [r \in Requests |-> "idle"]

lifeTypeOK ==
  /\ phase \in Phases
  /\ clean \in BOOLEAN
  /\ at \in [Requests -> Stages]
=============================================================================
