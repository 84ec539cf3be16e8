------------------------------ MODULE Accounting ------------------------------
(***************************************************************************)
(* What becomes of the cost of a request: the handler adds it to the       *)
(* channel's cost of the day in memory (CostCache), hands a log entry to   *)
(* the log service and a charge to the token statistics, and the two       *)
(* workers write them while the process serves, shuts down, crashes and    *)
(* starts again.  LogQueue and ChargeQueue, which know nothing of each     *)
(* other, meet in the handler (handleProxySuccess and                      *)
(* handleProxyErrorResponse in src/internal/app/proxy_error.go) and in the *)
(* shutdown (ServerLifecycle).                                             *)
(*                                                                         *)
(* Every request is billed once, on one channel, all on one day: each      *)
(* attempt of a request that fails over is a request here.                 *)
(***************************************************************************)
EXTENDS LogQueue, ChargeQueue

VARIABLES
  costCache,   \* request -> its part of the channel's cost in memory
  costLoaded,  \* the start has read today's cost from the logs table
  racing       \* history: handlers between a check of the flag and its use
               \*   when the flag was set

acVars == <<lifeVars, chargeVars, logVars, costCache, costLoaded, racing>>

-----------------------------------------------------------------------------
(* The handler *)

\* Mutant of AddCost: only what the log queue has no room for is added.
AddCost_Skipped(r) == costCache' = IF Len(logChan) < LogCap THEN costCache ELSE [costCache EXCEPT ![r] = @ + 1]

\* Server.AddLogAsync adds the cost before it hands the entry to the log service
\* (in one step with the service's look at the flag: nobody sees one without the
\* other before the entry is sent).
AddCost(r) == costCache' = [costCache EXCEPT ![r] = @ + 1]

Handler(r) ==
  \/ Begin(r) /\ UNCHANGED <<chargeVars, logVars, costCache, costLoaded, racing>>
  \/ Answered(r) /\ UNCHANGED <<chargeVars, logVars, costCache, costLoaded, racing>>
  \/ CheckLog(r) /\ AddCost(r) /\ UNCHANGED <<chargeVars, costLoaded, racing>>
  \/ SendLog(r) /\ UNCHANGED <<chargeVars, costCache, costLoaded, racing>>
  \/ ChargeHandlerStep(r) /\ UNCHANGED <<logVars, costCache, costLoaded, racing>>

-----------------------------------------------------------------------------
(* The process *)

ShuttingDown ==
  /\ \/ HttpDrained \/ HttpTimesOut \/ CloseShutdownCh
     \/ WorkersEnd(chargeWorker = "ended" /\ logWorker = "ended")
     \/ CloseStore
  /\ UNCHANGED <<chargeVars, logVars, costCache, costLoaded, racing>>

SignalOrTimeout ==
  /\ Signal \/ WorkersTimeOut
  /\ UNCHANGED <<chargeVars, logVars, costCache, costLoaded, racing>>

FlagSet ==
  /\ SetFlag
  /\ racing' = {r \in Requests : at[r] \in {"logSend", "chargeSend"}}
  /\ UNCHANGED <<chargeVars, logVars, costCache, costLoaded>>

\* The charges and the entries that exist only in memory.
ChargesInMemory == Elements(tokenStatsCh) \cup ({inHand} \ {None})
LogsInMemory    == Entries(logChan) \cup Entries(batch)

\* Memory is lost; the ledger and the logs table stay.
End ==
  /\ Exit \/ Crash
  /\ ForgetCharges /\ ForgetLogs
  /\ costCache' = [r \in Requests |-> 0] /\ racing' = {}
  /\ UNCHANGED costLoaded

\* bootstrapCostAndURLStats: today's cost is the sum of today's rows, or, when
\* they cannot be read, nothing.
Restart ==
  /\ Start
  /\ costCache' \in {stored, [r \in Requests |-> 0]}
  /\ costLoaded' = (costCache' = stored)
  /\ UNCHANGED <<chargeVars, logVars, racing>>

ChargeWorking == ChargeWorkerStep /\ UNCHANGED <<logVars, costCache, costLoaded, racing>>
LogWorking    == LogWorkerStep /\ UNCHANGED <<chargeVars, costCache, costLoaded, racing>>

Init ==
  /\ lifeInit /\ chargeInit /\ logInit
  /\ costCache = [r \in Requests |-> 0]
  /\ costLoaded = TRUE
  /\ racing = {}

Next ==
  \/ \E r \in Requests : Handler(r)
  \/ ChargeWorking \/ LogWorking
  \/ ShuttingDown \/ SignalOrTimeout \/ FlagSet \/ End \/ Restart

Spec == Init /\ [][Next]_acVars

-----------------------------------------------------------------------------
(* Properties *)

\* Types of all parts, and the sets that the histories are made of.
TypeOK ==
  /\ lifeTypeOK /\ chargeTypeOK /\ logTypeOK
  /\ costCache \in [Requests -> Nat] /\ costLoaded \in BOOLEAN
  /\ racing \subseteq Requests

One(b) == IF b THEN 1 ELSE 0

Times(r, s) == Cardinality({i \in DOMAIN s : s[i] = r})

\* The handler still has its charge, or its log entry.
HoldsCharge(r) == at[r] \in {"idle", "running"} \cup Charging \/ (at[r] \in Logging /\ r \notin Failing)
HoldsEntry(r)  == at[r] \in {"idle", "running"} \cup Logging \/ (at[r] \in Charging /\ r \in Failing)

\* A charge is in exactly one place: with its handler, in the channel, in the
\* worker's hand, counted as dropped, or through with the UPDATE: in the ledger,
\* reported as failed, or, when only the answer was lost, both.  Nothing is
\* charged twice and, while the process lives, nothing slips through.
ChargeConserved ==
  \A r \in Requests :
    /\ booked[r] <= 1
    /\ at[r] # "over" =>
         One(HoldsCharge(r)) + Times(r, tokenStatsCh) + One(inHand = r)
           + One(r \in droppedCharges) + One(booked[r] = 1 \/ r \in failedCharges) = 1

\* The same of a log entry; only a commit whose answer was lost can store an
\* entry that also fails, or store it twice.
LogConserved ==
  \A r \in Requests \ doubtful :
    IF at[r] = "over" THEN stored[r] <= 1
    ELSE One(HoldsEntry(r)) + Times(r, logChan) + Times(r, batch) + stored[r]
           + One(r \in droppedLogs) + One(r \in failedLogs) + One(r \in skippedLogs) = 1

\* Neither of the two queues loses or repeats what it was given.
Conserved == ChargeConserved /\ LogConserved

\* Once the workers have ended in time, the only charges and entries that are
\* left behind are of handlers that had seen the server running when the flag
\* was set.  All others are written, or counted, before the store closes.
OnlyRacingStranded ==
  phase \in {"finishing", "closed"} /\ clean => ChargesInMemory \cup LogsInMemory \subseteq racing

\* What a restart would find in the logs table is already in memory: the cost
\* limit of a channel never counts less while the process lives than after a
\* restart, unless the start could not read the table or a row is doubtful.
CostNotBehindLogs ==
  Up /\ costLoaded => \A r \in Requests \ doubtful : stored[r] <= costCache[r]

-----------------------------------------------------------------------------
(* Liveness: workers and handlers that have their answer run, and so does    *)
(* main with the five seconds of httpServer.Shutdown.  An answer may not     *)
(* come, and the ten seconds for the workers are not relied on.              *)

Fairness ==
  /\ WF_acVars(ChargeWorking) /\ WF_acVars(LogWorking)
  /\ \A r \in Requests : WF_acVars(Handler(r) /\ at[r] \notin {"idle", "running"})
  /\ WF_acVars(ShuttingDown \/ FlagSet \/ (Exit /\ End))

FairSpec == Spec /\ Fairness

\* A process that is told to stop does stop: the workers come to an end though
\* handlers that outlive the HTTP server go on filling the queues.
ShutdownEnds == phase = "draining" ~> phase = "down"

\* No charge waits for ever in the channel or in the worker's hand.
ChargesSettle == \A r \in Requests : (r \in ChargesInMemory) ~> (r \notin ChargesInMemory)
=============================================================================
