------------------------------ MODULE ChargeQueue ------------------------------
(***************************************************************************)
(* The queue that takes what a finished request costs from its handler to  *)
(* the ledger in the database: updateTokenStatsAsync, tokenStatsWorker and *)
(* applyTokenStatsUpdate in src/internal/app/proxy_error.go.  A handler    *)
(* looks at isShuttingDown, and then either enqueues or books by itself;   *)
(* the worker ends after the shutdown signal when it finds the queue empty.*)
(*                                                                         *)
(* A charge is named by its request.  The memory cache of the limits that  *)
(* a charge also goes to is the subject of TokenQuota.                     *)
(***************************************************************************)
EXTENDS ServerLifecycle, Sequences

CONSTANTS
  None,
  ChargeCap   \* capacity of tokenStatsCh

ASSUME ChargeAssumption == None \notin Requests /\ ChargeCap \in Nat \ {0}

VARIABLES
  tokenStatsCh,   \* the charges in the channel, oldest first
  chargeWorker,   \* what tokenStatsWorker does
  inHand,         \* the charge it applies, or None
  booked,         \* request -> times the ledger has been charged for it
  droppedCharges, \* counted by tokenStatsDropCount
  failedCharges   \* the UPDATE reported an error: written to the process log
                  \*   only, or, for a deleted token, nowhere

chargeVars == <<tokenStatsCh, chargeWorker, inHand, booked, droppedCharges, failedCharges>>

Elements(s) == {s[i] : i \in DOMAIN s}

Book(r) == StoreOpen /\ booked' = [booked EXCEPT ![r] = @ + 1]

\* UpdateTokenStats: one UPDATE, which succeeds or reports an error.  It has not
\* happened then, unless it was the answer that did not come in three seconds.
Apply(r) ==
  \/ Book(r) /\ UNCHANGED failedCharges
  \/ failedCharges' = failedCharges \cup {r} /\ (UNCHANGED booked \/ Book(r))

-----------------------------------------------------------------------------
(* updateTokenStatsAsync, in the handler *)

\* The charge is decided on by the flag of this moment.
CheckCharge(r) ==
  /\ Up
  /\ at[r] = "charge"
  /\ Goto(r, IF isShuttingDown THEN "chargeSync" ELSE "chargeSend")
  /\ UNCHANGED <<phase, clean, chargeVars>>

SendCharge(r) ==
  /\ Up
  /\ at[r] = "chargeSend"
  /\ Len(tokenStatsCh) < ChargeCap
  /\ tokenStatsCh' = Append(tokenStatsCh, r)
  /\ Goto(r, AfterCharge(r))
  /\ UNCHANGED <<phase, clean, chargeWorker, inHand, booked, droppedCharges, failedCharges>>

\* Full for the 100 ms that a charge waits, and at the last attempt.
DropCharge(r) ==
  /\ Up
  /\ at[r] = "chargeSend"
  /\ Len(tokenStatsCh) >= ChargeCap
  /\ droppedCharges' = droppedCharges \cup {r}
  /\ Goto(r, AfterCharge(r))
  /\ UNCHANGED <<phase, clean, tokenStatsCh, chargeWorker, inHand, booked, failedCharges>>

\* During the shutdown the handler applies the charge itself.
BookNow(r) ==
  /\ Up
  /\ at[r] = "chargeSync"
  /\ Apply(r)
  /\ Goto(r, AfterCharge(r))
  /\ UNCHANGED <<phase, clean, tokenStatsCh, chargeWorker, inHand, droppedCharges>>

-----------------------------------------------------------------------------
(* tokenStatsWorker *)

ChargeWorkerModes == {"running", "draining", "ended"}

\* Mutant of TakeCharge: the drain waits for somebody else to empty the channel.
TakeCharge_NotDraining ==
  /\ Up
  /\ chargeWorker = "running" /\ inHand = None
  /\ tokenStatsCh # << >>
  /\ inHand' = Head(tokenStatsCh)
  /\ tokenStatsCh' = Tail(tokenStatsCh)
  /\ UNCHANGED <<lifeVars, chargeWorker, booked, droppedCharges, failedCharges>>

TakeCharge ==
  /\ Up
  /\ chargeWorker # "ended" /\ inHand = None
  /\ tokenStatsCh # << >>
  /\ inHand' = Head(tokenStatsCh)
  /\ tokenStatsCh' = Tail(tokenStatsCh)
  /\ UNCHANGED <<lifeVars, chargeWorker, booked, droppedCharges, failedCharges>>

BookCharge ==
  /\ Up
  /\ inHand # None
  /\ Apply(inHand)
  /\ inHand' = None
  /\ UNCHANGED <<lifeVars, tokenStatsCh, chargeWorker, droppedCharges>>

\* The select takes the shutdown signal; with both ready it may take either.
StartDraining ==
  /\ Up
  /\ shutdownCh
  /\ chargeWorker = "running" /\ inHand = None
  /\ chargeWorker' = "draining"
  /\ UNCHANGED <<lifeVars, tokenStatsCh, inHand, booked, droppedCharges, failedCharges>>

\* drainTokenStats finds the channel empty.
EndDraining ==
  /\ Up
  /\ chargeWorker = "draining" /\ inHand = None
  /\ tokenStatsCh = << >>
  /\ chargeWorker' = "ended"
  /\ UNCHANGED <<lifeVars, tokenStatsCh, inHand, booked, droppedCharges, failedCharges>>

ChargeWorkerStep == TakeCharge \/ BookCharge \/ StartDraining \/ EndDraining

ChargeHandlerStep(r) == CheckCharge(r) \/ SendCharge(r) \/ DropCharge(r) \/ BookNow(r)

\* The end of the process: the ledger stays.
ForgetCharges ==
  /\ tokenStatsCh' = << >> /\ chargeWorker' = "running" /\ inHand' = None
  /\ droppedCharges' = {} /\ failedCharges' = {}
  /\ UNCHANGED booked

chargeInit ==
  /\ tokenStatsCh = << >> /\ chargeWorker = "running" /\ inHand = None
  /\ booked = [r \in Requests |-> 0]
  /\ droppedCharges = {} /\ failedCharges = {}

chargeTypeOK ==
  /\ tokenStatsCh \in Seq(Requests)
  /\ chargeWorker \in ChargeWorkerModes
  /\ inHand \in Requests \cup {None}
  /\ booked \in [Requests -> Nat]
  /\ droppedCharges \subseteq Requests /\ failedCharges \subseteq Requests
=============================================================================
