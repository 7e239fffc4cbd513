----------------------------- MODULE Settlement -----------------------------
(***************************************************************************)
(* What happens to one funded, non-milestone escrow: release, refund,      *)
(* platform review, disputes and their resolution by a participant or by   *)
(* the platform, the escrow worker's event handlers and its auto-release   *)
(* timer.  The refund at the provider and the payout job are where money   *)
(* leaves; the payout worker takes over from the queued job.               *)
(*                                                                         *)
(* A request that fails its first checks changes nothing and is not an     *)
(* action.  Every await after them ends an action.                         *)
(***************************************************************************)
EXTENDS EscrowTypes, FiniteSets, Naturals

CONSTANTS
  Requests,         \* HTTP requests, of any of the operations below
  Nobody,           \* no dispute
  Provider,         \* ACTIVE_PAYMENT_PROVIDER
  TimerAccepted,    \* BullMQ accepts the job id auto-release:<escrowId>
  Faults

FaultKinds ==
  {"request",   \* a request dies between two awaits: crash or DB error
   "crash",     \* the escrow worker dies while it runs a job
   "refund",    \* the provider's refund call fails, or its answer is lost
   "unpaid"}    \* a late payment.failed webhook marks the payment Failed

ASSUME SettlementAssumption ==
  /\ Nobody \notin Requests
  /\ Provider \in {"bachs", "paystack"}
  /\ TimerAccepted \in BOOLEAN
  /\ Faults \subseteq FaultKinds

Parties == {"payer", "payee"}
Ops == {"release", "refund", "review", "dispute", "resolve", "platformResolve"}
Decisions == {"release", "refund"}
Events == {"escrow.funded", "escrow.released", "escrow.disputed"}

PCs ==
  {"idle", "loaded", "ready", "refunding", "refundDone", "refundSkipped",
   "committed", "dispatched",
   "done", "conflict",
   "stranded",   \* the refund went out and was never committed
   "failed", "dead"}

Ended == {"done", "conflict", "stranded", "failed", "dead"}

VARIABLES
  status,      \* escrow.status
  pc, op, by, decision, seen, target,   \* each request: where it is, what it is
  dispute,     \* the dispute row a request created
  event,       \* the domain events queued for the escrow worker
  timer,       \* the auto-release job
  payeeReady,  \* the payee's bachsAccountId was obtained when it joined
  payouts,     \* job ids in the payout queue
  manual,      \* PayoutPendingManualIntervention was recorded
  refunds,     \* idempotency keys under which the provider made a refund
  refundable,  \* a Completed payment with a charge id exists
  releaseRows, refundRows   \* Release and Refund rows of the ledger

reqVars == <<pc, op, by, decision, seen, target>>
moneyVars == <<payeeReady, payouts, manual, refunds, refundable>>
ledgerVars == <<releaseRows, refundRows>>
vars == <<status, pc, op, by, decision, seen, target, dispute, event, timer,
          payeeReady, payouts, manual, refunds, refundable, releaseRows,
          refundRows>>

Init ==
  /\ status = "Held"
  /\ pc = [r \in Requests |-> "idle"]
  /\ op = [r \in Requests |-> "release"]
  /\ by = [r \in Requests |-> "payer"]
  /\ decision = [r \in Requests |-> "release"]
  /\ seen = [r \in Requests |-> "Held"]
  /\ target = [r \in Requests |-> Nobody]
  /\ dispute = [r \in Requests |-> "none"]
  /\ event = [e \in Events |-> IF e = "escrow.funded" THEN "queued" ELSE "none"]
  /\ timer = "absent"
  /\ payeeReady \in BOOLEAN
  /\ payouts = {}
  /\ manual = FALSE
  /\ refunds = {}
  /\ refundable = (Provider = "bachs")
  /\ releaseRows = 0
  /\ refundRows = 0

-----------------------------------------------------------------------------

\* Request r passes its first checks as operation o.
Begin(r, o, next) ==
  /\ pc[r] = "idle"
  /\ pc' = [pc EXCEPT ![r] = next]
  /\ op' = [op EXCEPT ![r] = o]
  /\ seen' = [seen EXCEPT ![r] = status]
  /\ UNCHANGED <<status, dispute, event, timer, moneyVars, ledgerVars>>

Goto(r, next) ==
  /\ pc' = [pc EXCEPT ![r] = next]
  /\ UNCHANGED <<op, by, decision, seen, target>>

\* Mutant: a lost guard does not end the request.
AfterLostGuardIgnored(r) == "dispatched"

\* A guard of the last transaction found the row changed: 409, rolled back.
\* A refund that already went out stays out.
AfterLostGuard(r) == IF pc[r] = "refundDone" THEN "stranded" ELSE "conflict"

LostGuard(r) ==
  /\ Goto(r, AfterLostGuard(r))
  /\ UNCHANGED <<status, dispute, event, timer, moneyVars, ledgerVars>>

\* queue.add of the payout job: a job id the queue knows is ignored.
PayoutJobId(caller) == "payout-escrow"

AddPayout(caller) ==
  payouts' = IF payeeReady THEN payouts \cup {PayoutJobId(caller)} ELSE payouts

-----------------------------------------------------------------------------
(* Release: the payer, from Held.                                           *)

ReleaseLoad(r) ==
  /\ status = "Held"
  /\ Begin(r, "release", "ready")
  /\ by' = [by EXCEPT ![r] = "payer"]
  /\ UNCHANGED <<decision, target>>

\* Mutant: the update is by id only.
ReleaseGuardDropped == TRUE

ReleaseGuard == status = "Held"

\* Mutant: the status of another operation is written.
StatusOnceReleasedCancels == "Cancelled"

StatusOnceReleased == "Released"

ReleaseCommit(r) ==
  /\ pc[r] = "ready" /\ op[r] = "release"
  /\ IF ReleaseGuard
     THEN /\ Goto(r, "committed")
          /\ status' = StatusOnceReleased
          /\ releaseRows' = releaseRows + 1
          /\ UNCHANGED <<dispute, event, timer, moneyVars, refundRows>>
     ELSE LostGuard(r)

\* eventDispatcher: escrow.released for the escrow worker.
ReleaseDispatch(r) ==
  /\ pc[r] = "committed" /\ op[r] = "release"
  /\ Goto(r, "dispatched")
  /\ event' = [event EXCEPT !["escrow.released"] = "queued"]
  /\ UNCHANGED <<status, dispute, timer, moneyVars, ledgerVars>>

\* The service adds the payout job, or records that it cannot.
EnqueuePayout(r) ==
  /\ pc[r] = "dispatched"
  /\ Goto(r, "done")
  /\ AddPayout(r)
  /\ manual' = (manual \/ ~payeeReady)
  /\ UNCHANGED <<status, dispute, event, timer, payeeReady, refunds, refundable,
                 ledgerVars>>

-----------------------------------------------------------------------------
(* executeRefund, then the transaction of the operation that called it.     *)

\* Mutant: the transaction comes before the refund.
RefundLater(r) == "refundSkipped"

RefundFirst(r) == "refunding"

RefundLoad(r) ==
  /\ status = "AwaitingAction"
  /\ Begin(r, "refund", RefundFirst(r))
  /\ by' = [by EXCEPT ![r] = "payer"]
  /\ UNCHANGED <<decision, target>>

\* Returns without a word when there is nothing Bachs could refund.
RefundSkip(r) ==
  /\ pc[r] = "refunding"
  /\ Provider # "bachs" \/ ~refundable
  /\ Goto(r, "refundSkipped")
  /\ UNCHANGED <<status, dispute, event, timer, moneyVars, ledgerVars>>

RefundKey(r) == "refund-escrow"

\* createRefund: one refund per idempotency key.
RefundMade(r) == refunds' = refunds \cup {RefundKey(r)}

RefundCall(r) ==
  /\ pc[r] = "refunding"
  /\ Provider = "bachs" /\ refundable
  /\ Goto(r, "refundDone")
  /\ RefundMade(r)
  /\ UNCHANGED <<status, dispute, event, timer, payeeReady, payouts, manual,
                 refundable, ledgerVars>>

RefundError(r) ==
  /\ "refund" \in Faults
  /\ pc[r] = "refunding"
  /\ Provider = "bachs" /\ refundable
  /\ Goto(r, "failed")
  /\ UNCHANGED <<status, dispute, event, timer, moneyVars, ledgerVars>>

\* The client gives up after 10 seconds, and the request with it; the provider
\* may have made the refund.
RefundUnanswered(r) ==
  /\ "refund" \in Faults
  /\ pc[r] = "refunding"
  /\ Provider = "bachs" /\ refundable
  /\ Goto(r, "stranded")
  /\ RefundMade(r)
  /\ UNCHANGED <<status, dispute, event, timer, payeeReady, payouts, manual,
                 refundable, ledgerVars>>

RefundCommit(r) ==
  /\ pc[r] \in {"refundDone", "refundSkipped"} /\ op[r] = "refund"
  /\ IF status = "AwaitingAction"
     THEN /\ Goto(r, "done")
          /\ status' = "Refunded"
          /\ refundRows' = refundRows + 1
          /\ UNCHANGED <<dispute, event, timer, moneyVars, releaseRows>>
     ELSE LostGuard(r)

-----------------------------------------------------------------------------
(* Platform review.                                                         *)

ReviewLoad(r) ==
  /\ CanTransition(status, "AwaitingAction")
  /\ Begin(r, "review", "ready")
  /\ UNCHANGED <<by, decision, target>>

\* Mutant: the update is by id only.
ReviewGuardDropped == TRUE

ReviewGuard == status = "Held"

ReviewCommit(r) ==
  /\ pc[r] = "ready" /\ op[r] = "review"
  /\ IF ReviewGuard
     THEN /\ Goto(r, "done")
          /\ status' = "AwaitingAction"
          /\ UNCHANGED <<dispute, event, timer, moneyVars, ledgerVars>>
     ELSE LostGuard(r)

-----------------------------------------------------------------------------
(* Disputes.                                                                *)

ActiveDisputes == {d \in Requests : dispute[d] = "Open"}

DisputeLoad(r) ==
  /\ Begin(r, "dispute", "loaded")
  /\ \E who \in Parties : by' = [by EXCEPT ![r] = who]
  /\ UNCHANGED <<decision, target>>

\* A second read, of the disputes; then the transition is checked against the
\* status of the first.
DisputeCheck(r) ==
  /\ pc[r] = "loaded"
  /\ Goto(r, IF ActiveDisputes = {} /\ CanTransition(seen[r], "Disputed")
               THEN "ready" ELSE "conflict")
  /\ UNCHANGED <<status, dispute, event, timer, moneyVars, ledgerVars>>

\* Mutant: the dispute row is created whatever became of the escrow.
DisputeGuardDropped(r) == TRUE

DisputeGuard(r) == status = seen[r]

DisputeCommit(r) ==
  /\ pc[r] = "ready" /\ op[r] = "dispute"
  /\ IF DisputeGuard(r)
     THEN /\ Goto(r, "committed")
          /\ status' = "Disputed"
          /\ dispute' = [dispute EXCEPT ![r] = "Open"]
          /\ UNCHANGED <<event, timer, moneyVars, ledgerVars>>
     ELSE LostGuard(r)

DisputeDispatch(r) ==
  /\ pc[r] = "committed" /\ op[r] = "dispute"
  /\ Goto(r, "done")
  /\ event' = [event EXCEPT !["escrow.disputed"] = "queued"]
  /\ UNCHANGED <<status, dispute, timer, moneyVars, ledgerVars>>

StatusOfDecision(d) == IF d = "release" THEN "Released" ELSE "Refunded"

\* The checks both resolve operations share, and the refund that comes first.
ResolveBegin(r, o, d, dec) ==
  /\ dispute[d] = "Open"
  /\ CanTransition(status, StatusOfDecision(dec))
  /\ Begin(r, o, IF dec = "refund" THEN RefundFirst(r) ELSE "ready")
  /\ decision' = [decision EXCEPT ![r] = dec]
  /\ target' = [target EXCEPT ![r] = d]

\* A participant, but not the one who raised the dispute.
ResolveLoad(r) ==
  \E d \in Requests, dec \in Decisions, who \in Parties :
    /\ who # by[d]
    /\ ResolveBegin(r, "resolve", d, dec)
    /\ by' = [by EXCEPT ![r] = who]

PlatformResolveLoad(r) ==
  \E d \in Requests, dec \in Decisions :
    /\ ResolveBegin(r, "platformResolve", d, dec)
    /\ UNCHANGED by

\* Mutant: neither row is checked again.
ResolveGuardDropped(r) == TRUE

ResolveGuard(r) == dispute[target[r]] = "Open" /\ status = "Disputed"

\* Mutant: a resolution leaves the payout to the worker.
AfterResolveNoPayout(d) == "done"

\* Only a release has a payout to enqueue; no event is dispatched.
AfterResolve(d) == IF d = "release" THEN "dispatched" ELSE "done"

ResolveCommit(r) ==
  /\ op[r] \in {"resolve", "platformResolve"}
  /\ pc[r] \in {"ready", "refundDone", "refundSkipped"}
  /\ IF ResolveGuard(r)
     THEN /\ Goto(r, AfterResolve(decision[r]))
          /\ dispute' = [dispute EXCEPT ![target[r]] = "Resolved"]
          /\ status' = StatusOfDecision(decision[r])
          /\ releaseRows' = releaseRows + (IF decision[r] = "release" THEN 1 ELSE 0)
          /\ refundRows' = refundRows + (IF decision[r] = "refund" THEN 1 ELSE 0)
          /\ UNCHANGED <<event, timer, moneyVars>>
     ELSE LostGuard(r)

RequestCrash(r) ==
  /\ "request" \in Faults
  /\ pc[r] \notin Ended \cup {"idle"}
  /\ Goto(r, IF pc[r] = "refundDone" THEN "stranded" ELSE "dead")
  /\ UNCHANGED <<status, dispute, event, timer, moneyVars, ledgerVars>>

-----------------------------------------------------------------------------
(* The escrow worker: domain events and the auto-release timer.             *)

EventDone(e) == event' = [event EXCEPT ![e] = "done"]

\* queue.remove takes a waiting or finished job, never a running one.
RemoveTimer ==
  timer' = IF timer \in {"read", "written"} THEN timer ELSE "absent"

\* escrow.funded: schedule the timer.  Where BullMQ refuses the job id the add
\* throws and the event job fails.
HandleFunded ==
  /\ event["escrow.funded"] = "queued"
  /\ EventDone("escrow.funded")
  /\ timer' = IF TimerAccepted /\ timer = "absent" THEN "scheduled" ELSE timer
  /\ UNCHANGED <<status, reqVars, dispute, moneyVars, ledgerVars>>

HandleDisputed ==
  /\ event["escrow.disputed"] = "queued"
  /\ EventDone("escrow.disputed")
  /\ RemoveTimer
  /\ UNCHANGED <<status, reqVars, dispute, moneyVars, ledgerVars>>

\* escrow.released: remove the timer, then enqueue the payout once more.
HandleReleased ==
  /\ event["escrow.released"] = "queued"
  /\ event' = [event EXCEPT !["escrow.released"] = "running"]
  /\ RemoveTimer
  /\ UNCHANGED <<status, reqVars, dispute, moneyVars, ledgerVars>>

HandleReleasedPayout ==
  /\ event["escrow.released"] = "running"
  /\ EventDone("escrow.released")
  /\ AddPayout("escrow.released")
  /\ UNCHANGED <<status, reqVars, dispute, timer, payeeReady, manual, refunds,
                 refundable, ledgerVars>>

\* A stalled job runs again from its start, or fails at its second stall.
EventCrash ==
  /\ "crash" \in Faults
  /\ event["escrow.released"] = "running"
  /\ \E s \in {"queued", "done"} :
       event' = [event EXCEPT !["escrow.released"] = s]
  /\ UNCHANGED <<status, reqVars, dispute, timer, moneyVars, ledgerVars>>

TimerRead ==
  /\ timer = "scheduled"
  /\ timer' = IF status \in {"Held", "AwaitingAction"} THEN "read" ELSE "skipped"
  /\ UNCHANGED <<status, reqVars, dispute, event, moneyVars, ledgerVars>>

\* An update by id: the status read before is not checked again.
TimerWrite ==
  /\ timer = "read"
  /\ timer' = "written"
  /\ status' = "Released"
  /\ UNCHANGED <<reqVars, dispute, event, moneyVars, ledgerVars>>

TimerEnqueue ==
  /\ timer = "written"
  /\ timer' = "done"
  /\ AddPayout("auto-release")
  /\ UNCHANGED <<status, reqVars, dispute, event, payeeReady, manual, refunds,
                 refundable, ledgerVars>>

TimerCrash ==
  /\ "crash" \in Faults
  /\ timer \in {"read", "written"}
  /\ timer' \in {"scheduled", "done"}
  /\ UNCHANGED <<status, reqVars, dispute, event, moneyVars, ledgerVars>>

\* webhook.service: payment.failed is applied to a Completed payment too.
PaymentMarkedFailed ==
  /\ "unpaid" \in Faults
  /\ refundable
  /\ refundable' = FALSE
  /\ UNCHANGED <<status, reqVars, dispute, event, timer, payeeReady, payouts,
                 manual, refunds, ledgerVars>>

-----------------------------------------------------------------------------

RequestBegins(r) ==
  \/ ReleaseLoad(r) \/ RefundLoad(r) \/ ReviewLoad(r) \/ DisputeLoad(r)
  \/ ResolveLoad(r) \/ PlatformResolveLoad(r)

RequestContinues(r) ==
  \/ ReleaseCommit(r) \/ ReleaseDispatch(r) \/ EnqueuePayout(r)
  \/ RefundSkip(r) \/ RefundCall(r) \/ RefundError(r) \/ RefundUnanswered(r)
  \/ RefundCommit(r) \/ ReviewCommit(r)
  \/ DisputeCheck(r) \/ DisputeCommit(r) \/ DisputeDispatch(r)
  \/ ResolveCommit(r)

EventNext ==
  HandleFunded \/ HandleDisputed \/ HandleReleased \/ HandleReleasedPayout

TimerNext == TimerRead \/ TimerWrite \/ TimerEnqueue

Next ==
  \/ \E r \in Requests :
       RequestBegins(r) \/ RequestContinues(r) \/ RequestCrash(r)
  \/ EventNext \/ EventCrash
  \/ TimerNext \/ TimerCrash
  \/ PaymentMarkedFailed

Spec == Init /\ [][Next]_vars

\* Requests that began and queued jobs keep going; nobody has to begin one.
Fairness ==
  /\ \A r \in Requests : WF_vars(RequestContinues(r))
  /\ WF_vars(EventNext)
  /\ WF_vars(TimerNext)

FairSpec == Spec /\ Fairness
-----------------------------------------------------------------------------
(* Properties.                                                              *)

\* Every variable keeps to its values; in particular no operation on a funded
\* escrow takes it back before Held or cancels it.
TypeOK ==
  /\ status \in CreditedStatuses
  /\ pc \in [Requests -> PCs]
  /\ op \in [Requests -> Ops]
  /\ by \in [Requests -> Parties]
  /\ decision \in [Requests -> Decisions]
  /\ seen \in [Requests -> CreditedStatuses]
  /\ target \in [Requests -> Requests \cup {Nobody}]
  /\ dispute \in [Requests -> {"none", "Open", "Resolved"}]
  /\ event \in [Events -> {"none", "queued", "running", "done"}]
  /\ timer \in {"absent", "scheduled", "read", "written", "done", "skipped"}
  /\ payeeReady \in BOOLEAN
  /\ payouts \subseteq {PayoutJobId(c) : c \in Requests \cup Events \cup {"auto-release"}}
  /\ manual \in BOOLEAN
  /\ refunds \subseteq {RefundKey(r) : r \in Requests}
  /\ refundable \in BOOLEAN
  /\ releaseRows \in Nat
  /\ refundRows \in Nat

\* One Funding row holds the escrow's amount; whatever requests, resolutions and
\* timers race, the Release and Refund rows never take out more than that.
LedgerNotOverdrawn == releaseRows + refundRows <= 1

\* A payout job exists only for an escrow that is Released, and stays so: no
\* guard lost in a race, no late event and no resolution pays out a held,
\* disputed or refunded escrow.
PayoutOnlyWhenReleased == payouts # {} => status = "Released"

\* Release enqueues a payout in the request and again in the event worker, and
\* the timer may do it too: together they make one job.
OnePayoutJob == Cardinality(payouts) <= 1

\* Several refund requests and resolutions may call the provider, before any of
\* them has committed: together they make one refund.
OneRefund == Cardinality(refunds) <= 1

\* Funds are frozen by exactly one dispute: two openDispute requests that both
\* found none leave one row, and an active row means frozen funds.  The one way
\* out is the auto-release timer, whose write does not look at the status.
FrozenByOneDispute ==
  /\ status = "Disputed" => Cardinality(ActiveDisputes) = 1
  /\ ActiveDisputes # {} =>
       \/ status = "Disputed"
       \/ TimerAccepted /\ status = "Released"

\* An escrow is Refunded only after the provider made the refund, on Bachs with
\* the charge on record.
RefundedIsBacked == status = "Refunded" => refunds # {}

\* Money went both ways only where the code cannot take the refund back: its
\* request is about to lose, or lost, the guard of its transaction, or ended before
\* it (or the auto-release timer went over a refund).
BothWaysOnlyAfterLostGuard ==
  refunds # {} /\ payouts # {} =>
    \/ \E r \in Requests : pc[r] \in {"refundDone", "stranded"}
    \/ TimerAccepted

\* What the ledger rows say became of the money.
Settled ==
  CASE releaseRows > 0 -> "toPayee"
    [] releaseRows = 0 /\ refundRows > 0 -> "toPayer"
    [] OTHER -> "open"

Lifecycle ==
  INSTANCE EscrowLifecycle WITH Start <- "Held", settled <- Settled

\* Without the auto-release timer the operations implement the lifecycle: every
\* step is a move of the table that leaves the ledger alone, one settlement that
\* is recorded with it, or a step nobody sees.
ImplementsLifecycle == Lifecycle!Spec

\* A released escrow is paid out, or its payout is handed to a person, by
\* whichever of the request, the event worker and the timer gets there, and
\* even if the worker dies.  The exception is an escrow that only the timer
\* released (it writes no ledger row): the timer leaves no record for a person,
\* and its payout is lost with the worker.
ReleasedIsPaid ==
  status = "Released" ~>
    \/ payouts # {} \/ manual
    \/ releaseRows = 0 /\ (~payeeReady \/ "crash" \in Faults)

=============================================================================
