------------------------------ MODULE Funding ------------------------------
(***************************************************************************)
(* Funding one escrow: the two fund endpoints (fundEscrow and              *)
(* fundEscrowWithToken), the payer at the payment provider, the provider's *)
(* webhooks, the payment worker's confirm job, cancellation and the expiry *)
(* job.  Every await in the code ends an action here, so requests, webhook *)
(* handlers and job runs interleave exactly where the code lets them.      *)
(*                                                                         *)
(* A fund request creates at most one Payment row, so a request and its    *)
(* payment share one identifier.  What happens to the escrow after it is   *)
(* Held is module Settlement; here it is SettlementMoves, which takes any  *)
(* transition of the table to a status of SettlesTo, and the auto-release  *)
(* timer, which does not look at the status that it replaces.              *)
(***************************************************************************)
EXTENDS EscrowTypes, FiniteSets, Naturals

CONSTANTS
  Payments,   \* fund requests, and the payments they create
  Tokens,     \* fund action tokens held by the payer
  NoToken,    \* "the request came through the authenticated endpoint"
  TokenOf,    \* the token each fund request presents, or NoToken
  Cancels,    \* cancel requests
  HasExpiry,  \* the escrow has an expiresAt
  Provider,   \* ACTIVE_PAYMENT_PROVIDER
  SettlesTo,  \* the statuses that settlement may take a funded escrow to
  Faults      \* which failures the environment may inject

FaultKinds ==
  {"request",   \* a fund request ends between two awaits: crash or DB error
   "webhook",   \* the process dies between recording a webhook and acting on it
   "throw",     \* a confirm run throws: the job fails and is never retried
   "crash",     \* a worker process dies while it runs a job
   "stall",     \* a job's lock is lost and BullMQ runs it again
   "ttl"}       \* a token's TTL runs out

ASSUME FundingAssumption ==
  /\ IsFiniteSet(Payments)
  /\ NoToken \notin Tokens
  /\ TokenOf \in [Payments -> Tokens \cup {NoToken}]
  /\ HasExpiry \in BOOLEAN
  /\ Provider \in {"bachs", "paystack"}
  /\ SettlesTo \subseteq EscrowStatus
  /\ Faults \subseteq FaultKinds

Kinds == {"success", "failed"}   \* payment.success and payment.failed webhooks
Runs == {"first", "rerun"}       \* a stalled job is run a second time, once

FundPC ==
  {"idle", "tokenRead", "tokenTaken", "loaded", "cleared", "created",
   "initiated", "providerFailed", "reissuing",
   "done",      \* the checkout link was returned
   "denied",    \* no token, or another request was first
   "refused",   \* a check of the escrow failed
   "answered",  \* conflict or provider error, the token handed back
   "dead"}

Ended == {"done", "denied", "refused", "answered", "dead"}

RunPC ==
  {"none", "queued", "read", "verified", "accepted", "rejected", "credited",
   "announced", "skipped", "failed", "dead"}

Running == {"read", "verified", "accepted", "rejected", "credited"}

VARIABLES
  status,     \* escrow.status
  expired,    \* the clock has passed escrow.expiresAt
  expireJob,  \* the delayed escrow.expire job
  timer,      \* the auto-release job
  fund,       \* where each fund request is
  seen,       \* the escrow status each fund request loaded
  pay,        \* payment.status, "none" before the row exists
  token,      \* tokens present in Redis
  session,    \* the provider's checkout session of each payment
  declined,   \* payments for which the provider saw a failed attempt
  hook,       \* the inbound webhook of each payment and kind
  run,        \* the runs of each payment's confirm job
  ledger,     \* payments with a Funding row in the ledger
  cancel,     \* where each cancel request is
  cancelSeen, \* the escrow status each cancel request loaded
  reopens     \* history: commits of a fund request over a status not fundable

escrowVars == <<status, expired, expireJob, timer>>
fundVars == <<fund, seen, token>>
provVars == <<session, declined>>
cancelVars == <<cancel, cancelSeen>>
vars == <<status, expired, expireJob, timer, fund, seen, pay, token, session,
          declined, hook, run, ledger, cancel, cancelSeen, reopens>>

Init ==
  /\ status = "Created"
  /\ expired = FALSE
  /\ expireJob \in {"absent"} \cup (IF HasExpiry THEN {"scheduled"} ELSE {})
  /\ timer = "waiting"
  /\ fund = [r \in Payments |-> "idle"]
  /\ seen = [r \in Payments |-> "Created"]
  /\ pay = [p \in Payments |-> "none"]
  /\ token = Tokens
  /\ session = [p \in Payments |-> "none"]
  /\ declined = {}
  /\ hook = [p \in Payments |-> [k \in Kinds |-> "unsent"]]
  /\ run = [p \in Payments |-> [i \in Runs |-> "none"]]
  /\ ledger = {}
  /\ cancel = [c \in Cancels |-> "idle"]
  /\ cancelSeen = [c \in Cancels |-> "Created"]
  /\ reopens = 0

-----------------------------------------------------------------------------
(* The fund endpoints.                                                      *)

UsesToken(r) == TokenOf[r] # NoToken

Step(r, from, to) ==
  /\ fund[r] = from
  /\ fund' = [fund EXCEPT ![r] = to]

\* redis.get and the checks of the stored token; a missing token answers 401.
TokenRead(r) ==
  /\ UsesToken(r)
  /\ Step(r, "idle", IF TokenOf[r] \in token THEN "tokenRead" ELSE "denied")
  /\ UNCHANGED <<escrowVars, seen, pay, token, provVars, hook, run, ledger,
                 cancelVars, reopens>>

\* Mutant: the answer of DEL is not looked at.
ConsumedUnchecked(r) == TRUE

\* redis.del answers how many keys it removed: 0 means another request of the
\* same token was first.
ConsumedBy(r) == TokenOf[r] \in token

TokenConsume(r) ==
  /\ Step(r, "tokenRead", IF ConsumedBy(r) THEN "tokenTaken" ELSE "denied")
  /\ token' = token \ {TokenOf[r]}
  /\ UNCHANGED <<escrowVars, seen, pay, provVars, hook, run, ledger,
                 cancelVars, reopens>>

\* The participant checks fail, the payee has not joined or has no payout
\* account: the participants are not modelled here, so this may always happen.
FundRefused(r) ==
  /\ Step(r, IF UsesToken(r) THEN "tokenTaken" ELSE "idle", "refused")
  /\ UNCHANGED <<escrowVars, seen, pay, token, provVars, hook, run, ledger,
                 cancelVars, reopens>>

\* Load the escrow and check that it is, or may become, AwaitingPayment.
MayAwaitPayment ==
  status = "AwaitingPayment" \/ CanTransition(status, "AwaitingPayment")

FundLoad(r) ==
  /\ Step(r, IF UsesToken(r) THEN "tokenTaken" ELSE "idle",
          IF MayAwaitPayment THEN "loaded" ELSE "refused")
  /\ seen' = [seen EXCEPT ![r] = status]
  /\ UNCHANGED <<escrowVars, pay, token, provVars, hook, run, ledger,
                 cancelVars, reopens>>

\* Only one pending payment at a time; a token is handed back on a conflict.
PendingExists == \E p \in Payments : pay[p] = "Pending"

\* Mutant: the token is not handed back.
AfterConflictTokenKept(r) == "answered"

AfterConflict(r) == IF UsesToken(r) THEN "reissuing" ELSE "answered"

FundCheckPending(r) ==
  /\ Step(r, "loaded", IF PendingExists THEN AfterConflict(r) ELSE "cleared")
  /\ UNCHANGED <<escrowVars, seen, pay, token, provVars, hook, run, ledger,
                 cancelVars, reopens>>

\* redis.setex of the same token, then the error answer.
FundReissue(r) ==
  /\ Step(r, "reissuing", "answered")
  /\ token' = token \cup {TokenOf[r]}
  /\ UNCHANGED <<escrowVars, seen, pay, provVars, hook, run, ledger,
                 cancelVars, reopens>>

FundCreatePayment(r) ==
  /\ Step(r, "cleared", "created")
  /\ pay' = [pay EXCEPT ![r] = "Pending"]
  /\ UNCHANGED <<escrowVars, seen, token, provVars, hook, run, ledger,
                 cancelVars, reopens>>

\* initiatePayment: the payment's reference is that of the session.
SessionOpened(r) == session' = [session EXCEPT ![r] = "open"]

FundInitiate(r) ==
  /\ Step(r, "created", "initiated")
  /\ SessionOpened(r)
  /\ UNCHANGED <<escrowVars, seen, pay, token, declined, hook, run, ledger,
                 cancelVars, reopens>>

\* The call throws: the provider refused it, or it was aborted after its timeout
\* with the answer lost, and the session may then exist.  The link to it was in the
\* answer, so nobody can pay there.
FundProviderError(r) ==
  /\ Step(r, "created", "providerFailed")
  /\ SessionOpened(r) \/ UNCHANGED session
  /\ UNCHANGED <<escrowVars, seen, pay, token, declined, hook, run, ledger,
                 cancelVars, reopens>>

FundMarkFailed(r) ==
  /\ Step(r, "providerFailed", AfterConflict(r))
  /\ pay' = [pay EXCEPT ![r] = "Failed"]
  /\ UNCHANGED <<escrowVars, seen, token, provVars, hook, run, ledger,
                 cancelVars, reopens>>

\* The last transaction: the escrow's status is written without a guard when
\* the status loaded at the beginning was not AwaitingPayment.
FundCommit(r) ==
  /\ Step(r, "initiated", "done")
  /\ status' = IF seen[r] # "AwaitingPayment" THEN "AwaitingPayment" ELSE status
  /\ reopens' = IF seen[r] # "AwaitingPayment"
                     /\ status \notin FundableEscrowStatuses
                  THEN reopens + 1 ELSE reopens
  /\ UNCHANGED <<expired, expireJob, timer, seen, pay, token, provVars, hook,
                 run, ledger, cancelVars>>

FundCrash(r) ==
  /\ "request" \in Faults
  /\ fund[r] \notin Ended \cup {"idle"}
  /\ fund' = [fund EXCEPT ![r] = "dead"]
  /\ UNCHANGED <<escrowVars, seen, pay, token, provVars, hook, run, ledger,
                 cancelVars, reopens>>

TokenExpires(t) ==
  /\ "ttl" \in Faults
  /\ t \in token
  /\ token' = token \ {t}
  /\ UNCHANGED <<escrowVars, fund, seen, pay, provVars, hook, run, ledger,
                 cancelVars, reopens>>

-----------------------------------------------------------------------------
(* The payer at the provider: the checkout link is known once the fund      *)
(* request has answered.                                                    *)

PayerPays(p) ==
  /\ fund[p] = "done"
  /\ session[p] = "open"
  /\ session' = [session EXCEPT ![p] = "charged"]
  /\ UNCHANGED <<escrowVars, fundVars, pay, declined, hook, run, ledger,
                 cancelVars, reopens>>

PayerDeclined(p) ==
  /\ fund[p] = "done"
  /\ session[p] = "open"
  /\ declined' = declined \cup {p}
  /\ UNCHANGED <<escrowVars, fundVars, pay, session, hook, run, ledger,
                 cancelVars, reopens>>

-----------------------------------------------------------------------------
(* processVerifiedPayload: record the webhook under its dedup key, then act *)
(* on it.                                                                   *)

\* Mutant: one key for all payments of the escrow.
DedupKeyOfEscrow(p, k) == <<"escrow", k>>

\* Bachs sends an event id; Paystack does not, and the reference stands in.
DedupKey(p, k) == IF Provider = "bachs" THEN <<p, k>> ELSE <<p, "reference">>

Recorded(key) ==
  \E p \in Payments, k \in Kinds :
    hook[p][k] # "unsent" /\ DedupKey(p, k) = key

EventSent(p, k) ==
  \/ k = "success" /\ session[p] = "charged"
  \/ k = "failed" /\ p \in declined

\* The lookup and the insert are one step: the unique constraint decides.  A
\* delivery whose key is recorded is acknowledged and changes nothing.
HookRecord(p, k) ==
  /\ EventSent(p, k)
  /\ ~Recorded(DedupKey(p, k))
  /\ hook' = [hook EXCEPT ![p][k] = "recorded"]
  /\ UNCHANGED <<escrowVars, fundVars, pay, provVars, run, ledger,
                 cancelVars, reopens>>

HookEnqueueConfirm(p) ==
  /\ hook[p]["success"] = "recorded"
  /\ hook' = [hook EXCEPT ![p]["success"] = "handled"]
  /\ run' = [run EXCEPT ![p]["first"] = "queued"]
  /\ UNCHANGED <<escrowVars, fundVars, pay, provVars, ledger, cancelVars,
                 reopens>>

\* payment.failed: an update that does not look at the payment's status.
HookMarkFailed(p) ==
  /\ hook[p]["failed"] = "recorded"
  /\ hook' = [hook EXCEPT ![p]["failed"] = "handled"]
  /\ pay' = [pay EXCEPT ![p] = "Failed"]
  /\ UNCHANGED <<escrowVars, fundVars, provVars, run, ledger, cancelVars,
                 reopens>>

HookCrash(p, k) ==
  /\ "webhook" \in Faults
  /\ hook[p][k] = "recorded"
  /\ hook' = [hook EXCEPT ![p][k] = "lost"]
  /\ UNCHANGED <<escrowVars, fundVars, pay, provVars, run, ledger, cancelVars,
                 reopens>>

-----------------------------------------------------------------------------
(* The payment worker: one run of the confirm job of payment p.             *)

RunStep(p, i, from, to) ==
  /\ run[p][i] = from
  /\ run' = [run EXCEPT ![p][i] = to]

\* Read the payment; anything but Pending ends the run.  The synthetic
\* verification of a Bachs payment follows without an await.
ConfirmRead(p, i) ==
  /\ RunStep(p, i, "queued",
             CASE pay[p] # "Pending" -> "skipped"
               [] pay[p] = "Pending" /\ Provider = "bachs" -> "verified"
               [] OTHER -> "read")
  /\ UNCHANGED <<escrowVars, fundVars, pay, provVars, hook, ledger, cancelVars,
                 reopens>>

\* Paystack's verifyPayment answered success with the amount and currency of
\* the payment ...
SaysPaid(p) == session[p] = "charged"

ConfirmVerified(p, i) ==
  /\ SaysPaid(p)
  /\ RunStep(p, i, "read", "verified")
  /\ UNCHANGED <<escrowVars, fundVars, pay, provVars, hook, ledger, cancelVars,
                 reopens>>

\* ... or something else: not a success, a wrong amount or a wrong currency.
ConfirmNotVerified(p, i) ==
  /\ RunStep(p, i, "read", "rejected")
  /\ UNCHANGED <<escrowVars, fundVars, pay, provVars, hook, ledger, cancelVars,
                 reopens>>

\* The pre-flight read of the escrow.
ConfirmPreflight(p, i) ==
  /\ RunStep(p, i, "verified",
             IF ~expired /\ status \in FundableEscrowStatuses
               THEN "accepted" ELSE "rejected")
  /\ UNCHANGED <<escrowVars, fundVars, pay, provVars, hook, ledger, cancelVars,
                 reopens>>

\* The payment is marked Failed, whatever it has become in the meantime.
ConfirmReject(p, i) ==
  /\ RunStep(p, i, "rejected", "skipped")
  /\ pay' = [pay EXCEPT ![p] = "Failed"]
  /\ UNCHANGED <<escrowVars, fundVars, provVars, hook, ledger, cancelVars,
                 reopens>>

\* Mutant: the update is not conditional.
FundGuardDropped == TRUE

\* The conditional update inside the funding transaction.
FundGuard == status \in FundableEscrowStatuses

\* Mutant: the escrow is left in the transient status.
StatusLeftFunded == "Funded"

StatusOnceFunded == "Held"

\* Mutant: the transaction forgets the ledger row.
LedgerForgotten(p) == ledger

LedgerOnceFunded(p) == ledger \cup {p}

\* Mutant: the funding event is not dispatched after the transaction.
CreditWithoutEvent(p, i) ==
  /\ FundGuard
  /\ p \notin ledger
  /\ RunStep(p, i, "accepted", "skipped")
  /\ status' = StatusOnceFunded
  /\ pay' = [pay EXCEPT ![p] = "Completed"]
  /\ ledger' = LedgerOnceFunded(p)
  /\ UNCHANGED <<expired, expireJob, timer, fundVars, provVars, hook,
                 cancelVars, reopens>>

\* Escrow to Held, payment Completed and the Funding ledger row, in one
\* transaction.  The row's unique reference LDG-<reference> makes a second
\* credit of the same payment fail.
ConfirmCredit(p, i) ==
  /\ FundGuard
  /\ p \notin ledger
  /\ RunStep(p, i, "accepted", "credited")
  /\ status' = StatusOnceFunded
  /\ pay' = [pay EXCEPT ![p] = "Completed"]
  /\ ledger' = LedgerOnceFunded(p)
  /\ UNCHANGED <<expired, expireJob, timer, fundVars, provVars, hook,
                 cancelVars, reopens>>

\* The unique constraint rolls the transaction back and the job fails.
ConfirmDuplicateCredit(p, i) ==
  /\ FundGuard
  /\ p \in ledger
  /\ RunStep(p, i, "accepted", "failed")
  /\ UNCHANGED <<escrowVars, fundVars, pay, provVars, hook, ledger, cancelVars,
                 reopens>>

\* EscrowNotFundableError.
ConfirmNotFundable(p, i) ==
  /\ ~FundGuard
  /\ RunStep(p, i, "accepted", "rejected")
  /\ UNCHANGED <<escrowVars, fundVars, pay, provVars, hook, ledger, cancelVars,
                 reopens>>

\* processedAt and the dispatch of escrow.funded.
ConfirmAnnounce(p, i) ==
  /\ RunStep(p, i, "credited", "announced")
  /\ UNCHANGED <<escrowVars, fundVars, pay, provVars, hook, ledger, cancelVars,
                 reopens>>

\* A provider or database call throws; no job has a retry.
ConfirmThrows(p, i) ==
  /\ "throw" \in Faults
  /\ run[p][i] \in Running
  /\ RunStep(p, i, run[p][i], "failed")
  /\ UNCHANGED <<escrowVars, fundVars, pay, provVars, hook, ledger, cancelVars,
                 reopens>>

WorkerCrash(p, i) ==
  /\ "crash" \in Faults
  /\ run[p][i] \in Running
  /\ RunStep(p, i, run[p][i], "dead")
  /\ UNCHANGED <<escrowVars, fundVars, pay, provVars, hook, ledger, cancelVars,
                 reopens>>

\* The job's lock ran out, with its worker dead or only slow: BullMQ puts the
\* job back once (maxStalledCount is 1 by default).
JobStalls(p) ==
  /\ "stall" \in Faults
  /\ run[p]["first"] \in Running \cup {"dead"}
  /\ RunStep(p, "rerun", "none", "queued")
  /\ UNCHANGED <<escrowVars, fundVars, pay, provVars, hook, ledger, cancelVars,
                 reopens>>

-----------------------------------------------------------------------------
(* Cancellation and expiry.                                                 *)

CancelLoad(c) ==
  /\ cancel[c] = "idle"
  /\ cancel' = [cancel EXCEPT ![c] =
                  IF CanTransition(status, "Cancelled") THEN "loaded" ELSE "done"]
  /\ cancelSeen' = [cancelSeen EXCEPT ![c] = status]
  /\ UNCHANGED <<escrowVars, fundVars, pay, provVars, hook, run, ledger,
                 reopens>>

\* Mutant: the update is by id only.
CancelGuardDropped(c) == TRUE

\* updateMany where status is the one loaded; otherwise the answer is 409.
CancelGuard(c) == status = cancelSeen[c]

CancelCommit(c) ==
  /\ cancel[c] = "loaded"
  /\ cancel' = [cancel EXCEPT ![c] = "done"]
  /\ status' = IF CancelGuard(c) THEN "Cancelled" ELSE status
  /\ UNCHANGED <<expired, expireJob, timer, fundVars, pay, provVars, hook, run,
                 ledger, cancelSeen, reopens>>

TimePasses ==
  /\ HasExpiry
  /\ ~expired
  /\ expired' = TRUE
  /\ UNCHANGED <<status, expireJob, timer, fundVars, pay, provVars, hook, run,
                 ledger, cancelVars, reopens>>

ExpireRead ==
  /\ expired
  /\ expireJob = "scheduled"
  /\ expireJob' = IF status \in FundableEscrowStatuses THEN "read" ELSE "done"
  /\ UNCHANGED <<status, expired, timer, fundVars, pay, provVars, hook, run,
                 ledger, cancelVars, reopens>>

\* An update by id: the status read before is not checked again.
ExpireWrite ==
  /\ expireJob = "read"
  /\ expireJob' = "done"
  /\ status' = "Cancelled"
  /\ UNCHANGED <<expired, timer, fundVars, pay, provVars, hook, run, ledger,
                 cancelVars, reopens>>

\* A stalled job is run again from its first read, or fails at its second stall.
ExpireCrash ==
  /\ "crash" \in Faults
  /\ expireJob = "read"
  /\ expireJob' \in {"scheduled", "done"}
  /\ UNCHANGED <<status, expired, timer, fundVars, pay, provVars, hook, run,
                 ledger, cancelVars, reopens>>

\* rescheduleExpiryJobs at start-up.
RescheduleExpiry ==
  /\ HasExpiry
  /\ expireJob = "absent"
  /\ status \in FundableEscrowStatuses
  /\ ~expired
  /\ expireJob' = "scheduled"
  /\ UNCHANGED <<status, expired, timer, fundVars, pay, provVars, hook, run,
                 ledger, cancelVars, reopens>>

\* Release, refund, review and dispute of a funded escrow by the parties, an admin
\* or the last milestone's payout: every one of them is guarded by the status it
\* replaces (modules Settlement and Milestones).
SettlementMoves ==
  /\ status \in {"Held", "AwaitingAction", "Disputed"}
  /\ \E s \in SettlesTo : CanTransition(status, s) /\ status' = s
  /\ UNCHANGED <<expired, expireJob, timer, fundVars, pay, provVars, hook, run,
                 ledger, cancelVars, reopens>>

\* The auto-release job, which the funding event added; release and dispute may
\* have removed it again, and then it never runs.
TimerRead ==
  /\ "Released" \in SettlesTo
  /\ timer = "waiting"
  /\ \E p \in Payments, i \in Runs : run[p][i] = "announced"
  /\ timer' = IF status \in {"Held", "AwaitingAction"} THEN "read" ELSE "done"
  /\ UNCHANGED <<status, expired, expireJob, fundVars, pay, provVars, hook, run,
                 ledger, cancelVars, reopens>>

\* An update by id: the status read before is not checked again.
TimerWrite ==
  /\ timer = "read"
  /\ timer' = "done"
  /\ status' = "Released"
  /\ UNCHANGED <<expired, expireJob, fundVars, pay, provVars, hook, run, ledger,
                 cancelVars, reopens>>

\* A stalled job is run again from its first read, or fails at its second stall.
TimerCrash ==
  /\ "crash" \in Faults
  /\ timer = "read"
  /\ timer' \in {"waiting", "done"}
  /\ UNCHANGED <<status, expired, expireJob, fundVars, pay, provVars, hook, run,
                 ledger, cancelVars, reopens>>

-----------------------------------------------------------------------------

FundNext(r) ==
  \/ TokenRead(r) \/ TokenConsume(r) \/ FundRefused(r) \/ FundLoad(r)
  \/ FundCheckPending(r) \/ FundReissue(r) \/ FundCreatePayment(r)
  \/ FundInitiate(r) \/ FundProviderError(r) \/ FundMarkFailed(r)
  \/ FundCommit(r)

PayerNext(p) == PayerPays(p) \/ PayerDeclined(p)

HookStep(p) == HookEnqueueConfirm(p) \/ HookMarkFailed(p)

ConfirmStep(p, i) ==
  \/ ConfirmRead(p, i) \/ ConfirmVerified(p, i) \/ ConfirmNotVerified(p, i)
  \/ ConfirmPreflight(p, i) \/ ConfirmReject(p, i) \/ ConfirmCredit(p, i)
  \/ ConfirmDuplicateCredit(p, i) \/ ConfirmNotFundable(p, i)
  \/ ConfirmAnnounce(p, i)

RunFault(p, i) == ConfirmThrows(p, i) \/ WorkerCrash(p, i)

ExpiryNext == ExpireRead \/ ExpireWrite \/ ExpireCrash \/ RescheduleExpiry

SettlementNext == SettlementMoves \/ TimerRead \/ TimerWrite \/ TimerCrash

Next ==
  \/ \E r \in Payments : FundNext(r) \/ FundCrash(r)
  \/ \E t \in Tokens : TokenExpires(t)
  \/ \E p \in Payments : PayerNext(p) \/ HookStep(p) \/ JobStalls(p)
  \/ \E p \in Payments, k \in Kinds : HookRecord(p, k) \/ HookCrash(p, k)
  \/ \E p \in Payments, i \in Runs : ConfirmStep(p, i) \/ RunFault(p, i)
  \/ \E c \in Cancels : CancelLoad(c) \/ CancelCommit(c)
  \/ TimePasses \/ ExpiryNext \/ SettlementNext

Spec == Init /\ [][Next]_vars

\* The provider delivers the webhook of a charge until it is acknowledged, the
\* handler that recorded it goes on, and the worker takes queued jobs and goes on
\* with them.  Nothing is asked of the requests, the payer, the clock, the parties
\* or the other jobs.
Fairness ==
  \A p \in Payments :
    /\ WF_vars(HookRecord(p, "success"))
    /\ WF_vars(HookEnqueueConfirm(p))
    /\ \A i \in Runs : WF_vars(ConfirmStep(p, i))

FairSpec == Spec /\ Fairness
-----------------------------------------------------------------------------
(* Properties.                                                              *)

\* Every variable keeps to its values, and nobody ever reads an escrow in
\* Funded: the worker goes through it inside its transaction.
TypeOK ==
  /\ status \in EscrowStatus \ {"Funded"}
  /\ expired \in BOOLEAN
  /\ expireJob \in {"absent", "scheduled", "read", "done"}
  /\ timer \in {"waiting", "read", "done"}
  /\ fund \in [Payments -> FundPC]
  /\ seen \in [Payments -> EscrowStatus]
  /\ pay \in [Payments -> {"none", "Pending", "Completed", "Failed"}]
  /\ token \subseteq Tokens
  /\ session \in [Payments -> {"none", "open", "charged"}]
  /\ declined \subseteq Payments
  /\ hook \in [Payments -> [Kinds -> {"unsent", "recorded", "handled", "lost"}]]
  /\ run \in [Payments -> [Runs -> RunPC]]
  /\ ledger \subseteq Payments
  /\ cancel \in [Cancels -> {"idle", "loaded", "done"}]
  /\ cancelSeen \in [Cancels -> EscrowStatus]
  /\ reopens \in Nat

\* An escrow counts as funded only with a charge behind it: in every status
\* from Held on, some Funding row belongs to a payment the provider charged.
FundedIsBacked ==
  status \in CreditedStatuses => \E p \in ledger : session[p] = "charged"

\* The conditional update credits an escrow once.  Every further credit needs a
\* fund request that committed late and put a funded or cancelled escrow back
\* to AwaitingPayment; nothing else in the code makes a second credit possible.
CreditsBoundedByReopens == Cardinality(ledger) <= 1 + reopens

\* Every status change is a row of the table, but for the three updates that do
\* not check the status they replace: the commit of a fund request, the expiry
\* job's write and the auto-release timer's.
OnlyBlindWritesLeaveTheTable ==
  [][status' # status =>
       \/ <<status, status'>> \in ObservableTransitions
       \/ ExpireWrite \/ TimerWrite
       \/ \E r \in Payments : FundCommit(r)]_vars

\* One token never lets the payer pay twice.  Of the checkout sessions opened with
\* it at most one belongs to a request that went on with it or died; every other is
\* one whose answer was lost before the token was handed back: its request has
\* answered with the error, so nobody has the link, and its payment is Failed, so
\* that no run would credit it.
OneLinkPerToken ==
  \A t \in Tokens :
    LET opened == {p \in Payments : TokenOf[p] = t /\ session[p] # "none"}
    IN  /\ Cardinality({p \in opened : fund[p] # "answered"}) <= 1
        /\ \A p \in opened : fund[p] = "answered" => pay[p] = "Failed"

\* A fund token leaves Redis only for a reason: some request holds it now, or
\* took it and ended with a checkout link, in a check of the escrow that failed
\* (which the code does not compensate) or in a crash.  A conflict with a pending
\* payment and a provider error always hand the token back.
TokenNotLost ==
  \A t \in Tokens \ token :
    \/ "ttl" \in Faults
    \/ \E r \in Payments :
         /\ TokenOf[r] = t
         /\ fund[r] \notin {"idle", "tokenRead", "denied", "answered"}

\* The provider's money is always accounted for: once the payer is charged the
\* payment ends Completed or Failed (for reconciliation), never stays Pending.
ChargeResolved ==
  \A p \in Payments :
    session[p] = "charged" ~> pay[p] \in {"Completed", "Failed"}

\* A credit is followed by escrow.funded, which starts the release timer and
\* tells both parties.
CreditAnnounced ==
  \A p \in Payments :
    p \in ledger ~> \E i \in Runs : run[p][i] = "announced"

=============================================================================
