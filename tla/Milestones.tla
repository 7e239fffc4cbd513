----------------------------- MODULE Milestones -----------------------------
(***************************************************************************)
(* A funded milestone escrow, from Held to its end: milestones are         *)
(* submitted, approved by the payer or by the review timeout, and paid one *)
(* by one; the last payout closes the escrow, unless a release, a refund   *)
(* or a dispute closes it first and settles what it takes for the rest.    *)
(*                                                                         *)
(* Milestone rows are written by id, without a guard.  Every await of a    *)
(* handler ends an action.  The capability and balance checks of a payout  *)
(* are module Payout's; here a job is put off, or dropped where it is put  *)
(* off again under an id that the queue knows.                             *)
(***************************************************************************)
EXTENDS EscrowTypes, FiniteSetsExt, Integers

CONSTANTS
  Milestone,
  Already,     \* the milestones that have been approved, their payout queued
  Amount,      \* Milestone.amount, in cents
  EscrowAmount, \* Escrow.amount, in cents: the rounded sum of what was asked for
  Request,
  Op,          \* Op[r]: what request r asks for
  Target,      \* Target[r]: the milestone it names
  Closers,     \* the operations on the whole escrow that are tried
  Flaky        \* the milestones whose payout meets with a failure

Operations == {"release", "refund", "acceptRelease", "acceptRefund"}

SumOf(S) == MapThenSumSet(LAMBDA m : Amount[m], S)

\* The total and each milestone are rounded to cents on their own, so that they are
\* apart by less than half a cent for each of them.
RoundingError == Cardinality(Milestone) \div 2

Rounding == -RoundingError .. RoundingError

ASSUME MilestonesAssumption ==
  /\ IsFiniteSet(Milestone)
  /\ Already \subseteq Milestone
  /\ Amount \in [Milestone -> Nat \ {0}]
  /\ EscrowAmount \in Nat \ {0}
  /\ EscrowAmount - SumOf(Milestone) \in Rounding
  /\ Op \in [Request -> {"submit", "approve"}]
  /\ Target \in [Request -> Milestone]
  /\ Closers \subseteq Operations
  /\ Flaky \subseteq Milestone

\* InProgress is a status too, but nothing ever writes it.
MilestoneStatus == {"Pending", "Submitted", "Approved", "Released"}

Follows(from, to) ==
  <<from, to>> \in {<<"Pending", "Submitted">>, <<"Submitted", "Approved">>,
                    <<"Approved", "Released">>}

Runs == {"first", "again"}   \* a job that was put off or has stalled runs again

RunActive == {"transferred", "entered", "marked", "closing"}
RunPC == RunActive \cup {"none", "waiting", "done", "failed", "dropped"}

VARIABLES
  status,     \* escrow.status
  mstatus,    \* Milestone.status
  pc, saw,    \* each request, and the status of its milestone it loaded
  event,      \* the milestone.submitted or milestone.approved event of a request
  review,     \* the review-timeout job of a milestone
  run,        \* the payout runs of a milestone's job
  transfers,  \* milestones transferred to the payee
  rows,       \* milestones with a Release row in the ledger
  closer,     \* each operation on the escrow
  paidThen,   \* the milestones it found Released
  full,       \* the payout of the whole escrow's amount
  refund,     \* the operation whose refund the provider made
  closed      \* who closed the escrow: an operation or the last payout

requestVars == <<pc, saw, event, review>>
payoutVars == <<run, transfers, rows>>
closeVars == <<closer, paidThen, full, refund>>
vars == <<status, mstatus, pc, saw, event, review, run, transfers, rows,
          closer, paidThen, full, refund, closed>>

Init ==
  /\ status = "Held"
  /\ mstatus = [m \in Milestone |-> IF m \in Already THEN "Approved" ELSE "Pending"]
  /\ pc = [r \in Request |-> "idle"]
  /\ saw = [r \in Request |-> "Pending"]
  /\ event = [r \in Request |-> "none"]
  /\ review = [m \in Milestone |-> "none"]
  /\ run = [m \in Milestone |-> [i \in Runs |->
              IF m \in Already /\ i = "first" THEN "waiting" ELSE "none"]]
  /\ transfers = {}
  /\ rows = {}
  /\ closer = [k \in Operations |-> "idle"]
  /\ paidThen = [k \in Operations |-> {}]
  /\ full = "none"
  /\ refund = "none"
  /\ closed = "nobody"

-----------------------------------------------------------------------------
(* submitMilestone and approveMilestone.                                    *)

Step(r, from, to) ==
  /\ pc[r] = from
  /\ pc' = [pc EXCEPT ![r] = to]

\* Both load the escrow and the milestone side by side.  Held is never entered
\* again, so loading the escrow first covers the other order.
LoadEscrow(r) ==
  /\ status = "Held"
  /\ Step(r, "idle", "active")
  /\ UNCHANGED <<status, mstatus, saw, event, review, payoutVars, closeVars, closed>>

\* Mutant: a milestone can be submitted or approved in any status.
PermittedAlways(o, s) == TRUE

\* canBeSubmitted, canBeApproved.
Permitted(o, s) == s = IF o = "submit" THEN "Pending" ELSE "Submitted"

LoadMilestone(r) ==
  LET s == mstatus[Target[r]] IN
  /\ Step(r, "active", IF Permitted(Op[r], s) THEN "cleared" ELSE "refused")
  /\ saw' = [saw EXCEPT ![r] = s]
  /\ UNCHANGED <<status, mstatus, event, review, payoutVars, closeVars, closed>>

\* Mutant: a submitted milestone is put in progress.
CommitInProgress(r) ==
  /\ Step(r, "cleared", "committed")
  /\ mstatus' = [mstatus EXCEPT ![Target[r]] =
                   IF Op[r] = "submit" THEN "InProgress" ELSE "Approved"]
  /\ UNCHANGED <<status, saw, event, review, payoutVars, closeVars, closed>>

\* The update is by id: neither status is looked at again.
Commit(r) ==
  /\ Step(r, "cleared", "committed")
  /\ mstatus' = [mstatus EXCEPT ![Target[r]] =
                   IF Op[r] = "submit" THEN "Submitted" ELSE "Approved"]
  /\ UNCHANGED <<status, saw, event, review, payoutVars, closeVars, closed>>

Dispatch(r) ==
  /\ Step(r, "committed", IF Op[r] = "submit" THEN "done" ELSE "dispatched")
  /\ event' = [event EXCEPT ![r] = "queued"]
  /\ UNCHANGED <<status, mstatus, saw, review, payoutVars, closeVars, closed>>

\* Mutant: the job id names the escrow, not the milestone.
AddPayoutOfEscrow(m) ==
  run' = IF \A n \in Milestone : run[n]["first"] = "none"
         THEN [run EXCEPT ![m]["first"] = "waiting"]
         ELSE run

\* queue.add of payout-milestone-<id>: a job the queue knows is not added again.
AddPayout(m) ==
  run' = IF run[m]["first"] = "none"
         THEN [run EXCEPT ![m]["first"] = "waiting"]
         ELSE run

ApproveEnqueue(r) ==
  /\ Step(r, "dispatched", "done")
  /\ AddPayout(Target[r])
  /\ UNCHANGED <<status, mstatus, saw, event, review, transfers, rows, closeVars,
                 closed>>

-----------------------------------------------------------------------------
(* The escrow worker: milestone events and the review timeout.              *)

EventStep(r, from, to) ==
  /\ event[r] = from
  /\ event' = [event EXCEPT ![r] = to]
  /\ UNCHANGED <<status, mstatus, pc, saw, transfers, rows, closeVars, closed>>

\* A job review-timeout:<id> that has run is still known.  Nothing obliges the
\* event to be handled, so a queue that refused such an id is covered.
HandleSubmitted(r) ==
  /\ Op[r] = "submit"
  /\ EventStep(r, "queued", "done")
  /\ review' = IF review[Target[r]] = "none"
               THEN [review EXCEPT ![Target[r]] = "delayed"] ELSE review
  /\ UNCHANGED run

\* queue.remove takes a job that waits or has finished, not one that runs.
HandleApproved(r) ==
  /\ Op[r] = "approve"
  /\ EventStep(r, "queued", "removed")
  /\ review' = IF review[Target[r]] = "approving"
               THEN review ELSE [review EXCEPT ![Target[r]] = "none"]
  /\ UNCHANGED run

HandleApprovedEnqueue(r) ==
  /\ EventStep(r, "removed", "done")
  /\ AddPayout(Target[r])
  /\ UNCHANGED review

ReviewStep(m, from, to) ==
  /\ review[m] = from
  /\ review' = [review EXCEPT ![m] = to]
  /\ UNCHANGED <<status, pc, saw, event, payoutVars, closeVars, closed>>

ReviewRead(m) ==
  /\ ReviewStep(m, "delayed", IF mstatus[m] = "Submitted" THEN "approving" ELSE "over")
  /\ UNCHANGED mstatus

\* The milestone is approved by id, and no payout is enqueued.
ReviewApprove(m) ==
  /\ ReviewStep(m, "approving", "over")
  /\ mstatus' = [mstatus EXCEPT ![m] = "Approved"]

-----------------------------------------------------------------------------
(* handleProcessPayout with a milestoneId.                                  *)

RunStep(m, i, from, to) ==
  /\ run[m][i] = from
  /\ run' = [run EXCEPT ![m][i] = to]

\* One idempotency key per milestone.
Transfer(m, i) ==
  /\ RunStep(m, i, "waiting", "transferred")
  /\ transfers' = transfers \cup {m}
  /\ UNCHANGED <<status, mstatus, requestVars, rows, closeVars, closed>>

\* Mutant: a milestone payout leaves no row.
EnterRowForgotten(m, i) ==
  /\ RunStep(m, i, "transferred", "entered")
  /\ UNCHANGED <<status, mstatus, requestVars, transfers, rows, closeVars, closed>>

\* Both runs carry one reference, and the ledger's references are unique.
EnterRow(m, i) ==
  /\ RunStep(m, i, "transferred", IF m \in rows THEN "failed" ELSE "entered")
  /\ rows' = rows \cup {m}
  /\ UNCHANGED <<status, mstatus, requestVars, transfers, closeVars, closed>>

\* Mutant: an approved milestone counts as done.
AllReleasedOrApproved ==
  \A m \in Milestone : mstatus[m] \in {"Approved", "Released"}

AllReleased == \A m \in Milestone : mstatus[m] = "Released"

\* Mutant: the statuses are read before the milestone is marked.
MarkReleasedReadBefore(m, i) ==
  /\ RunStep(m, i, "entered", IF AllReleased THEN "closing" ELSE "done")
  /\ mstatus' = [mstatus EXCEPT ![m] = "Released"]
  /\ UNCHANGED <<status, requestVars, transfers, rows, closeVars, closed>>

MarkReleased(m, i) ==
  /\ RunStep(m, i, "entered", "marked")
  /\ mstatus' = [mstatus EXCEPT ![m] = "Released"]
  /\ UNCHANGED <<status, requestVars, transfers, rows, closeVars, closed>>

ReadAll(m, i) ==
  /\ RunStep(m, i, "marked", IF AllReleased THEN "closing" ELSE "done")
  /\ UNCHANGED <<status, mstatus, requestVars, transfers, rows, closeVars, closed>>

AutoClose(m, i) ==
  /\ RunStep(m, i, "closing", "done")
  /\ IF status = "Held"
     THEN status' = "Released" /\ closed' = "payout"
     ELSE UNCHANGED <<status, closed>>
  /\ UNCHANGED <<mstatus, requestVars, transfers, rows, closeVars>>

\* A run throws or its worker dies: no job is retried.
RunEnds(m, i) ==
  /\ m \in Flaky
  /\ run[m][i] \in RunActive
  /\ RunStep(m, i, run[m][i], "failed")
  /\ UNCHANGED <<status, mstatus, requestVars, transfers, rows, closeVars, closed>>

\* A capability or the balance is missing and the job is put off, or its lock is
\* lost and it runs again beside its slow first run.
RunsAgain(m) ==
  /\ m \in Flaky
  /\ run[m]["first"] \in RunActive \cup {"waiting"}
  /\ run[m]["again"] = "none"
  /\ run' = [run EXCEPT ![m] =
       [first |-> IF @["first"] = "waiting" THEN "done" ELSE @["first"],
        again |-> "waiting"]]
  /\ UNCHANGED <<status, mstatus, requestVars, transfers, rows, closeVars, closed>>

\* The job that was put off is put off again.  The queue knows the id of that retry
\* and adds nothing: the run ends without a transfer, a failure or a successor.
\* Under the id of the other retry the payout goes on waiting.
RunDropped(m) ==
  /\ m \in Flaky
  /\ RunStep(m, "again", "waiting", "dropped")
  /\ UNCHANGED <<status, mstatus, requestVars, transfers, rows, closeVars, closed>>

-----------------------------------------------------------------------------
(* Operations on the escrow: the steps of module Settlement that a milestone *)
(* escrow takes in its own way.                                             *)

From == [release |-> "Held", refund |-> "AwaitingAction",
         acceptRelease |-> "Disputed", acceptRefund |-> "Disputed"]

Refunding == {"refund", "acceptRefund"}

ReleasedMilestones == {m \in Milestone : mstatus[m] = "Released"}

\* moveToReview and openDispute, when something is tried from there.
LeaveHeld ==
  /\ \E s \in {"AwaitingAction", "Disputed"} \cap {From[k] : k \in Closers} :
       CanTransition(status, s) /\ status' = s
  /\ UNCHANGED <<mstatus, requestVars, payoutVars, closeVars, closed>>

CloserStep(k, from, to) ==
  /\ k \in Closers
  /\ closer[k] = from
  /\ closer' = [closer EXCEPT ![k] = to]
  /\ UNCHANGED <<mstatus, requestVars, payoutVars>>

\* The status check, and what remainingBalance will be computed from.
CloserLoad(k) ==
  /\ status = From[k]
  /\ CloserStep(k, "idle", IF k \in Refunding THEN "refunding" ELSE "ready")
  /\ paidThen' = [paidThen EXCEPT ![k] = ReleasedMilestones]
  /\ UNCHANGED <<status, full, refund, closed>>

\* executeRefund of the remaining balance, under one key per escrow.  Whether the
\* provider takes an amount that is not positive is left open.
CloserRefund(k) ==
  /\ CloserStep(k, "refunding", "ready")
  /\ refund' = IF refund = "none" THEN k ELSE refund
  /\ UNCHANGED <<status, paidThen, full, closed>>

CloserCommit(k) ==
  /\ IF status = From[k]
     THEN /\ CloserStep(k, "ready", "committed")
          /\ status' = IF k \in Refunding THEN "Refunded" ELSE "Released"
          /\ closed' = k
     ELSE /\ CloserStep(k, "ready", "conflict")
          /\ UNCHANGED <<status, closed>>
  /\ UNCHANGED <<paidThen, full, refund>>

\* A release's event is handled by adding a payout of the escrow's amount, and
\* a resolution adds one itself.
CloserPayout(k) ==
  /\ k \notin Refunding
  /\ CloserStep(k, "committed", "done")
  /\ full' = "queued"
  /\ UNCHANGED <<status, paidThen, refund, closed>>

FullTransfer ==
  /\ full = "queued"
  /\ full' = "paid"
  /\ UNCHANGED <<status, mstatus, requestVars, payoutVars, closer, paidThen, refund,
                 closed>>

-----------------------------------------------------------------------------

RequestGoesOn(r) ==
  LoadMilestone(r) \/ Commit(r) \/ Dispatch(r) \/ ApproveEnqueue(r)
RequestNext(r) == LoadEscrow(r) \/ RequestGoesOn(r)
EventNext(r) ==
  HandleSubmitted(r) \/ HandleApproved(r) \/ HandleApprovedEnqueue(r)
ReviewNext(m) == ReviewRead(m) \/ ReviewApprove(m)
RunGoesOn(m, i) ==
  Transfer(m, i) \/ EnterRow(m, i) \/ MarkReleased(m, i) \/ ReadAll(m, i) \/ AutoClose(m, i)
CloserNext(k) ==
  CloserLoad(k) \/ CloserRefund(k) \/ CloserCommit(k) \/ CloserPayout(k)

Next ==
  \/ \E r \in Request : RequestNext(r) \/ EventNext(r)
  \/ \E m \in Milestone : ReviewNext(m) \/ RunsAgain(m) \/ RunDropped(m)
  \/ \E m \in Milestone, i \in Runs : RunGoesOn(m, i) \/ RunEnds(m, i)
  \/ \E k \in Operations : CloserNext(k)
  \/ LeaveHeld \/ FullTransfer

Spec == Init /\ [][Next]_vars

\* A request that has begun and a queued payout take their steps.  Nobody has to
\* ask for anything, the review timeout may be far away, and the payout does not
\* depend on the event.
Fairness ==
  /\ \A r \in Request : WF_vars(RequestGoesOn(r))
  /\ \A m \in Milestone, i \in Runs : WF_vars(RunGoesOn(m, i))

FairSpec == Spec /\ Fairness
-----------------------------------------------------------------------------
(* Money.                                                                   *)

\* Mutant: nothing has been paid out yet.
RemainingBalanceFull(k) == EscrowAmount

\* What operation k took for the balance not yet paid out.
RemainingBalance(k) == EscrowAmount - SumOf(paidThen[k])

PaidOut == SumOf(transfers) + (IF full = "paid" THEN EscrowAmount ELSE 0)

Returned == IF refund = "none" THEN 0 ELSE RemainingBalance(refund)

\* Only a release looks whether there is anything left to enter.
RowOf(k) ==
  IF k = "release" /\ RemainingBalance(k) <= 0 THEN 0 ELSE RemainingBalance(k)

\* getLedgerBalance: Funding less Release and Refund rows.  Of the operations
\* only the one that closes the escrow writes a row.
LedgerHeld ==
  EscrowAmount - SumOf(rows) - (IF closed \in Operations THEN RowOf(closed) ELSE 0)
-----------------------------------------------------------------------------
(* Properties.                                                              *)

\* Every variable keeps to its values.
TypeOK ==
  /\ status \in EscrowStatus
  /\ mstatus \in [Milestone -> MilestoneStatus]
  /\ pc \in [Request -> {"idle", "active", "cleared", "refused", "committed",
                         "dispatched", "done"}]
  /\ saw \in [Request -> MilestoneStatus]
  /\ event \in [Request -> {"none", "queued", "removed", "done"}]
  /\ review \in [Milestone -> {"none", "delayed", "approving", "over"}]
  /\ run \in [Milestone -> [Runs -> RunPC]]
  /\ transfers \subseteq Milestone
  /\ rows \subseteq Milestone
  /\ closer \in [Operations -> {"idle", "refunding", "ready", "committed",
                                "conflict", "done"}]
  /\ paidThen \in [Operations -> SUBSET Milestone]
  /\ full \in {"none", "queued", "paid"}
  /\ refund \in Refunding \cup {"none"}
  /\ closed \in Operations \cup {"payout", "nobody"}

\* Whatever approvals, timeouts, stalls and failed runs precede it, a milestone
\* marked Released has been transferred and is in the ledger, and the ledger
\* names no milestone that was not transferred.
ReleasedIsOnTheBooks ==
  /\ ReleasedMilestones \subseteq rows
  /\ rows \subseteq transfers

\* Two last payouts look at each other's status to close the escrow; none closes
\* it before every milestone has been transferred and entered, or over an
\* operation that released or refunded it.
AutoClosedIsPaidOut ==
  closed = "payout" =>
    /\ transfers = Milestone
    /\ rows = Milestone
    /\ \A k \in Operations : closer[k] \notin {"committed", "done"}

\* What a refund keeps back has reached the payee, and what goes out beyond the
\* escrow's amount is, to the cent, the milestones that were paid while the refund
\* still counted them as unpaid; short of that only a payout of the full amount
\* pays more than the rounding of the milestones.  The ledger is overdrawn by just
\* such milestones; it is out by the rounding alone when the last payout closes the
\* escrow, and after a release that found no more than that left.
OverpaidOnlyInFlight ==
  /\ full # "paid" =>
       IF refund = "none" THEN PaidOut <= EscrowAmount + RoundingError
       ELSE PaidOut + Returned = EscrowAmount + SumOf(transfers \ paidThen[refund])
  /\ closed \in Operations =>
       LedgerHeld + SumOf(rows \ paidThen[closed])
         \in IF closed = "release" /\ RemainingBalance(closed) < 0 THEN Rounding ELSE {0}
  /\ closed = "payout" => LedgerHeld \in Rounding

Rank == [Pending |-> 0, Submitted |-> 1, Approved |-> 2, Released |-> 3]

\* A write that was decided on a status the milestone no longer has.
LateWrite(m) ==
  \/ \E r \in Request : /\ Target[r] = m /\ pc[r] = "cleared" /\ pc'[r] = "committed"
                        /\ saw[r] # mstatus[m]
  \/ review[m] = "approving" /\ mstatus[m] # "Submitted"

\* A milestone goes back, as from Released to Approved, only by a late write: by
\* the request or the review timeout that read it before the others acted.
BackOnlyByLateWrite ==
  [][\A m \in Milestone :
       Rank[mstatus'[m]] < Rank[mstatus[m]] => LateWrite(m)]_vars

RunFailed(m) == \E i \in Runs : run[m][i] = "failed"

\* Whoever marks the last milestone sees that it is the last: the escrow does not
\* stay Held while all of them are Released, unless a run failed.
PaidUpIsClosed ==
  ReleasedMilestones = Milestone
    ~> \/ status # "Held" \/ ReleasedMilestones # Milestone
       \/ \E m \in Milestone : RunFailed(m)

\* The payout was put off twice under one id.
PayoutDropped(m) == run[m]["again"] = "dropped"

\* A milestone the payer approved is paid, unless its payout failed or was dropped
\* when it had to be put off once more.
ApprovalIsPaid ==
  \A r \in {r \in Request : Op[r] = "approve"} :
    pc[r] = "committed" ~>
      \/ Target[r] \in transfers
      \/ RunFailed(Target[r]) \/ PayoutDropped(Target[r])
-----------------------------------------------------------------------------
(* What a comment says and the code does not do.                            *)

\* escrow.service.ts:789-791 "no separate transfer is created, preventing a
\* double-payment against already-queued milestone payouts": the payee is not
\* paid more than the escrow's amount, give or take the rounding.
PaidWithinAmount == PaidOut <= EscrowAmount + RoundingError
=============================================================================
