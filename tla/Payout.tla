------------------------------ MODULE Payout -------------------------------
(***************************************************************************)
(* Paying out one released, non-milestone escrow: the payout worker's job  *)
(* and its delayed retries, the transfer at the provider, and the webhook  *)
(* connect.transfer_created that confirms it.  It begins where module      *)
(* Settlement ends, with the job payout-<escrowId> in the queue.           *)
(*                                                                         *)
(* BullMQ ignores an add whose job id it still knows, and it knows a job   *)
(* until somebody removes it: nobody does, not even when it has finished.  *)
(* Every await of the handler ends an action.                              *)
(***************************************************************************)
EXTENDS FiniteSets, Naturals

CONSTANTS
  MaxCapabilityRetries,  \* MAX_CAPABILITY_RETRIES: 24
  Faults

FaultKinds ==
  {"end",       \* a run throws or its worker dies: no job is retried
   "stall",     \* a job's lock is lost, with its worker dead or only slow, and
                \* BullMQ runs it again
   "webhook"}   \* the process dies between recording the webhook and using it

ASSUME PayoutAssumption ==
  /\ MaxCapabilityRetries \in Nat \ {0}
  /\ Faults \subseteq FaultKinds

Jobs == {"payout", "cap-retry", "bal-retry"}   \* the job ids of the escrow
Runs == {"first", "rerun"}   \* a stalled job is run a second time, once

Pending == {"waiting", "capable", "incapable", "covered", "uncovered",
            "transferred"}

RunPC ==
  Pending \cup {"none", "requeued", "gaveUp", "done", "failed"}

VARIABLES
  run,        \* the runs of each job; a job exists once its first run does
  tries,      \* capabilityRetryCount in each job's payload
  transfers,  \* idempotency keys under which the provider made a transfer
  initiated,  \* PayoutInitiated rows
  hook,       \* the connect.transfer_created webhook
  confirmed   \* PayoutConfirmed rows

recordVars == <<initiated, hook, confirmed>>
vars == <<run, tries, transfers, initiated, hook, confirmed>>

Init ==
  /\ run = [j \in Jobs |-> [i \in Runs |->
              IF j = "payout" /\ i = "first" THEN "waiting" ELSE "none"]]
  /\ tries = [j \in Jobs |-> 0]
  /\ transfers = {}
  /\ initiated = 0
  /\ hook = "unsent"
  /\ confirmed = 0

-----------------------------------------------------------------------------
(* handleProcessPayout, run i of job j.                                     *)

RunStep(j, i, from, to) ==
  /\ run[j][i] = from
  /\ run' = [run EXCEPT ![j][i] = to]

CapabilityActive(j, i) ==
  /\ RunStep(j, i, "waiting", "capable")
  /\ UNCHANGED <<tries, transfers, recordVars>>

CapabilityMissing(j, i) ==
  /\ RunStep(j, i, "waiting",
             IF tries[j] + 1 > MaxCapabilityRetries THEN "gaveUp" ELSE "incapable")
  /\ UNCHANGED <<tries, transfers, recordVars>>

\* Mutant: a finished or running job can be added again.
KnownNever(k) == FALSE

Known(k) == run[k]["first"] # "none"

\* queue.add: job k with retry count n, unless the queue knows k.
Requeue(j, i, from, k, n) ==
  /\ run[j][i] = from
  /\ IF Known(k)
     THEN /\ run' = [run EXCEPT ![j][i] = "requeued"]
          /\ UNCHANGED tries
     ELSE /\ run' = [run EXCEPT ![j][i] = "requeued", ![k]["first"] = "waiting"]
          /\ tries' = [tries EXCEPT ![k] = n]
  /\ UNCHANGED <<transfers, recordVars>>

\* Mutant: a retry keeps the id of the job.
CapRetryOwnId(j) == j

CapRetryId(j) == "cap-retry"

RequeueForCapability(j, i) ==
  Requeue(j, i, "incapable", CapRetryId(j), tries[j] + 1)

\* The amount is on the platform's available balance, or it is not.
BalanceCovers(j, i) ==
  /\ RunStep(j, i, "capable", "covered")
  /\ UNCHANGED <<tries, transfers, recordVars>>

BalanceShort(j, i) ==
  /\ RunStep(j, i, "capable", "uncovered")
  /\ UNCHANGED <<tries, transfers, recordVars>>

RequeueForBalance(j, i) ==
  Requeue(j, i, "uncovered", "bal-retry", tries[j])

TransferKey(j) == "payout-escrow"

\* Mutant: the run ends with the transfer.
AfterTransferEnds == "done"

AfterTransfer == "transferred"

\* createTransfer: one transfer per idempotency key.
TransferMade(j) == transfers' = transfers \cup {TransferKey(j)}

Transfer(j, i) ==
  /\ RunStep(j, i, "covered", AfterTransfer)
  /\ TransferMade(j)
  /\ UNCHANGED <<tries, recordVars>>

RecordInitiated(j, i) ==
  /\ RunStep(j, i, "transferred", "done")
  /\ initiated' = initiated + 1
  /\ UNCHANGED <<tries, transfers, hook, confirmed>>

\* After the transfer too: the client gives up on its answer after 10 seconds.
RunEnds(j, i) ==
  /\ "end" \in Faults
  /\ run[j][i] \in Pending \ {"waiting"}
  /\ RunStep(j, i, run[j][i], "failed")
  /\ UNCHANGED <<tries, transfers, recordVars>>

\* The job goes back once; a worker that died ends its run (RunEnds) afterwards.
JobStalls(j) ==
  /\ "stall" \in Faults
  /\ run[j]["first"] \in Pending \ {"waiting"}
  /\ RunStep(j, "rerun", "none", "waiting")
  /\ UNCHANGED <<tries, transfers, recordVars>>

-----------------------------------------------------------------------------
(* connect.transfer_created.                                                *)

\* Recorded under its event id: a redelivery changes nothing from here on.
HookRecord ==
  /\ transfers # {}
  /\ hook = "unsent"
  /\ hook' = "recorded"
  /\ UNCHANGED <<run, tries, transfers, initiated, confirmed>>

\* The PayoutInitiated row that names the transfer is the way to the escrow.
InitiatedFound == initiated > 0

\* Without that row there is a warning, and no second try.
HookConfirm ==
  /\ hook = "recorded"
  /\ hook' = "handled"
  /\ confirmed' = IF InitiatedFound THEN confirmed + 1 ELSE confirmed
  /\ UNCHANGED <<run, tries, transfers, initiated>>

HookCrash ==
  /\ "webhook" \in Faults
  /\ hook = "recorded"
  /\ hook' = "handled"
  /\ UNCHANGED <<run, tries, transfers, initiated, confirmed>>

-----------------------------------------------------------------------------

RunNext(j, i) ==
  \/ CapabilityActive(j, i) \/ CapabilityMissing(j, i)
  \/ RequeueForCapability(j, i)
  \/ BalanceCovers(j, i) \/ BalanceShort(j, i) \/ RequeueForBalance(j, i)
  \/ Transfer(j, i) \/ RecordInitiated(j, i)

Next ==
  \/ \E j \in Jobs, i \in Runs :
       RunNext(j, i) \/ RunEnds(j, i)
  \/ \E j \in Jobs : JobStalls(j)
  \/ HookRecord \/ HookConfirm \/ HookCrash

Spec == Init /\ [][Next]_vars
-----------------------------------------------------------------------------
(* Properties.                                                              *)

\* Every variable keeps to its values.  No job ever carries a retry count above 1:
\* a retry job exists once, so the count in the payload is never counted on.
TypeOK ==
  /\ run \in [Jobs -> [Runs -> RunPC]]
  /\ tries \in [Jobs -> 0..1]
  /\ transfers \subseteq {TransferKey(j) : j \in Jobs}
  /\ initiated \in Nat
  /\ hook \in {"unsent", "recorded", "handled"}
  /\ confirmed \in {0, 1}

\* However often the payout is retried, run again after a stall, or run by its
\* job and a retry at the same time, the provider makes one transfer.
OneTransfer == Cardinality(transfers) <= 1

Failure == \E j \in Jobs, i \in Runs : run[j][i] = "failed"

StillPending == \E j \in Jobs, i \in Runs : run[j][i] \in Pending

\* A payout that meets an obstacle is not dropped there: if nothing failed, it
\* has been paid, a job is still to run, or a delayed retry has had its turn.
DroppedOnlyAfterARetry ==
  \/ transfers # {} \/ StillPending \/ Failure
  \/ \E j \in {"cap-retry", "bal-retry"} : run[j]["first"] # "none"

\* A confirmation is filed only under a payout that is on record, and only one.
ConfirmedWasInitiated == confirmed <= initiated

\* A transfer ends up on record: once no job is left to run, the row is there,
\* unless some run ended early.  No end of a job other than that, and no retry or
\* rerun beside it, leaves a transfer without its row.
TransferRecorded ==
  transfers # {} /\ ~StillPending => initiated > 0 \/ Failure
-----------------------------------------------------------------------------
(* What a comment says and the code does not do.                            *)

\* payout.worker.ts:33 "requeue with a 1-hour delay and give up after 24
\* attempts": a payout that found the capability missing ends without a
\* transfer only in the give-up branch.
GivesUpOnlyAfterAllRetries ==
  \/ transfers # {} \/ StillPending \/ Failure
  \/ run["bal-retry"]["first"] # "none"
  \/ \E j \in Jobs, i \in Runs : run[j][i] = "gaveUp"
=============================================================================
