---------------------------- MODULE PayoutProofs ----------------------------
(***************************************************************************)
(* Theorems about Payout, for every retry limit and every choice of        *)
(* faults.                                                                 *)
(***************************************************************************)
EXTENDS Payout, FiniteSetTheorems, TLAPS

\* Which job can have added which: a job exists before its rerun does, the first
\* one exists from the start, and the capability retry, which counts the tries,
\* was added once.  And a confirmation comes with the end of its webhook.
JobInv ==
  /\ run["payout"]["first"] # "none"
  /\ \A j \in Jobs : run[j]["rerun"] # "none" => run[j]["first"] # "none"
  /\ tries["payout"] = 0
  /\ run["cap-retry"]["first"] = "none" => tries["bal-retry"] = 0
  /\ hook # "handled" => confirmed = 0

TypeInv == TypeOK /\ JobInv

LEMMA TypeInit == Init => TypeInv
BY DEF Init, TypeInv, TypeOK, JobInv, Jobs, Runs, RunPC, Pending

\* A run that adds a retry with count n leaves every job well formed.
LEMMA RequeueType ==
  ASSUME TypeInv, NEW j \in Jobs, NEW i \in Runs,
         NEW k \in {"cap-retry", "bal-retry"}, NEW n \in Nat,
         NEW from \in Pending, Requeue(j, i, from, k, n),
         ~Known(k) => n <= 1 /\ (k = "bal-retry" => n = tries[j])
  PROVE  TypeInv'
<1>1. run[j]["first"] # "none" /\ "first" \in Runs /\ k \in Jobs /\ j \in Jobs
  BY DEF TypeInv, JobInv, Runs, Jobs, Requeue, Pending
<1>2. CASE Known(k)
  <2>1. /\ run' = [run EXCEPT ![j][i] = "requeued"]
        /\ UNCHANGED <<tries, transfers, initiated, hook, confirmed>>
    BY <1>2 DEF Requeue, recordVars
  <2>2. run' \in [Jobs -> [Runs -> RunPC]]
    BY <2>1 DEF TypeInv, TypeOK, RunPC
  <2>3. \A m \in Jobs, r \in Runs : run'[m][r] = "none" <=> run[m][r] = "none"
    BY <2>1 DEF TypeInv, TypeOK, Requeue, Pending
  <2> QED
    BY <2>1, <2>2, <2>3 DEF TypeInv, TypeOK, JobInv, Jobs, Runs
<1>3. CASE ~Known(k)
  <2>1. /\ run' = [run EXCEPT ![j][i] = "requeued", ![k]["first"] = "waiting"]
        /\ tries' = [tries EXCEPT ![k] = n]
        /\ UNCHANGED <<transfers, initiated, hook, confirmed>>
        /\ n \in 0..1 /\ j # k
    BY <1>1, <1>3 DEF Requeue, recordVars, Known
  <2>2. run' \in [Jobs -> [Runs -> RunPC]] /\ tries' \in [Jobs -> 0..1]
    BY <1>1, <2>1 DEF TypeInv, TypeOK, RunPC, Pending
  <2>3. \A m \in Jobs, r \in Runs :
          run'[m][r] = "none" <=> run[m][r] = "none" /\ <<m, r>> # <<k, "first">>
    BY <1>1, <2>1 DEF TypeInv, TypeOK, Requeue, Pending
  <2>4. tries'["payout"] = 0
    BY <2>1 DEF TypeInv, TypeOK, JobInv, Jobs
  <2>5. run'["cap-retry"]["first"] = "none" => tries'["bal-retry"] = 0
    <3>1. SUFFICES ASSUME run'["cap-retry"]["first"] = "none"
                   PROVE  tries'["bal-retry"] = 0
      OBVIOUS
    <3>2. k = "bal-retry" /\ run["cap-retry"]["first"] = "none"
      BY <3>1, <2>3 DEF Jobs, Runs
    <3>3. j = "payout"
      BY <3>2, <1>1, <2>1 DEF Jobs
    <3> QED
      BY <3>2, <3>3, <1>3, <2>1 DEF TypeInv, TypeOK, JobInv, Jobs
  <2> QED
    BY <2>1, <2>2, <2>3, <2>4, <2>5 DEF TypeInv, TypeOK, JobInv, Jobs, Runs
<1> QED
  BY <1>2, <1>3

\* The steps of a run that add no job.
LEMMA RunType ==
  ASSUME TypeInv, NEW j \in Jobs, NEW i \in Runs,
         NEW from \in RunPC \ {"none"}, NEW to \in RunPC \ {"none"},
         RunStep(j, i, from, to), UNCHANGED tries,
         transfers' \subseteq {TransferKey(m) : m \in Jobs},
         initiated' \in Nat, UNCHANGED <<hook, confirmed>>
  PROVE  TypeInv'
<1>1. run' \in [Jobs -> [Runs -> RunPC]]
  BY DEF TypeInv, TypeOK, RunStep
<1>2. \A m \in Jobs, r \in Runs : run'[m][r] = "none" <=> run[m][r] = "none"
  BY DEF TypeInv, TypeOK, RunStep
<1> QED
  BY <1>1, <1>2 DEF TypeInv, TypeOK, JobInv, Jobs, Runs

LEMMA TypeStep == TypeInv /\ [Next]_vars => TypeInv'
<1> SUFFICES ASSUME TypeInv, [Next]_vars PROVE TypeInv'
  OBVIOUS
<1> USE DEF recordVars
<1>1. CASE UNCHANGED vars
  BY <1>1 DEF TypeInv, TypeOK, JobInv, vars
<1>2. ASSUME NEW j \in Jobs, NEW i \in Runs, RunNext(j, i) \/ RunEnds(j, i)
      PROVE  TypeInv'
  <2>1. transfers \subseteq {TransferKey(m) : m \in Jobs} /\ initiated \in Nat
    BY DEF TypeInv, TypeOK
  <2>2. CASE CapabilityActive(j, i)
    BY <2>1, <2>2, RunType DEF CapabilityActive, RunPC, Pending
  <2>3. CASE CapabilityMissing(j, i)
    BY <2>1, <2>3, RunType DEF CapabilityMissing, RunPC, Pending
  <2>4. CASE RequeueForCapability(j, i)
    <3>1. /\ tries[j] + 1 \in Nat
          /\ Requeue(j, i, "incapable", "cap-retry", tries[j] + 1)
      BY <2>4 DEF RequeueForCapability, CapRetryId, TypeInv, TypeOK
    <3>2. ~Known("cap-retry") => tries[j] = 0
      <4>1. j = "cap-retry" => Known("cap-retry")
        BY <3>1 DEF Requeue, Known, TypeInv, JobInv, Jobs, Runs
      <4> QED
        BY <4>1 DEF Known, TypeInv, JobInv, Jobs
    <3> QED
      BY <3>1, <3>2, RequeueType DEF Pending
  <2>5. CASE BalanceCovers(j, i) \/ BalanceShort(j, i)
    BY <2>1, <2>5, RunType DEF BalanceCovers, BalanceShort, RunPC, Pending
  <2>6. CASE RequeueForBalance(j, i)
    <3>1. tries[j] \in Nat /\ tries[j] <= 1
      BY DEF TypeInv, TypeOK
    <3> QED
      BY <2>6, <3>1, RequeueType DEF RequeueForBalance, Pending
  <2>7. CASE Transfer(j, i)
    <3>1. transfers' \subseteq {TransferKey(m) : m \in Jobs}
      BY <2>1, <2>7 DEF Transfer, TransferMade
    <3> QED
      BY <2>1, <2>7, <3>1, RunType DEF Transfer, TransferMade, AfterTransfer, RunPC, Pending
  <2>8. CASE RecordInitiated(j, i)
    <3>1. initiated' \in Nat
      BY <2>1, <2>8 DEF RecordInitiated
    <3> QED
      BY <2>1, <2>8, <3>1, RunType DEF RecordInitiated, RunPC, Pending
  <2>9. CASE RunEnds(j, i)
    BY <2>1, <2>9, RunType DEF RunEnds, RunPC, Pending
  <2> QED
    BY <1>2, <2>2, <2>3, <2>4, <2>5, <2>6, <2>7, <2>8, <2>9 DEF RunNext
<1>3. ASSUME NEW j \in Jobs, JobStalls(j) PROVE TypeInv'
  <2>1. /\ run' \in [Jobs -> [Runs -> RunPC]]
        /\ run[j]["first"] # "none"
        /\ \A m \in Jobs : run'[m]["first"] = run[m]["first"]
        /\ \A m \in Jobs : m # j => run'[m]["rerun"] = run[m]["rerun"]
    BY <1>3 DEF JobStalls, RunStep, TypeInv, TypeOK, RunPC, Pending, Runs
  <2> QED
    BY <1>3, <2>1 DEF JobStalls, TypeInv, TypeOK, JobInv, Jobs
<1>4. CASE HookRecord \/ HookConfirm \/ HookCrash
  BY <1>4
     DEF HookRecord, HookConfirm, HookCrash, InitiatedFound, TypeInv,
         TypeOK, JobInv
<1> QED
  BY <1>1, <1>2, <1>3, <1>4 DEF Next

\* Type correctness: every run, job and row keeps to its values, and no job ever
\* carries a retry count above 1.
THEOREM TypeCorrect == Spec => []TypeOK
<1>1. TypeInv => TypeOK
  BY DEF TypeInv
<1> QED
  BY <1>1, TypeInit, TypeStep, PTL DEF Spec

LEMMA TypeInvariant == Spec => []TypeInv
BY TypeInit, TypeStep, PTL DEF Spec

\* One transfer: the key does not depend on the job or the run.
THEOREM TransferredOnce == Spec => []OneTransfer
<1>1. TypeInv => OneTransfer
  <2> SUFFICES ASSUME TypeInv PROVE OneTransfer
    OBVIOUS
  <2>1. transfers = {} \/ transfers = {"payout-escrow"}
    BY DEF TypeInv, TypeOK, TransferKey
  <2>2. Cardinality({}) = 0 /\ Cardinality({"payout-escrow"}) = 1
    BY FS_EmptySet, FS_Singleton
  <2> QED
    BY <2>1, <2>2 DEF OneTransfer
<1> QED
  BY <1>1, TypeInvariant, PTL

-----------------------------------------------------------------------------

\* A run that is done has transferred, a run that was requeued has a retry, and
\* the first job, which carries no count, cannot give up.
EndInv ==
  /\ \A j \in Jobs, i \in Runs :
       run[j][i] \in {"transferred", "done"} => transfers # {}
  /\ \A j \in Jobs, i \in Runs :
       run[j][i] = "requeued" => Known("cap-retry") \/ Known("bal-retry")
  /\ \A i \in Runs : run["payout"][i] # "gaveUp"

LEMMA EndInit == Init => EndInv
BY DEF Init, EndInv, Jobs, Runs

LEMMA EndStep == TypeInv /\ EndInv /\ [Next]_vars => EndInv'
<1> SUFFICES ASSUME TypeInv, EndInv, [Next]_vars PROVE EndInv'
  OBVIOUS
<1>1. CASE UNCHANGED <<run, transfers>>
  BY <1>1 DEF EndInv, Known
<1>2. ASSUME NEW j \in Jobs, NEW i \in Runs,
             CapabilityActive(j, i) \/ CapabilityMissing(j, i)
      PROVE  EndInv'
  <2>1. j = "payout" => ~(tries[j] + 1 > MaxCapabilityRetries)
    BY PayoutAssumption DEF TypeInv, JobInv
  <2>2. /\ UNCHANGED transfers
        /\ \A m \in Jobs, r \in Runs : <<m, r>> # <<j, i>> => run'[m][r] = run[m][r]
        /\ run'[j][i] \in {"capable", "incapable", "gaveUp"}
        /\ j = "payout" => run'[j][i] # "gaveUp"
        /\ run[j][i] = "waiting"
    BY <1>2, <2>1
       DEF CapabilityActive, CapabilityMissing, RunStep, TypeInv, TypeOK
  <2> QED
    BY <2>2 DEF EndInv, Known, Jobs, Runs
<1>3. ASSUME NEW j \in Jobs, NEW i \in Runs,
             NEW k \in {"cap-retry", "bal-retry"}, NEW n, NEW from \in Pending,
             Requeue(j, i, from, k, n)
      PROVE  EndInv'
  <2>1. /\ UNCHANGED transfers
        /\ \A m \in Jobs, r \in Runs :
             run'[m][r] \in {run[m][r], "requeued", "waiting"}
    BY <1>3 DEF Requeue, TypeInv, TypeOK
  <2>2. run'[k]["first"] # "none"
    BY <1>3 DEF Requeue, Known, TypeInv, TypeOK, Jobs, Runs
  <2> QED
    BY <2>1, <2>2 DEF EndInv, Known, Jobs
<1>4. ASSUME NEW j \in Jobs, NEW i \in Runs,
             \/ BalanceCovers(j, i) \/ BalanceShort(j, i) \/ RecordInitiated(j, i)
             \/ RunEnds(j, i)
      PROVE  EndInv'
  BY <1>4
     DEF BalanceCovers, BalanceShort, RecordInitiated, RunEnds, RunStep, EndInv,
         Known, TypeInv, TypeOK, Jobs, Runs
<1>5. ASSUME NEW j \in Jobs, NEW i \in Runs, Transfer(j, i) PROVE EndInv'
  <2>1. transfers' # {}
    BY <1>5 DEF Transfer, TransferMade
  <2> QED
    BY <1>5, <2>1
       DEF Transfer, TransferMade, AfterTransfer, RunStep, EndInv, Known, TypeInv, TypeOK, Jobs,
           Runs
<1>6. ASSUME NEW j \in Jobs, JobStalls(j) PROVE EndInv'
  BY <1>6 DEF JobStalls, RunStep, EndInv, Known, TypeInv, TypeOK, Jobs, Runs
<1> QED
  BY <1>1, <1>2, <1>3, <1>4, <1>5, <1>6
     DEF Next, vars, RunNext, RequeueForCapability, RequeueForBalance, CapRetryId,
         Pending, HookRecord, HookConfirm, HookCrash

\* A payout is not dropped at its first obstacle: the first run of its job ends
\* with a transfer, a failure or a retry.
THEOREM RetriedOnce == Spec => []DroppedOnlyAfterARetry
<1>1. TypeInv /\ EndInv => DroppedOnlyAfterARetry
  <2> SUFFICES ASSUME TypeInv, EndInv PROVE DroppedOnlyAfterARetry
    OBVIOUS
  <2>1. run["payout"]["first"] \in RunPC \ {"none", "gaveUp"}
    BY DEF TypeInv, TypeOK, JobInv, EndInv, Jobs, Runs
  <2>2. run["payout"]["first"] = "done" => transfers # {}
    BY DEF EndInv, Jobs, Runs
  <2>3. run["payout"]["first"] = "requeued" =>
          Known("cap-retry") \/ Known("bal-retry")
    BY DEF EndInv, Jobs, Runs
  <2> QED
    BY <2>1, <2>2, <2>3
       DEF DroppedOnlyAfterARetry, StillPending, Failure, Known, RunPC, Jobs, Runs
<1> QED
  BY <1>1, TypeInvariant, EndInit, EndStep, PTL DEF Spec

-----------------------------------------------------------------------------

\* A transfer without a row has a run on its way to the row, or one that failed.
RecordInv ==
  transfers # {} =>
    \/ initiated > 0
    \/ \E j \in Jobs, i \in Runs : run[j][i] \in {"transferred", "failed"}

LEMMA RecordStep == TypeInv /\ RecordInv /\ [Next]_vars => RecordInv'
<1> SUFFICES ASSUME TypeInv, RecordInv, [Next]_vars PROVE RecordInv'
  OBVIOUS
<1> USE DEF recordVars
<1>1. CASE UNCHANGED <<run, transfers, initiated>>
  BY <1>1 DEF RecordInv
<1>2. ASSUME NEW j \in Jobs, NEW i \in Runs, RecordInitiated(j, i)
      PROVE  RecordInv'
  BY <1>2 DEF RecordInitiated, RecordInv, TypeInv, TypeOK
<1>3. ASSUME NEW j \in Jobs, NEW i \in Runs, Transfer(j, i) \/ RunEnds(j, i)
      PROVE  RecordInv'
  <2>1. run'[j][i] \in {"transferred", "failed"}
    BY <1>3 DEF Transfer, TransferMade, RunEnds, AfterTransfer, RunStep, TypeInv, TypeOK
  <2> QED
    BY <2>1 DEF RecordInv
<1>4. ASSUME UNCHANGED <<transfers, initiated>>,
             \A j \in Jobs, i \in Runs :
               run[j][i] \in {"transferred", "failed"} => run'[j][i] = run[j][i]
      PROVE  RecordInv'
  BY <1>4 DEF RecordInv
<1>5. ASSUME NEW j \in Jobs, NEW i \in Runs,
             \/ CapabilityActive(j, i) \/ CapabilityMissing(j, i)
             \/ BalanceCovers(j, i) \/ BalanceShort(j, i)
      PROVE  RecordInv'
  BY <1>4, <1>5
     DEF CapabilityActive, CapabilityMissing, BalanceCovers, BalanceShort, RunStep,
         TypeInv, TypeOK
<1>6. ASSUME NEW j \in Jobs, NEW i \in Runs,
             RequeueForCapability(j, i) \/ RequeueForBalance(j, i)
      PROVE  RecordInv'
  BY <1>4, <1>6
     DEF RequeueForCapability, RequeueForBalance, CapRetryId, Requeue, Known,
         TypeInv, TypeOK, Jobs, Runs
<1>7. ASSUME NEW j \in Jobs, JobStalls(j) PROVE RecordInv'
  BY <1>4, <1>7 DEF JobStalls, RunStep, TypeInv, TypeOK
<1> QED
  BY <1>1, <1>2, <1>3, <1>5, <1>6, <1>7
     DEF Next, vars, RunNext, HookRecord, HookConfirm, HookCrash

\* Once no job is left to run, a transfer is on record or some run ended early.
THEOREM Recorded == Spec => []TransferRecorded
<1>1. Init => RecordInv
  BY DEF Init, RecordInv
<1>2. RecordInv => TransferRecorded
  BY DEF RecordInv, TransferRecorded, StillPending, Pending, Failure
<1> QED
  BY <1>1, <1>2, TypeInvariant, RecordStep, PTL DEF Spec

\* A confirmation is filed under a payout that is on record, and once.
THEOREM Confirmed == Spec => []ConfirmedWasInitiated
<1> USE DEF recordVars
<1>1. Init => ConfirmedWasInitiated
  BY DEF Init, ConfirmedWasInitiated
<1>2. TypeInv /\ ConfirmedWasInitiated /\ [Next]_vars => ConfirmedWasInitiated'
  <2> SUFFICES ASSUME TypeInv, ConfirmedWasInitiated, [Next]_vars
               PROVE  ConfirmedWasInitiated'
    OBVIOUS
  <2>1. CASE UNCHANGED <<initiated, confirmed>>
    BY <2>1 DEF ConfirmedWasInitiated
  <2>2. ASSUME NEW j \in Jobs, NEW i \in Runs, RecordInitiated(j, i)
        PROVE  ConfirmedWasInitiated'
    BY <2>2 DEF RecordInitiated, ConfirmedWasInitiated, TypeInv, TypeOK
  <2>3. CASE HookConfirm
    BY <2>3 DEF HookConfirm, InitiatedFound, ConfirmedWasInitiated, TypeInv,
                TypeOK, JobInv
  <2> QED
    BY <2>1, <2>2, <2>3
       DEF Next, vars, RunNext, RunEnds, JobStalls, HookRecord, HookCrash,
           CapabilityActive, CapabilityMissing, RequeueForCapability,
           RequeueForBalance, Requeue, BalanceCovers, BalanceShort, Transfer
<1> QED
  BY <1>1, <1>2, TypeInvariant, PTL DEF Spec
=============================================================================
