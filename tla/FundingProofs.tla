--------------------------- MODULE FundingProofs ---------------------------
(***************************************************************************)
(* Proofs about module Funding, for any set of requests, tokens and        *)
(* cancellations, either provider and any combination of faults.           *)
(***************************************************************************)
EXTENDS Funding, FiniteSetTheorems, TLAPS

USE FundingAssumption

\* TypeOK is not inductive: the token handed back must be one of Tokens, so only
\* requests that presented a token may be about to hand one back.
ReissueOnlyTokens ==
  \A r \in Payments : fund[r] = "reissuing" => UsesToken(r)

TypeInv == TypeOK /\ ReissueOnlyTokens

LEMMA TypeInit == Init => TypeInv
<1> SUFFICES ASSUME Init PROVE TypeInv
  OBVIOUS
<1> USE DEF Init
<1>1. status \in EscrowStatus \ {"Funded"} /\ expired \in BOOLEAN
  BY DEF EscrowStatus
<1>2. /\ expireJob \in {"absent", "scheduled", "read", "done"}
      /\ timer \in {"waiting", "read", "done"}
  OBVIOUS
<1>3. fund \in [Payments -> FundPC] /\ seen \in [Payments -> EscrowStatus]
  BY DEF FundPC, EscrowStatus
<1>4. hook \in [Payments -> [Kinds -> {"unsent", "recorded", "handled", "lost"}]]
  OBVIOUS
<1>5. run \in [Payments -> [Runs -> RunPC]]
  BY DEF RunPC
<1>6. cancelSeen \in [Cancels -> EscrowStatus]
  BY DEF EscrowStatus
<1>7. ReissueOnlyTokens
  BY DEF ReissueOnlyTokens
<1> QED
  BY <1>1, <1>2, <1>3, <1>4, <1>5, <1>6, <1>7 DEF TypeOK, TypeInv

LEMMA TypeFund ==
  ASSUME TypeInv, NEW r \in Payments, FundNext(r) \/ FundCrash(r)
  PROVE  TypeOK'
<1> USE DEF TypeInv, TypeOK, FundPC, EscrowStatus, Step, escrowVars, provVars, cancelVars
<1>1. CASE TokenRead(r)
  BY <1>1 DEF TokenRead
<1>2. CASE TokenConsume(r)
  BY <1>2 DEF TokenConsume
<1>3. CASE FundRefused(r)
  BY <1>3 DEF FundRefused
<1>4. CASE FundLoad(r)
  BY <1>4 DEF FundLoad
<1>5. CASE FundCheckPending(r)
  <2>1. AfterConflict(r) \in FundPC
    BY DEF AfterConflict
  <2>2. PICK to \in FundPC : Step(r, "loaded", to)
    BY <1>5, <2>1 DEF FundCheckPending
  <2>3. fund' \in [Payments -> FundPC]
    BY <2>2
  <2> QED
    BY <1>5, <2>3 DEF FundCheckPending
<1>6. CASE FundReissue(r)
  <2>1. TokenOf[r] \in Tokens
    BY <1>6 DEF FundReissue, ReissueOnlyTokens, UsesToken
  <2> QED
    BY <1>6, <2>1 DEF FundReissue
<1>7. CASE FundCreatePayment(r)
  BY <1>7 DEF FundCreatePayment
<1>8. CASE FundInitiate(r)
  BY <1>8 DEF FundInitiate, SessionOpened
<1>9. CASE FundProviderError(r)
  BY <1>9 DEF FundProviderError, SessionOpened
<1>10. CASE FundMarkFailed(r)
  BY <1>10 DEF FundMarkFailed, AfterConflict
<1>11. CASE FundCommit(r)
  BY <1>11 DEF FundCommit
<1>12. CASE FundCrash(r)
  BY <1>12 DEF FundCrash
<1> QED
  BY <1>1, <1>2, <1>3, <1>4, <1>5, <1>6, <1>7, <1>8, <1>9, <1>10, <1>11, <1>12
     DEF FundNext

LEMMA TypeHook ==
  ASSUME TypeOK, NEW p \in Payments,
         \/ PayerNext(p) \/ HookStep(p)
         \/ \E k \in Kinds : HookRecord(p, k) \/ HookCrash(p, k)
  PROVE  TypeOK'
<1> USE DEF TypeOK, escrowVars, fundVars, provVars, cancelVars
<1>1. CASE PayerPays(p)
  BY <1>1 DEF PayerPays
<1>2. CASE PayerDeclined(p)
  BY <1>2 DEF PayerDeclined
<1>3. CASE HookEnqueueConfirm(p)
  BY <1>3 DEF HookEnqueueConfirm, Kinds, Runs, RunPC
<1>4. CASE HookMarkFailed(p)
  BY <1>4 DEF HookMarkFailed, Kinds
<1>5. ASSUME NEW k \in Kinds, HookRecord(p, k) PROVE TypeOK'
  BY <1>5 DEF HookRecord
<1>6. ASSUME NEW k \in Kinds, HookCrash(p, k) PROVE TypeOK'
  BY <1>6 DEF HookCrash
<1> QED
  BY <1>1, <1>2, <1>3, <1>4, <1>5, <1>6 DEF PayerNext, HookStep

\* A step of a run takes it from one control point to another.
LEMMA RunStepType ==
  ASSUME run \in [Payments -> [Runs -> RunPC]],
         NEW p \in Payments, NEW i \in Runs, NEW from, NEW to \in RunPC,
         RunStep(p, i, from, to)
  PROVE  run' \in [Payments -> [Runs -> RunPC]]
BY DEF RunStep

LEMMA TypeConfirm ==
  ASSUME TypeOK, NEW p \in Payments, NEW i \in Runs,
         ConfirmStep(p, i) \/ RunFault(p, i) \/ JobStalls(p)
  PROVE  TypeOK'
<1>1. run' \in [Payments -> [Runs -> RunPC]]
  <2> USE RunStepType DEF TypeOK, RunPC
  <2>1. CASE ConfirmRead(p, i)
    BY <2>1 DEF ConfirmRead
  <2>2. CASE ConfirmVerified(p, i)
    BY <2>2 DEF ConfirmVerified, SaysPaid
  <2>3. CASE ConfirmNotVerified(p, i)
    BY <2>3 DEF ConfirmNotVerified
  <2>4. CASE ConfirmPreflight(p, i)
    BY <2>4 DEF ConfirmPreflight
  <2>5. CASE ConfirmReject(p, i)
    BY <2>5 DEF ConfirmReject
  <2>6. CASE ConfirmCredit(p, i)
    BY <2>6 DEF ConfirmCredit
  <2>7. CASE ConfirmDuplicateCredit(p, i)
    BY <2>7 DEF ConfirmDuplicateCredit
  <2>8. CASE ConfirmNotFundable(p, i)
    BY <2>8 DEF ConfirmNotFundable
  <2>9. CASE ConfirmAnnounce(p, i)
    BY <2>9 DEF ConfirmAnnounce
  <2>10. CASE ConfirmThrows(p, i)
    BY <2>10 DEF ConfirmThrows
  <2>11. CASE WorkerCrash(p, i)
    BY <2>11 DEF WorkerCrash
  <2>12. CASE JobStalls(p)
    BY <2>12 DEF JobStalls, Runs
  <2> QED
    BY <2>1, <2>2, <2>3, <2>4, <2>5, <2>6, <2>7, <2>8, <2>9, <2>10, <2>11, <2>12
       DEF ConfirmStep, RunFault
<1>2. /\ status' \in EscrowStatus \ {"Funded"}
      /\ pay' \in [Payments -> {"none", "Pending", "Completed", "Failed"}]
      /\ ledger' \subseteq Payments
      /\ UNCHANGED <<expired, expireJob, timer, fundVars, provVars, hook, cancelVars,
                     reopens>>
  BY DEF TypeOK, EscrowStatus, StatusOnceFunded, LedgerOnceFunded, escrowVars,
         ConfirmStep, RunFault, JobStalls,
         ConfirmRead, ConfirmVerified, SaysPaid, ConfirmNotVerified, ConfirmPreflight,
         ConfirmReject, ConfirmCredit, ConfirmDuplicateCredit,
         ConfirmNotFundable, ConfirmAnnounce, ConfirmThrows, WorkerCrash
<1> QED
  BY <1>1, <1>2 DEF TypeOK, fundVars, provVars, cancelVars

LEMMA TypeRest ==
  ASSUME TypeOK,
         \/ \E t \in Tokens : TokenExpires(t)
         \/ \E c \in Cancels : CancelLoad(c) \/ CancelCommit(c)
         \/ TimePasses \/ ExpiryNext \/ SettlementNext
  PROVE  TypeOK'
<1> USE DEF TypeOK, escrowVars, fundVars, provVars, cancelVars, EscrowStatus
<1>1. CASE \E t \in Tokens : TokenExpires(t)
  BY <1>1 DEF TokenExpires
<1>2. ASSUME NEW c \in Cancels, CancelLoad(c) PROVE TypeOK'
  BY <1>2 DEF CancelLoad
<1>3. ASSUME NEW c \in Cancels, CancelCommit(c) PROVE TypeOK'
  BY <1>3 DEF CancelCommit
<1>4. CASE TimePasses
  BY <1>4 DEF TimePasses
<1>5. CASE ExpiryNext
  BY <1>5 DEF ExpiryNext, ExpireRead, ExpireWrite, ExpireCrash, RescheduleExpiry
<1>6. CASE SettlementNext
  BY <1>6 DEF SettlementNext, SettlementMoves, TimerRead, TimerWrite, TimerCrash,
     CanTransition, ValidTransitions
<1> QED
  BY <1>1, <1>2, <1>3, <1>4, <1>5, <1>6

\* A request gets to "reissuing" only through a conflict or a provider error of
\* the token endpoint.
LEMMA ReissueStep ==
  ASSUME TypeInv, [Next]_vars
  PROVE  ReissueOnlyTokens'
<1> SUFFICES ASSUME NEW q \in Payments, fund'[q] = "reissuing"
             PROVE  UsesToken(q)
  BY DEF ReissueOnlyTokens, UsesToken
<1>1. CASE fund'[q] = fund[q]
  BY <1>1 DEF TypeInv, ReissueOnlyTokens
<1>2. CASE fund'[q] # fund[q]
  <2>1. PICK r \in Payments : FundNext(r) \/ FundCrash(r)
    <3>1. \/ UNCHANGED fund
          \/ \E r \in Payments : FundNext(r) \/ FundCrash(r)
      BY DEF Next, vars, fundVars, PayerNext, PayerPays, PayerDeclined,
             HookStep, HookEnqueueConfirm, HookMarkFailed, HookRecord, HookCrash,
             JobStalls, ConfirmStep, ConfirmRead, ConfirmVerified, SaysPaid,
             ConfirmNotVerified, ConfirmPreflight, ConfirmReject, ConfirmCredit,
             ConfirmDuplicateCredit, ConfirmNotFundable, ConfirmAnnounce,
             RunFault, ConfirmThrows, WorkerCrash, CancelLoad, CancelCommit,
             TimePasses, ExpiryNext, ExpireRead, ExpireWrite, ExpireCrash,
             RescheduleExpiry, SettlementNext, SettlementMoves, TimerRead, TimerWrite, TimerCrash, TokenExpires
    <3> QED
      BY <1>2, <3>1
  <2>2. q = r
    BY <1>2, <2>1
       DEF TypeInv, TypeOK, FundNext, FundCrash, TokenRead, TokenConsume,
           FundRefused, FundLoad, FundCheckPending, FundReissue,
           FundCreatePayment, FundInitiate, SessionOpened, FundProviderError, FundMarkFailed,
           FundCommit, Step
  <2>3. AfterConflict(r) = "reissuing" => UsesToken(r)
    BY DEF AfterConflict
  <2> QED
    BY <2>1, <2>2, <2>3
       DEF TypeInv, TypeOK, FundNext, FundCrash, TokenRead, TokenConsume,
           FundRefused, FundLoad, FundCheckPending, FundReissue,
           FundCreatePayment, FundInitiate, SessionOpened, FundProviderError, FundMarkFailed,
           FundCommit, Step
<1> QED
  BY <1>1, <1>2

LEMMA TypeStep == TypeInv /\ [Next]_vars => TypeInv'
<1> SUFFICES ASSUME TypeInv, [Next]_vars PROVE TypeInv'
  OBVIOUS
<1>1. TypeOK
  BY DEF TypeInv
<1>2. CASE UNCHANGED vars
  BY <1>1, <1>2, ReissueStep DEF TypeInv, TypeOK, vars
<1>3. CASE \E r \in Payments : FundNext(r) \/ FundCrash(r)
  BY <1>3, TypeFund, ReissueStep DEF TypeInv
<1>4. CASE \E p \in Payments :
             \/ PayerNext(p) \/ HookStep(p)
             \/ \E k \in Kinds : HookRecord(p, k) \/ HookCrash(p, k)
  BY <1>1, <1>4, TypeHook, ReissueStep DEF TypeInv
<1>5. CASE \E p \in Payments, i \in Runs :
             ConfirmStep(p, i) \/ RunFault(p, i) \/ JobStalls(p)
  BY <1>1, <1>5, TypeConfirm, ReissueStep DEF TypeInv
<1>6. CASE \/ \E t \in Tokens : TokenExpires(t)
           \/ \E c \in Cancels : CancelLoad(c) \/ CancelCommit(c)
           \/ TimePasses \/ ExpiryNext \/ SettlementNext
  BY <1>1, <1>6, TypeRest, ReissueStep DEF TypeInv
<1> QED
  BY <1>2, <1>3, <1>4, <1>5, <1>6 DEF Next, Runs

\* Type correctness: every request, webhook, job and row keeps to its states, and
\* the escrow never rests in Funded.
THEOREM TypeCorrect == Spec => []TypeOK
<1>1. Spec => []TypeInv
  BY TypeInit, TypeStep, PTL DEF Spec
<1> QED
  BY <1>1, PTL DEF TypeInv

-----------------------------------------------------------------------------
(* What each actor leaves alone, cited wherever an invariant is about the   *)
(* other actors only.                                                       *)

\* A fund request changes only its own control point and session.
LEMMA FundFrame ==
  ASSUME NEW r \in Payments, FundNext(r) \/ FundCrash(r)
  PROVE  /\ \E to : fund' = [fund EXCEPT ![r] = to]
         /\ session' \in {session, [session EXCEPT ![r] = "open"]}
         /\ UNCHANGED <<expired, expireJob, timer, declined, hook, run, ledger, cancel,
                        cancelSeen>>
<1> USE DEF Step, escrowVars, provVars, cancelVars
<1>1. CASE FundCrash(r)
  BY <1>1 DEF FundCrash
<1>2. CASE FundNext(r)
  BY <1>2 DEF FundNext, TokenRead, TokenConsume, FundRefused, FundLoad,
          FundCheckPending, FundReissue, FundCreatePayment, FundInitiate, SessionOpened,
          FundProviderError, FundMarkFailed, FundCommit
<1> QED
  BY <1>1, <1>2

\* The payer, the webhooks and the stalled-job check leave the escrow, the
\* requests and the ledger alone.
LEMMA HookFrame ==
  ASSUME NEW p \in Payments,
         \/ PayerNext(p) \/ HookStep(p) \/ JobStalls(p)
         \/ \E k \in Kinds : HookRecord(p, k) \/ HookCrash(p, k)
  PROVE  UNCHANGED <<escrowVars, fundVars, ledger, cancelVars, reopens>>
BY DEF PayerNext, PayerPays, PayerDeclined, HookStep, HookEnqueueConfirm,
       HookMarkFailed, JobStalls, HookRecord, HookCrash

\* Only the credit of a confirm run touches the escrow and the ledger.
LEMMA ConfirmFrame ==
  ASSUME NEW p \in Payments, NEW i \in Runs, ConfirmStep(p, i) \/ RunFault(p, i)
  PROVE  /\ UNCHANGED <<expired, expireJob, timer, fundVars, provVars, hook, cancelVars,
                        reopens>>
         /\ UNCHANGED <<status, ledger>> \/ ConfirmCredit(p, i)
         /\ \E from, to : from # "none" /\ RunStep(p, i, from, to)
BY DEF ConfirmStep, RunFault, ConfirmRead, ConfirmVerified, SaysPaid, ConfirmNotVerified,
       ConfirmPreflight, ConfirmReject, ConfirmCredit, ConfirmDuplicateCredit,
       ConfirmNotFundable, ConfirmAnnounce, ConfirmThrows, WorkerCrash, Running,
       RunStep, escrowVars

\* Cancellation, expiry, settlement and TTLs leave payments and money alone.
LEMMA RestFrame ==
  ASSUME \/ \E t \in Tokens : TokenExpires(t)
         \/ \E c \in Cancels : CancelLoad(c) \/ CancelCommit(c)
         \/ TimePasses \/ ExpiryNext \/ SettlementNext
  PROVE  UNCHANGED <<fund, seen, pay, provVars, hook, run, ledger, reopens>>
BY DEF TokenExpires, CancelLoad, CancelCommit, TimePasses, ExpiryNext, ExpireRead,
       ExpireWrite, ExpireCrash, RescheduleExpiry, SettlementNext, SettlementMoves, TimerRead, TimerWrite, TimerCrash, fundVars

\* The actors of Next.
LEMMA Actors ==
  ASSUME [Next]_vars
  PROVE  \/ UNCHANGED vars
         \/ \E r \in Payments : FundNext(r) \/ FundCrash(r)
         \/ \E p \in Payments :
              \/ PayerNext(p) \/ HookStep(p) \/ JobStalls(p)
              \/ \E k \in Kinds : HookRecord(p, k) \/ HookCrash(p, k)
         \/ \E p \in Payments, i \in Runs : ConfirmStep(p, i) \/ RunFault(p, i)
         \/ \E t \in Tokens : TokenExpires(t)
         \/ \E c \in Cancels : CancelLoad(c) \/ CancelCommit(c)
         \/ TimePasses \/ ExpiryNext \/ SettlementNext
BY DEF Next

-----------------------------------------------------------------------------
(* The number of credits.                                                   *)

\* A credit takes the escrow out of the fundable statuses, so a further one
\* needs a reopening that has not been used up.
CreditInv ==
  /\ Cardinality(ledger) <= 1 + reopens
  /\ status \in FundableEscrowStatuses => Cardinality(ledger) <= reopens

LEMMA LedgerFinite ==
  ASSUME TypeOK
  PROVE  IsFiniteSet(ledger) /\ Cardinality(ledger) \in Nat
BY FS_Subset, FS_CardinalityType DEF TypeOK

LEMMA CreditInit == Init => CreditInv
BY FS_EmptySet DEF Init, CreditInv

LEMMA CreditStep == TypeOK /\ CreditInv /\ [Next]_vars => CreditInv'
<1> SUFFICES ASSUME TypeOK, CreditInv, [Next]_vars PROVE CreditInv'
  OBVIOUS
<1> DEFINE n == Cardinality(ledger)
<1>1. n \in Nat /\ reopens \in Nat
  BY LedgerFinite DEF TypeOK
<1>2. CASE UNCHANGED <<status, ledger, reopens>>
  BY <1>2 DEF CreditInv
<1>3. ASSUME NEW r \in Payments, FundNext(r) \/ FundCrash(r)
      PROVE  CreditInv'
  <2>1. ledger' = ledger
    BY <1>3, FundFrame
  <2>2. CASE FundCommit(r)
    <3> HIDE DEF n
    <3>1. n <= 1 + reopens /\ (status \in FundableEscrowStatuses => n <= reopens)
      BY DEF CreditInv, n
    <3>2. /\ n <= 1 + reopens'
          /\ status' \in FundableEscrowStatuses => n <= reopens'
      BY <1>1, <2>2, <3>1 DEF FundCommit, FundableEscrowStatuses
    <3> QED
      BY <2>1, <3>2 DEF CreditInv, n
  <2>3. CASE ~FundCommit(r)
    <3>1. UNCHANGED <<status, reopens>>
      BY <1>3, <2>3 DEF FundNext, FundCrash, TokenRead, TokenConsume, FundRefused,
         FundLoad, FundCheckPending, FundReissue, FundCreatePayment, FundInitiate, SessionOpened,
         FundProviderError, FundMarkFailed, escrowVars
    <3> QED
      BY <1>2, <2>1, <3>1
  <2> QED
    BY <2>2, <2>3
<1>4. ASSUME NEW p \in Payments, NEW i \in Runs, ConfirmStep(p, i) \/ RunFault(p, i)
      PROVE  CreditInv'
  <2>1. reopens' = reopens
    BY <1>4, ConfirmFrame
  <2>2. CASE ConfirmCredit(p, i)
    <3>1. Cardinality(ledger') = n + 1
      BY <2>2, LedgerFinite, FS_AddElement DEF ConfirmCredit, LedgerOnceFunded
    <3>2. n <= reopens /\ status' \notin FundableEscrowStatuses
      BY <2>2 DEF ConfirmCredit, FundGuard, StatusOnceFunded, CreditInv,
                  FundableEscrowStatuses
    <3> HIDE DEF n
    <3> QED
      BY <1>1, <2>1, <3>1, <3>2 DEF CreditInv
  <2>3. CASE UNCHANGED <<status, ledger>>
    BY <1>2, <2>1, <2>3
  <2> QED
    BY <1>4, <2>2, <2>3, ConfirmFrame
<1>5. ASSUME \/ \E t \in Tokens : TokenExpires(t)
             \/ \E c \in Cancels : CancelLoad(c) \/ CancelCommit(c)
             \/ TimePasses \/ ExpiryNext \/ SettlementNext
      PROVE  CreditInv'
  <2>1. UNCHANGED <<ledger, reopens>>
    BY <1>5, RestFrame
  <2>2. status' = status \/ status' \notin FundableEscrowStatuses
    BY <1>5 DEF TokenExpires, CancelLoad, CancelCommit, TimePasses, ExpiryNext,
                ExpireRead, ExpireWrite, ExpireCrash, RescheduleExpiry,
                SettlementNext, SettlementMoves, TimerRead, TimerWrite, TimerCrash, CanTransition, ValidTransitions, escrowVars,
                FundableEscrowStatuses
  <2> QED
    BY <2>1, <2>2 DEF CreditInv
<1>6. CASE UNCHANGED vars
  BY <1>2, <1>6 DEF vars
<1>7. ASSUME NEW p \in Payments,
             \/ PayerNext(p) \/ HookStep(p) \/ JobStalls(p)
             \/ \E k \in Kinds : HookRecord(p, k) \/ HookCrash(p, k)
      PROVE  CreditInv'
  BY <1>2, <1>7, HookFrame DEF escrowVars
<1> QED
  BY <1>3, <1>4, <1>5, <1>6, <1>7, Actors

\* The conditional update credits the escrow once, and once more for every late
\* commit of a fund request that puts a funded or cancelled escrow back.
THEOREM CreditsBounded == Spec => []CreditsBoundedByReopens
<1>1. Spec => []CreditInv
  BY TypeCorrect, CreditInit, CreditStep, PTL DEF Spec
<1> QED
  BY <1>1, PTL DEF CreditInv, CreditsBoundedByReopens

-----------------------------------------------------------------------------
(* Money behind the status.                                                 *)

\* A charge is where every credit starts: the provider sends payment.success
\* only for a charge, the confirm job is queued only for that webhook, and the
\* ledger row is written only by the job.
BackedInv ==
  /\ \A p \in Payments : session[p] = "charged" => fund[p] = "done"
  /\ \A p \in Payments : hook[p]["success"] # "unsent" => session[p] = "charged"
  /\ \A p \in Payments, i \in Runs : run[p][i] # "none" => session[p] = "charged"
  /\ \A p \in ledger : session[p] = "charged"
  /\ status \in CreditedStatuses \/ timer = "read" => ledger # {}

LEMMA BackedInit == Init => BackedInv
BY DEF Init, BackedInv, CreditedStatuses, Kinds

\* A charge is never undone: the request that opened the session has ended.
LEMMA ChargeStays ==
  ASSUME TypeOK, BackedInv, [Next]_vars, NEW p \in Payments,
         session[p] = "charged"
  PROVE  session'[p] = "charged" /\ fund'[p] = "done"
<1>1. fund[p] = "done"
  BY DEF BackedInv
<1>2. CASE UNCHANGED <<fund, session>>
  BY <1>1, <1>2
<1>3. ASSUME NEW r \in Payments, FundNext(r) \/ FundCrash(r)
      PROVE  session'[p] = "charged" /\ fund'[p] = "done"
  <2>1. fund[r] # "done"
    BY <1>3 DEF FundNext, FundCrash, TokenRead, TokenConsume, FundRefused,
       FundLoad, FundCheckPending, FundReissue, FundCreatePayment, FundInitiate, SessionOpened,
       FundProviderError, FundMarkFailed, FundCommit, Step, Ended
  <2>2. r # p
    BY <1>1, <2>1
  <2> QED
    BY <1>1, <1>3, <2>2, FundFrame DEF TypeOK
<1>4. ASSUME NEW q \in Payments,
             \/ PayerNext(q) \/ HookStep(q) \/ JobStalls(q)
             \/ \E k \in Kinds : HookRecord(q, k) \/ HookCrash(q, k)
      PROVE  session'[p] = "charged" /\ fund'[p] = "done"
  BY <1>1, <1>4, HookFrame DEF TypeOK, fundVars, provVars, PayerNext, PayerPays,
     PayerDeclined, HookStep, HookEnqueueConfirm, HookMarkFailed, JobStalls,
     HookRecord, HookCrash
<1>5. ASSUME NEW q \in Payments, NEW i \in Runs, ConfirmStep(q, i) \/ RunFault(q, i)
      PROVE  session'[p] = "charged" /\ fund'[p] = "done"
  BY <1>1, <1>5, ConfirmFrame DEF fundVars, provVars
<1>6. CASE \/ \E t \in Tokens : TokenExpires(t)
           \/ \E c \in Cancels : CancelLoad(c) \/ CancelCommit(c)
           \/ TimePasses \/ ExpiryNext \/ SettlementNext
  BY <1>1, <1>6, RestFrame DEF provVars
<1> QED
  BY <1>2, <1>3, <1>4, <1>5, <1>6, Actors DEF vars

\* Webhooks, runs and ledger rows appear only for charged payments.
LEMMA OnlyCharged ==
  ASSUME TypeOK, BackedInv, [Next]_vars, NEW p \in Payments
  PROVE  /\ session'[p] = "charged" => fund'[p] = "done"
         /\ hook'[p]["success"] # "unsent" => session[p] = "charged"
         /\ \A i \in Runs : run'[p][i] # "none" => session[p] = "charged"
         /\ p \in ledger' => session[p] = "charged"
<1> DEFINE Goal == /\ session'[p] = "charged" => fund'[p] = "done"
                   /\ hook'[p]["success"] # "unsent" => session[p] = "charged"
                   /\ \A i \in Runs : run'[p][i] # "none" => session[p] = "charged"
                   /\ p \in ledger' => session[p] = "charged"
<1>1. CASE UNCHANGED <<fund, session, hook, run, ledger>>
  BY <1>1 DEF BackedInv
<1>2. ASSUME NEW r \in Payments, FundNext(r) \/ FundCrash(r)
      PROVE  Goal
  <2>1. UNCHANGED <<hook, run, ledger>>
    BY <1>2, FundFrame
  <2>2. session'[p] = "charged" => session[p] = "charged"
    BY <1>2, FundFrame DEF TypeOK
  <2>3. session'[p] = "charged" => fund'[p] = "done"
    BY <2>2, ChargeStays
  <2> QED
    BY <2>1, <2>3 DEF BackedInv
<1>3. ASSUME NEW q \in Payments,
             \/ PayerNext(q) \/ HookStep(q) \/ JobStalls(q)
             \/ \E k \in Kinds : HookRecord(q, k) \/ HookCrash(q, k)
      PROVE  Goal
  <2>1. UNCHANGED <<fund, ledger>>
    BY <1>3, HookFrame DEF fundVars
  <2>2. CASE PayerNext(q)
    BY <1>3, <2>1, <2>2 DEF PayerNext, PayerPays, PayerDeclined, BackedInv, TypeOK
  <2>3. CASE HookStep(q)
    <3>1. session' = session
      BY <2>3 DEF HookStep, HookEnqueueConfirm, HookMarkFailed, provVars
    <3>2. hook'[p]["success"] # "unsent" => hook[p]["success"] # "unsent"
      <4>1. CASE p = q /\ HookEnqueueConfirm(q)
        BY <4>1 DEF HookEnqueueConfirm
      <4>2. CASE p = q /\ HookMarkFailed(q)
        BY <4>2 DEF HookMarkFailed, TypeOK, Kinds
      <4>3. CASE p # q
        BY <2>3, <4>3 DEF HookStep, HookEnqueueConfirm, HookMarkFailed, TypeOK
      <4> QED
        BY <2>3, <4>1, <4>2, <4>3 DEF HookStep
    <3>3. CASE HookEnqueueConfirm(q)
      <4>1. session[q] = "charged"
        BY <3>3 DEF HookEnqueueConfirm, BackedInv
      <4>2. \A i \in Runs : run'[p][i] # "none" => run[p][i] # "none" \/ p = q
        BY <3>3 DEF HookEnqueueConfirm, TypeOK, Runs
      <4> QED
        BY <2>1, <3>1, <3>2, <4>1, <4>2 DEF BackedInv
    <3>4. CASE HookMarkFailed(q)
      <4>1. run' = run
        BY <3>4 DEF HookMarkFailed
      <4> QED
        BY <2>1, <3>1, <3>2, <4>1 DEF BackedInv
    <3> QED
      BY <2>3, <3>3, <3>4 DEF HookStep
  <2>4. ASSUME NEW k \in Kinds, HookRecord(q, k) \/ HookCrash(q, k)
        PROVE  Goal
    <3>1. UNCHANGED <<session, run>>
      BY <2>4 DEF HookRecord, HookCrash, provVars
    <3>2. hook'[p]["success"] # "unsent" =>
            hook[p]["success"] # "unsent" \/ session[p] = "charged"
      <4>1. CASE k = "success" /\ p = q
        BY <2>4, <4>1 DEF HookRecord, HookCrash, EventSent
      <4>2. CASE ~(k = "success" /\ p = q)
        BY <2>4, <4>2 DEF HookRecord, HookCrash, TypeOK, Kinds
      <4> QED
        BY <4>1, <4>2
    <3> QED
      BY <2>1, <3>1, <3>2 DEF BackedInv
  <2>5. CASE JobStalls(q)
    <3>1. session[q] = "charged"
      BY <2>5 DEF JobStalls, BackedInv, Running, Runs
    <3>2. UNCHANGED <<session, hook>>
      BY <2>5 DEF JobStalls, provVars
    <3>3. \A i \in Runs : run'[p][i] # "none" => run[p][i] # "none" \/ p = q
      BY <2>5 DEF JobStalls, RunStep, TypeOK, Runs
    <3> QED
      BY <2>1, <3>1, <3>2, <3>3 DEF BackedInv
  <2> QED
    BY <1>3, <2>2, <2>3, <2>4, <2>5
<1>4. ASSUME NEW q \in Payments, NEW j \in Runs, ConfirmStep(q, j) \/ RunFault(q, j)
      PROVE  Goal
  <2>1. UNCHANGED <<fund, session, hook>>
    BY <1>4, ConfirmFrame DEF fundVars, provVars
  <2>2. session[q] = "charged"
    BY <1>4, ConfirmFrame DEF RunStep, BackedInv
  <2>3. \A i \in Runs : run'[p][i] # "none" => run[p][i] # "none" \/ p = q
    BY <1>4, ConfirmFrame DEF RunStep, TypeOK
  <2>4. p \in ledger' => p \in ledger \/ p = q
    BY <1>4, ConfirmFrame DEF ConfirmCredit, LedgerOnceFunded
  <2> QED
    BY <2>1, <2>2, <2>3, <2>4 DEF BackedInv
<1>5. CASE \/ \E t \in Tokens : TokenExpires(t)
           \/ \E c \in Cancels : CancelLoad(c) \/ CancelCommit(c)
           \/ TimePasses \/ ExpiryNext \/ SettlementNext
  BY <1>1, <1>5, RestFrame DEF provVars
<1> QED
  BY <1>1, <1>2, <1>3, <1>4, <1>5, Actors DEF vars

\* The escrow reaches Held only with a ledger row; rows are never removed.
LEMMA CreditedStep ==
  ASSUME TypeOK, BackedInv, [Next]_vars
  PROVE  /\ ledger \subseteq ledger'
         /\ status' \in CreditedStatuses \/ timer' = "read" => ledger' # {}
<1> DEFINE Goal == /\ ledger \subseteq ledger'
                   /\ status' \in CreditedStatuses \/ timer' = "read" => ledger' # {}
<1>1. CASE UNCHANGED <<status, timer, ledger>>
  BY <1>1 DEF BackedInv
<1>2. ASSUME NEW r \in Payments, FundNext(r) \/ FundCrash(r)
      PROVE  Goal
  <2>1. UNCHANGED <<timer, ledger>>
    BY <1>2, FundFrame
  <2>2. status' \in {status, "AwaitingPayment"}
    BY <1>2 DEF FundNext, FundCrash, TokenRead, TokenConsume, FundRefused,
       FundLoad, FundCheckPending, FundReissue, FundCreatePayment, FundInitiate, SessionOpened,
       FundProviderError, FundMarkFailed, FundCommit, escrowVars
  <2> QED
    BY <2>1, <2>2 DEF BackedInv, CreditedStatuses
<1>3. ASSUME NEW q \in Payments,
             \/ PayerNext(q) \/ HookStep(q) \/ JobStalls(q)
             \/ \E k \in Kinds : HookRecord(q, k) \/ HookCrash(q, k)
      PROVE  Goal
  BY <1>1, <1>3, HookFrame DEF escrowVars
<1>4. ASSUME NEW q \in Payments, NEW j \in Runs, ConfirmStep(q, j) \/ RunFault(q, j)
      PROVE  Goal
  <2>1. CASE ConfirmCredit(q, j)
    BY <2>1 DEF ConfirmCredit, LedgerOnceFunded
  <2> QED
    BY <1>1, <1>4, <2>1, ConfirmFrame
<1>5. ASSUME \/ \E t \in Tokens : TokenExpires(t)
             \/ \E c \in Cancels : CancelLoad(c) \/ CancelCommit(c)
             \/ TimePasses \/ ExpiryNext \/ SettlementNext
      PROVE  Goal
  <2>1. ledger' = ledger
    BY <1>5, RestFrame
  <2>2. \/ status' \in {status, "Cancelled"} /\ timer' \in {timer, "waiting", "done"}
        \/ status \in CreditedStatuses \/ timer = "read"
    BY <1>5 DEF TokenExpires, CancelLoad, CancelCommit, TimePasses, ExpiryNext,
                ExpireRead, ExpireWrite, ExpireCrash, RescheduleExpiry,
                SettlementNext, SettlementMoves, TimerRead, TimerWrite, TimerCrash, CreditedStatuses, escrowVars
  <2> QED
    BY <2>1, <2>2 DEF BackedInv, CreditedStatuses
<1> QED
  BY <1>1, <1>2, <1>3, <1>4, <1>5, Actors DEF vars

LEMMA BackedStep == TypeOK /\ BackedInv /\ [Next]_vars => BackedInv'
<1> SUFFICES ASSUME TypeOK, BackedInv, [Next]_vars PROVE BackedInv'
  OBVIOUS
<1>1. ASSUME NEW p \in Payments PROVE session'[p] = "charged" => fund'[p] = "done"
  BY OnlyCharged
<1>2. ASSUME NEW p \in Payments, hook'[p]["success"] # "unsent"
      PROVE  session'[p] = "charged"
  BY <1>2, OnlyCharged, ChargeStays
<1>3. ASSUME NEW p \in Payments, NEW i \in Runs, run'[p][i] # "none"
      PROVE  session'[p] = "charged"
  BY <1>3, OnlyCharged, ChargeStays
<1>4. ASSUME NEW p \in ledger' PROVE session'[p] = "charged"
  <2>1. TypeOK /\ ledger \subseteq Payments
    BY DEF TypeOK
  <2>2. p \in Payments
    <3>1. ledger' \subseteq Payments
      <4>1. \/ ledger' = ledger
            \/ \E q \in Payments : ledger' = ledger \cup {q}
        BY Actors, FundFrame, HookFrame, ConfirmFrame, RestFrame
           DEF ConfirmCredit, LedgerOnceFunded, vars
      <4> QED
        BY <2>1, <4>1
    <3> QED
      BY <3>1
  <2> QED
    BY <2>2, OnlyCharged, ChargeStays
<1> QED
  BY <1>1, <1>2, <1>3, <1>4, CreditedStep DEF BackedInv

\* From Held on the escrow has a Funding row whose payment was charged.
THEOREM Backed == Spec => []FundedIsBacked
<1>1. Spec => []BackedInv
  BY TypeCorrect, BackedInit, BackedStep, PTL DEF Spec
<1>2. BackedInv => FundedIsBacked
  BY DEF BackedInv, FundedIsBacked
<1> QED
  BY <1>1, <1>2, PTL

-----------------------------------------------------------------------------
(* No charge is dropped.                                                    *)

Accounted(p) == pay[p] \in {"Completed", "Failed"}

\* Some run has made the credit, and announced it or has still to do so.
Gives(p) == \E i \in Runs : run[p][i] \in {"credited", "announced"}

\* Who sees to a charge that is not accounted for: the provider, which has still a
\* webhook to deliver that will be recorded, a handler of one that was, or a run of
\* the confirm job that has yet to write the payment.
ChargeInHand ==
  \A p \in Payments :
    session[p] = "charged" /\ ~Accounted(p) =>
      \/ hook[p]["success"] = "unsent" /\ ~Recorded(DedupKey(p, "success"))
      \/ hook[p]["success"] = "recorded" \/ hook[p]["failed"] = "recorded"
      \/ \E i \in Runs :
           run[p][i] \in {"queued", "read", "verified", "accepted", "rejected"}
      \/ Faults \cap {"webhook", "throw", "crash"} # {}

\* A credit is announced, or the run that made it has yet to announce it.
CreditInHand ==
  \A p \in ledger : Gives(p) \/ Faults \cap {"throw", "crash"} # {}

\* What each webhook and each run leaves behind by the time it ends.
Hand(p) ==
  /\ fund[p] \in {"created", "initiated", "providerFailed", "done"} => pay[p] # "none"
  /\ p \in declined \/ hook[p]["failed"] # "unsent" => fund[p] = "done"
  /\ hook[p]["failed"] = "handled" => Accounted(p)
  /\ hook[p]["failed"] = "lost" \/ hook[p]["success"] = "lost" => "webhook" \in Faults
  /\ hook[p]["success"] \in {"unsent", "recorded"} => \A i \in Runs : run[p][i] = "none"
  /\ hook[p]["success"] = "handled" => run[p]["first"] # "none"
  /\ \A i \in Runs :
       /\ run[p][i] \in {"credited", "announced", "skipped"} => Accounted(p)
       /\ run[p][i] = "failed" => Accounted(p) \/ "throw" \in Faults
       /\ run[p][i] = "dead" => "crash" \in Faults
  /\ p \in ledger => Accounted(p)
  /\ p \in ledger => Gives(p) \/ Faults \cap {"throw", "crash"} # {}

HandInv == \A p \in Payments : Hand(p)

LEMMA HandInit == Init => HandInv
BY DEF Init, HandInv, Hand, Gives, Kinds, Runs

\* A fund request that moves is before its charge, and so has neither webhook nor
\* run nor ledger row.
LEMMA HandFund ==
  ASSUME TypeOK, BackedInv, HandInv, NEW r \in Payments, FundNext(r) \/ FundCrash(r),
         NEW p \in Payments
  PROVE  Hand(p)'
<1>1. /\ fund[r] # "done"
      /\ \E to : fund' = [fund EXCEPT ![r] = to]
      /\ pay' = pay \/ \E s : pay' = [pay EXCEPT ![r] = s]
      /\ UNCHANGED <<declined, hook, run, ledger>>
  BY FundFrame DEF FundNext, FundCrash, TokenRead, TokenConsume, FundRefused,
     FundLoad, FundCheckPending, FundReissue, FundCreatePayment, FundInitiate,
     SessionOpened, FundProviderError, FundMarkFailed, FundCommit, Step, Ended
<1>2. CASE r # p
  <2>1. /\ UNCHANGED <<declined, hook, run, ledger>>
        /\ fund'[p] = fund[p] /\ pay'[p] = pay[p]
    BY <1>1, <1>2 DEF TypeOK
  <2> QED
    BY <2>1 DEF HandInv, Hand, Accounted, Gives
<1>3. CASE r = p
  <2>1. /\ session[p] # "charged" /\ p \notin declined /\ hook[p]["failed"] = "unsent"
        /\ hook[p]["success"] = "unsent" /\ p \notin ledger
        /\ \A i \in Runs : run[p][i] = "none"
    BY <1>1, <1>3 DEF BackedInv, HandInv, Hand
  <2>2. fund'[p] \in {"created", "initiated", "providerFailed", "done"} => pay'[p] # "none"
    BY <1>3 DEF FundNext, FundCrash, TokenRead, TokenConsume, FundRefused,
       FundLoad, FundCheckPending, FundReissue, FundCreatePayment, FundInitiate,
       SessionOpened, FundProviderError, FundMarkFailed, FundCommit, Step,
       AfterConflict, TypeOK, HandInv, Hand
  <2> QED
    BY <1>1, <2>1, <2>2 DEF Hand
<1> QED
  BY <1>2, <1>3

\* How a webhook or a stalled job moves.
LEMMA HandHook ==
  ASSUME TypeOK, BackedInv, HandInv, NEW q \in Payments,
         \/ PayerNext(q) \/ HookStep(q) \/ JobStalls(q)
         \/ \E k \in Kinds : HookRecord(q, k) \/ HookCrash(q, k),
         NEW p \in Payments
  PROVE  Hand(p)'
<1>1. UNCHANGED <<fund, ledger>>
  BY HookFrame DEF fundVars
<1>2. Hand(p) /\ Hand(q)
  BY DEF HandInv
<1>3. /\ hook \in [Payments -> [Kinds -> {"unsent", "recorded", "handled", "lost"}]]
      /\ run \in [Payments -> [Runs -> RunPC]] /\ "success" \in Kinds /\ "failed" \in Kinds
      /\ pay \in [Payments -> {"none", "Pending", "Completed", "Failed"}]
      /\ "first" \in Runs /\ "rerun" \in Runs
  BY DEF TypeOK, Kinds, Runs
<1> USE DEF Hand, Accounted, Gives
<1>4. CASE PayerNext(q)
  BY <1>1, <1>2, <1>4 DEF PayerNext, PayerPays, PayerDeclined
<1>5. CASE HookEnqueueConfirm(q)
  <2>1. UNCHANGED <<pay, declined>>
    BY <1>5 DEF HookEnqueueConfirm, provVars
  <2>2. CASE q # p
    BY <1>1, <1>2, <1>3, <1>5, <2>1, <2>2 DEF HookEnqueueConfirm
  <2>3. CASE q = p
    <3>1. /\ hook[p]["success"] = "recorded" /\ hook'[p]["success"] = "handled"
          /\ hook'[p]["failed"] = hook[p]["failed"]
          /\ run'[p]["first"] = "queued" /\ run'[p]["rerun"] = run[p]["rerun"]
      BY <1>3, <1>5, <2>3 DEF HookEnqueueConfirm
    <3>2. run[p]["first"] = "none" /\ run[p]["rerun"] = "none"
      BY <1>2, <1>3, <3>1
    <3> QED
      BY <1>1, <1>2, <2>1, <3>1, <3>2 DEF Runs
  <2> QED
    BY <2>2, <2>3
<1>6. CASE HookMarkFailed(q)
  <2>1. UNCHANGED <<run, declined>> /\ hook[q]["failed"] = "recorded"
    BY <1>6 DEF HookMarkFailed, provVars
  <2>2. CASE q # p
    BY <1>1, <1>2, <1>3, <1>6, <2>1, <2>2 DEF HookMarkFailed
  <2>3. CASE q = p
    <3>1. /\ hook'[p]["success"] = hook[p]["success"]
          /\ hook'[p]["failed"] = "handled" /\ pay'[p] = "Failed"
      BY <1>3, <1>6, <2>3 DEF HookMarkFailed
    <3> QED
      BY <1>1, <1>2, <2>1, <2>3, <3>1
  <2> QED
    BY <2>2, <2>3
<1>7. CASE JobStalls(q)
  <2>1. /\ UNCHANGED <<pay, declined, hook>>
        /\ run[q]["first"] # "none"
        /\ run[q]["rerun"] = "none" /\ run' = [run EXCEPT ![q]["rerun"] = "queued"]
    BY <1>7 DEF JobStalls, provVars, RunStep, Running
  <2>2. CASE q # p
    BY <1>1, <1>2, <1>3, <2>1, <2>2
  <2>3. CASE q = p
    <3>1. run'[p]["first"] = run[p]["first"] /\ run'[p]["rerun"] = "queued"
      BY <1>3, <2>1, <2>3
    <3> QED
      BY <1>1, <1>2, <1>3, <2>1, <2>3, <3>1 DEF Runs
  <2> QED
    BY <2>2, <2>3
<1>8. ASSUME NEW k \in Kinds, HookRecord(q, k) \/ HookCrash(q, k)
      PROVE  Hand(p)'
  <2>1. UNCHANGED <<pay, declined, run>>
    BY <1>8 DEF HookRecord, HookCrash, provVars
  <2>2. CASE q # p
    BY <1>1, <1>2, <1>3, <1>8, <2>1, <2>2 DEF HookRecord, HookCrash
  <2>3. CASE q = p /\ HookRecord(q, k)
    <3>1. /\ hook'[p][k] = "recorded" /\ \A l \in Kinds : l # k => hook'[p][l] = hook[p][l]
          /\ EventSent(p, k) /\ ~Recorded(DedupKey(p, k))
      BY <1>3, <2>3 DEF HookRecord
    <3>2. hook[p][k] = "unsent"
      BY <3>1 DEF Recorded
    <3>3. k = "failed" => fund[p] = "done"
      BY <1>2, <3>1 DEF EventSent
    <3> QED
      BY <1>1, <1>2, <2>1, <3>1, <3>2, <3>3 DEF Kinds
  <2>4. CASE q = p /\ HookCrash(q, k)
    <3>1. /\ hook[p][k] = "recorded" /\ hook'[p][k] = "lost" /\ "webhook" \in Faults
          /\ \A l \in Kinds : l # k => hook'[p][l] = hook[p][l]
      BY <1>3, <2>4 DEF HookCrash
    <3> QED
      BY <1>1, <1>2, <2>1, <3>1 DEF Kinds
  <2> QED
    BY <1>8, <2>2, <2>3, <2>4
<1> QED
  BY <1>4, <1>5, <1>6, <1>7, <1>8 DEF HookStep

\* A run of the confirm job ends with the payment accounted for, or by a fault.
LEMMA HandConfirm ==
  ASSUME TypeOK, BackedInv, HandInv, NEW q \in Payments, NEW i \in Runs,
         ConfirmStep(q, i) \/ RunFault(q, i), NEW p \in Payments
  PROVE  Hand(p)'
<1>1. UNCHANGED <<fund, hook, declined>>
  BY ConfirmFrame DEF fundVars, provVars
<1>2. Hand(p) /\ run[p] \in [Runs -> RunPC]
  BY DEF HandInv, TypeOK
<1>3. PICK from, to : from # "none" /\ RunStep(q, i, from, to)
  BY ConfirmFrame
<1>4. run[q][i] # "none" /\ session[q] = "charged" /\ fund[q] = "done" /\ pay[q] # "none"
  BY <1>3 DEF RunStep, BackedInv, HandInv, Hand
<1>5. /\ pay' = pay \/ \E s \in {"Completed", "Failed"} : pay' = [pay EXCEPT ![q] = s]
      /\ ledger' = ledger \/ ConfirmCredit(q, i)
      /\ ConfirmCredit(q, i) => ledger' = ledger \cup {q}
  BY DEF ConfirmStep, RunFault, ConfirmRead, ConfirmVerified, ConfirmNotVerified,
     ConfirmPreflight, ConfirmReject, ConfirmCredit, ConfirmDuplicateCredit,
     ConfirmNotFundable, ConfirmAnnounce, ConfirmThrows, WorkerCrash, LedgerOnceFunded
<1> USE DEF Hand, Accounted, Gives
<1>6. CASE q # p
  BY <1>1, <1>2, <1>3, <1>5, <1>6 DEF RunStep, TypeOK
<1>7. CASE q = p
  <2>1. /\ run'[p][i] = to /\ \A j \in Runs : j # i => run'[p][j] = run[p][j]
        /\ run[p][i] = from
    BY <1>3, <1>7 DEF RunStep, TypeOK
  <2>2. /\ pay[p] \in {"Pending", "Completed", "Failed"}
        /\ Accounted(p) => Accounted(p)'
    BY <1>4, <1>5, <1>7 DEF TypeOK
  <2>3. /\ run'[p][i] \in {"credited", "announced", "skipped"} => Accounted(p)'
        /\ run'[p][i] = "failed" => Accounted(p)' \/ "throw" \in Faults
        /\ run'[p][i] = "dead" => "crash" \in Faults
        /\ run'[p][i] # "none"
        /\ run[p][i] \in {"credited", "announced"} =>
             \/ run'[p][i] \in {"credited", "announced"}
             \/ Faults \cap {"throw", "crash"} # {}
        /\ ConfirmCredit(p, i) => run'[p][i] = "credited"
    <3> HIDE DEF Hand
    <3>0. run \in [Payments -> [Runs -> RunPC]] /\ pay \in [Payments -> {"none", "Pending", "Completed", "Failed"}]
      BY DEF TypeOK
    <3>1. CASE ConfirmRead(q, i)
      BY <1>7, <2>2, <3>0, <3>1 DEF ConfirmRead, RunStep, ConfirmCredit
    <3>2. CASE \/ ConfirmVerified(q, i) \/ ConfirmNotVerified(q, i)
               \/ ConfirmPreflight(q, i) \/ ConfirmNotFundable(q, i)
      BY <1>7, <3>0, <3>2 DEF ConfirmVerified, ConfirmNotVerified, ConfirmPreflight,
         ConfirmNotFundable, RunStep, ConfirmCredit
    <3>3. CASE ConfirmReject(q, i) \/ ConfirmCredit(q, i)
      BY <1>7, <3>0, <3>3 DEF ConfirmReject, ConfirmCredit, RunStep
    <3>4. CASE ConfirmDuplicateCredit(q, i)
      <4>1. Accounted(p)
        BY <1>2, <1>7, <3>4 DEF ConfirmDuplicateCredit, Hand
      <4> QED
        BY <1>7, <2>2, <3>0, <3>4, <4>1 DEF ConfirmDuplicateCredit, RunStep, ConfirmCredit
    <3>5. CASE ConfirmAnnounce(q, i)
      <4>1. Accounted(p)
        BY <1>2, <1>7, <3>5 DEF ConfirmAnnounce, RunStep, Hand
      <4> QED
        BY <1>7, <2>2, <3>0, <3>5, <4>1 DEF ConfirmAnnounce, RunStep, ConfirmCredit
    <3>6. CASE RunFault(q, i)
      BY <1>7, <3>0, <3>6 DEF RunFault, ConfirmThrows, WorkerCrash, RunStep, ConfirmCredit
    <3> QED
      BY <3>1, <3>2, <3>3, <3>4, <3>5, <3>6 DEF ConfirmStep
  <2>4. p \in ledger' => p \in ledger \/ run'[p][i] = "credited"
    BY <1>5, <1>7, <2>3
  <2>5. Gives(p) => Gives(p)' \/ Faults \cap {"throw", "crash"} # {}
    BY <2>1, <2>3 DEF Runs
  <2>6. run'[p][i] = "credited" => Gives(p)'
    BY DEF Runs
  <2>7. /\ hook[p]["success"] \notin {"unsent", "recorded"}
        /\ run'[p]["first"] = "none" => run[p]["first"] = "none"
    <3>1. hook[p]["success"] \notin {"unsent", "recorded"}
      BY <1>2, <1>4, <1>7
    <3>2. "first" \in Runs /\ run'[p][i] # "none"
      BY <2>3 DEF Runs
    <3> QED
      BY <2>1, <3>1, <3>2
  <2>8. \A j \in Runs :
          /\ run'[p][j] \in {"credited", "announced", "skipped"} => Accounted(p)'
          /\ run'[p][j] = "failed" => Accounted(p)' \/ "throw" \in Faults
          /\ run'[p][j] = "dead" => "crash" \in Faults
    <3> TAKE j \in Runs
    <3>1. CASE j = i
      BY <2>3, <3>1
    <3>2. CASE j # i
      <4>1. run'[p][j] = run[p][j]
        BY <2>1, <3>2
      <4>2. /\ run[p][j] \in {"credited", "announced", "skipped"} => Accounted(p)
            /\ run[p][j] = "failed" => Accounted(p) \/ "throw" \in Faults
            /\ run[p][j] = "dead" => "crash" \in Faults
        BY <1>2
      <4> QED
        BY <2>2, <4>1, <4>2
    <3> QED
      BY <3>1, <3>2
  <2>9. p \in ledger' => Accounted(p)' /\ (Gives(p)' \/ Faults \cap {"throw", "crash"} # {})
    <3>1. CASE p \in ledger
      BY <1>2, <2>2, <2>5, <3>1
    <3>2. CASE run'[p][i] = "credited"
      BY <2>3, <2>6, <3>2
    <3> QED
      BY <2>4, <3>1, <3>2
  <2>10. /\ fund'[p] \in {"created", "initiated", "providerFailed", "done"} => pay'[p] # "none"
         /\ p \in declined' \/ hook'[p]["failed"] # "unsent" => fund'[p] = "done"
         /\ hook'[p]["failed"] = "handled" => Accounted(p)'
         /\ hook'[p]["failed"] = "lost" \/ hook'[p]["success"] = "lost" => "webhook" \in Faults
    BY <1>1, <1>2, <1>4, <1>5, <1>7, <2>2 DEF TypeOK
  <2>11. /\ hook'[p]["success"] \in {"unsent", "recorded"} =>
              \A j \in Runs : run'[p][j] = "none"
         /\ hook'[p]["success"] = "handled" => run'[p]["first"] # "none"
    BY <1>1, <1>2, <2>7
  <2> HIDE DEF Gives, Accounted
  <2> QED
    BY <2>8, <2>9, <2>10, <2>11
<1> QED
  BY <1>6, <1>7

LEMMA HandStep == TypeOK /\ BackedInv /\ HandInv /\ [Next]_vars => HandInv'
<1> SUFFICES ASSUME TypeOK, BackedInv, HandInv, [Next]_vars, NEW p \in Payments
             PROVE  Hand(p)'
  BY DEF HandInv
<1>1. CASE UNCHANGED <<fund, pay, declined, hook, run, ledger>>
  BY <1>1 DEF HandInv, Hand, Accounted, Gives
<1> QED
  BY <1>1, Actors, HandFund, HandHook, HandConfirm, RestFrame DEF vars, provVars

\* A charge is never dropped: whatever happens, unless the process dies over a
\* webhook it has recorded or a confirm run throws or dies, the payment is accounted
\* for or somebody has still to account for it.
THEOREM ChargeIsInHand == Spec => []ChargeInHand
<1>1. TypeOK /\ BackedInv /\ HandInv => ChargeInHand
  <2> SUFFICES ASSUME TypeOK, BackedInv, HandInv, NEW p \in Payments,
                      session[p] = "charged", ~Accounted(p),
                      Faults \cap {"webhook", "throw", "crash"} = {},
                      hook[p]["success"] # "recorded", hook[p]["failed"] # "recorded"
               PROVE  \/ hook[p]["success"] = "unsent" /\ ~Recorded(DedupKey(p, "success"))
                      \/ \E i \in Runs :
                           run[p][i] \in {"queued", "read", "verified", "accepted", "rejected"}
    BY DEF ChargeInHand
  <2>1. /\ hook[p]["success"] \in {"unsent", "handled"}
        /\ hook[p]["failed"] = "unsent"
    BY DEF HandInv, Hand, TypeOK, Kinds
  <2>2. CASE hook[p]["success"] = "unsent"
    <3>1. ASSUME NEW r \in Payments, NEW k \in Kinds, hook[r][k] # "unsent",
                 DedupKey(r, k) = DedupKey(p, "success")
          PROVE  FALSE
      <4>1. r = p
        BY <3>1 DEF DedupKey
      <4> QED
        BY <2>1, <2>2, <3>1, <4>1 DEF Kinds
    <3> QED
      BY <2>2, <3>1 DEF Recorded
  <2>3. CASE hook[p]["success"] = "handled"
    <3>1. "first" \in Runs /\ run[p]["first"] \in RunPC /\ run[p]["first"] # "none"
      BY <2>3 DEF HandInv, Hand, TypeOK, Runs
    <3>2. run[p]["first"] \notin {"credited", "announced", "skipped", "failed", "dead"}
      BY <3>1 DEF HandInv, Hand
    <3> QED
      BY <3>1, <3>2 DEF RunPC
  <2> QED
    BY <2>1, <2>2, <2>3
<1> QED
  BY <1>1, TypeCorrect, BackedInit, BackedStep, HandInit, HandStep, PTL DEF Spec

\* A credit whose announcement is not to come has lost the worker that made it.
THEOREM CreditIsInHand == Spec => []CreditInHand
<1>1. TypeOK /\ HandInv => CreditInHand
  BY DEF HandInv, Hand, CreditInHand, TypeOK
<1> QED
  BY <1>1, TypeCorrect, BackedInit, BackedStep, HandInit, HandStep, PTL DEF Spec

-----------------------------------------------------------------------------
(* The table.                                                               *)

\* A cancellation gets past its check only from a status it may cancel; its
\* guard then repeats that status.
CancelInv ==
  \A c \in Cancels :
    cancel[c] = "loaded" => CanTransition(cancelSeen[c], "Cancelled")

LEMMA CancelInit == Init => CancelInv
BY DEF Init, CancelInv

LEMMA CancelStep == TypeOK /\ CancelInv /\ [Next]_vars => CancelInv'
<1> SUFFICES ASSUME TypeOK, CancelInv, [Next]_vars PROVE CancelInv'
  OBVIOUS
<1>1. CASE UNCHANGED cancelVars
  BY <1>1 DEF CancelInv, cancelVars
<1>2. ASSUME NEW c \in Cancels, CancelLoad(c) PROVE CancelInv'
  BY <1>2 DEF CancelLoad, CancelInv, TypeOK
<1>3. ASSUME NEW c \in Cancels, CancelCommit(c) PROVE CancelInv'
  BY <1>3 DEF CancelCommit, CancelInv, TypeOK
<1>4. CASE \/ \E t \in Tokens : TokenExpires(t)
           \/ TimePasses \/ ExpiryNext \/ SettlementNext
  BY <1>1, <1>4 DEF TokenExpires, TimePasses, ExpiryNext, ExpireRead, ExpireWrite,
     ExpireCrash, RescheduleExpiry, SettlementNext, SettlementMoves, TimerRead, TimerWrite, TimerCrash
<1>5. CASE \/ UNCHANGED vars
           \/ \E r \in Payments : FundNext(r) \/ FundCrash(r)
           \/ \E p \in Payments :
                \/ PayerNext(p) \/ HookStep(p) \/ JobStalls(p)
                \/ \E k \in Kinds : HookRecord(p, k) \/ HookCrash(p, k)
           \/ \E p \in Payments, i \in Runs : ConfirmStep(p, i) \/ RunFault(p, i)
  BY <1>1, <1>5, FundFrame, HookFrame, ConfirmFrame DEF vars, cancelVars
<1> QED
  BY <1>2, <1>3, <1>4, <1>5, Actors

LEMMA TableStep ==
  TypeOK /\ CancelInv /\ [Next]_vars =>
    [status' # status =>
       \/ <<status, status'>> \in ObservableTransitions
       \/ ExpireWrite \/ TimerWrite
       \/ \E r \in Payments : FundCommit(r)]_vars
<1> SUFFICES ASSUME TypeOK, CancelInv, [Next]_vars, status' # status
             PROVE  \/ <<status, status'>> \in ObservableTransitions
                    \/ ExpireWrite \/ TimerWrite
                    \/ \E r \in Payments : FundCommit(r)
  OBVIOUS
<1> USE DEF ObservableTransitions
<1>1. ASSUME NEW r \in Payments, FundNext(r) \/ FundCrash(r) PROVE FundCommit(r)
  BY <1>1 DEF FundNext, FundCrash, TokenRead, TokenConsume, FundRefused, FundLoad,
     FundCheckPending, FundReissue, FundCreatePayment, FundInitiate, SessionOpened,
     FundProviderError, FundMarkFailed, escrowVars
<1>2. ASSUME NEW p \in Payments, NEW i \in Runs, ConfirmStep(p, i) \/ RunFault(p, i)
      PROVE  <<status, status'>> \in ObservableTransitions
  <2>1. ConfirmCredit(p, i)
    BY <1>2, ConfirmFrame
  <2> QED
    BY <2>1 DEF ConfirmCredit, FundGuard, StatusOnceFunded, FundableEscrowStatuses
<1>3. ASSUME NEW c \in Cancels, CancelLoad(c) \/ CancelCommit(c)
      PROVE  <<status, status'>> \in ObservableTransitions
  BY <1>3 DEF CancelLoad, CancelCommit, CancelGuard, CancelInv, CanTransition,
     escrowVars
<1>4. CASE ExpiryNext
  BY <1>4 DEF ExpiryNext, ExpireRead, ExpireWrite, ExpireCrash, RescheduleExpiry
<1>5. CASE SettlementNext
  BY <1>5 DEF SettlementNext, SettlementMoves, TimerRead, TimerCrash, CanTransition
<1>6. ASSUME NEW p \in Payments,
             \/ PayerNext(p) \/ HookStep(p) \/ JobStalls(p)
             \/ \E k \in Kinds : HookRecord(p, k) \/ HookCrash(p, k)
      PROVE  FALSE
  BY <1>6, HookFrame DEF escrowVars
<1>7. CASE TimePasses \/ \E t \in Tokens : TokenExpires(t)
  BY <1>7 DEF TimePasses, TokenExpires, escrowVars
<1> QED
  BY <1>1, <1>2, <1>3, <1>4, <1>5, <1>6, <1>7, Actors DEF vars

\* Every status change is a row of the table, but for the three updates that do
\* not check the status they replace.
THEOREM OnlyBlindWrites == Spec => OnlyBlindWritesLeaveTheTable
<1>1. Spec => []CancelInv
  BY TypeCorrect, CancelInit, CancelStep, PTL DEF Spec
<1> QED
  BY <1>1, TypeCorrect, TableStep, PTL DEF Spec, OnlyBlindWritesLeaveTheTable

-----------------------------------------------------------------------------
(* Fund action tokens.                                                      *)

\* A request holds its token from the DEL that answered 1 until it ends without
\* a session; one that opened a session holds it for good, unless it hands the
\* token back because the call that opened the session did not answer.
Holds(r) ==
  \/ fund[r] \in {"tokenTaken", "loaded", "cleared", "created", "initiated",
                  "providerFailed", "reissuing", "done"}
  \/ session[r] # "none" /\ fund[r] # "answered"

HasToken(r, t) == TokenOf[r] = t /\ Holds(r)

\* A session is opened by the call to the provider; the payment of one whose
\* answer was lost is Failed before the token is handed back.
LostSession(r) ==
  session[r] # "none" =>
    /\ fund[r] \in {"initiated", "providerFailed", "reissuing", "answered", "done",
                    "dead"}
    /\ fund[r] \in {"reissuing", "answered"} => pay[r] = "Failed"

\* Redis and the requests share out each token: at most one of them has it.
TokenInv ==
  /\ \A r \in Payments : LostSession(r)
  /\ \A t \in Tokens, r \in Payments : HasToken(r, t) => t \notin token
  /\ \A t \in Tokens, r, q \in Payments :
       HasToken(r, t) /\ HasToken(q, t) => r = q

LEMMA TokenInit == Init => TokenInv
BY DEF Init, TokenInv, LostSession, HasToken, Holds

\* Only the request that takes the token out of Redis becomes its holder, and
\* the one that puts it back stops being it.
LEMMA HoldsStep ==
  ASSUME TypeOK, TokenInv, NEW r \in Payments, FundNext(r) \/ FundCrash(r)
  PROVE  /\ \A q \in Payments : q # r => (Holds(q)' <=> Holds(q))
         /\ LostSession(r)'
         /\ \/ Holds(r)' => Holds(r) \/ TokenOf[r] = NoToken
            \/ TokenOf[r] \in token
         /\ \/ token' = token /\ (Holds(r)' => Holds(r) \/ TokenOf[r] = NoToken)
            \/ token' = token \ {TokenOf[r]}
            \/ token' = token \cup {TokenOf[r]} /\ Holds(r) /\ ~Holds(r)'
<1>1. \A q \in Payments : q # r => fund'[q] = fund[q] /\ session'[q] = session[q]
  BY FundFrame DEF TypeOK
<1>2. \A q \in Payments : q # r => (Holds(q)' <=> Holds(q))
  BY <1>1 DEF Holds
<1> DEFINE Goal ==
         /\ LostSession(r)'
         /\ \/ Holds(r)' => Holds(r) \/ TokenOf[r] = NoToken
            \/ TokenOf[r] \in token
         /\ \/ token' = token /\ (Holds(r)' => Holds(r) \/ TokenOf[r] = NoToken)
            \/ token' = token \ {TokenOf[r]}
            \/ token' = token \cup {TokenOf[r]} /\ Holds(r) /\ ~Holds(r)'
<1> USE DEF TokenInv, LostSession, Holds, Step, TypeOK, provVars
<1>3. CASE TokenRead(r)
  BY <1>3 DEF TokenRead
<1>4. CASE TokenConsume(r)
  BY <1>4 DEF TokenConsume, ConsumedBy
<1>5. CASE FundRefused(r)
  BY <1>5 DEF FundRefused, UsesToken
<1>6. CASE FundLoad(r)
  BY <1>6 DEF FundLoad, UsesToken
<1>7. CASE FundCheckPending(r)
  BY <1>7 DEF FundCheckPending, AfterConflict
<1>8. CASE FundReissue(r)
  BY <1>8 DEF FundReissue
<1>9. CASE FundCreatePayment(r)
  BY <1>9 DEF FundCreatePayment
<1>10. CASE FundInitiate(r)
  BY <1>10 DEF FundInitiate, SessionOpened
<1>11. CASE FundProviderError(r)
  BY <1>11 DEF FundProviderError, SessionOpened
<1>12. CASE FundMarkFailed(r)
  BY <1>12 DEF FundMarkFailed, AfterConflict
<1>13. CASE FundCommit(r)
  BY <1>13 DEF FundCommit
<1>14. CASE FundCrash(r)
  BY <1>14 DEF FundCrash, Ended
<1>15. Goal
  BY <1>3, <1>4, <1>5, <1>6, <1>7, <1>8, <1>9, <1>10, <1>11, <1>12, <1>13, <1>14
     DEF FundNext
<1> QED
  BY <1>2, <1>15

LEMMA TokenStep == TypeOK /\ BackedInv /\ TokenInv /\ [Next]_vars => TokenInv'
<1> SUFFICES ASSUME TypeOK, BackedInv, TokenInv, [Next]_vars PROVE TokenInv'
  OBVIOUS
<1>1. ASSUME UNCHANGED <<fund, session, pay>>, token' \subseteq token
      PROVE  TokenInv'
  BY <1>1 DEF TokenInv, LostSession, HasToken, Holds
<1>2. ASSUME NEW r \in Payments, FundNext(r) \/ FundCrash(r)
      PROVE  TokenInv'
  <2>1. \A q \in Payments : q # r => (Holds(q)' <=> Holds(q))
    BY <1>2, HoldsStep
  <2>2. /\ LostSession(r)'
        /\ \/ Holds(r)' => Holds(r) \/ TokenOf[r] = NoToken
           \/ TokenOf[r] \in token
        /\ \/ token' = token /\ (Holds(r)' => Holds(r) \/ TokenOf[r] = NoToken)
           \/ token' = token \ {TokenOf[r]}
           \/ token' = token \cup {TokenOf[r]} /\ Holds(r) /\ ~Holds(r)'
    BY <1>2, HoldsStep
  <2>3. \A q \in Payments : LostSession(q)'
    <3>1. \A q \in Payments : q # r => fund'[q] = fund[q] /\ session'[q] = session[q]
      BY <1>2, FundFrame DEF TypeOK
    <3>2. \A q \in Payments : q # r => pay'[q] = pay[q]
      BY <1>2 DEF FundNext, FundCrash, TokenRead, TokenConsume, FundRefused,
         FundLoad, FundCheckPending, FundReissue, FundCreatePayment, FundInitiate,
         FundProviderError, FundMarkFailed, FundCommit, TypeOK
    <3> QED
      BY <2>2, <3>1, <3>2 DEF TokenInv, LostSession
  <2> HIDE DEF Holds
  <2>4. \A t \in Tokens, q \in Payments : HasToken(q, t)' => t \notin token'
    <3> SUFFICES ASSUME NEW t \in Tokens, NEW q \in Payments, TokenOf[q] = t, Holds(q)'
                 PROVE  t \notin token'
      BY DEF HasToken
    <3>1. NoToken # t
      OBVIOUS
    <3>2. CASE q = r
      BY <2>2, <3>1, <3>2 DEF TokenInv, HasToken
    <3>3. CASE q # r
      BY <2>1, <2>2, <3>3 DEF TokenInv, HasToken
    <3> QED
      BY <3>2, <3>3
  <2>5. \A t \in Tokens, p, q \in Payments :
          HasToken(p, t)' /\ HasToken(q, t)' => p = q
    <3> SUFFICES ASSUME NEW t \in Tokens, NEW p \in Payments, NEW q \in Payments,
                        TokenOf[p] = t, TokenOf[q] = t, Holds(p)', Holds(q)', p # q
                 PROVE  FALSE
      BY DEF HasToken
    <3>1. NoToken # t
      OBVIOUS
    <3>2. ASSUME NEW s \in Payments, s # r, TokenOf[s] = t, Holds(s)',
                 TokenOf[r] = t, Holds(r)'
          PROVE  FALSE
      BY <2>1, <2>2, <3>1, <3>2 DEF TokenInv, HasToken
    <3>3. CASE p # r /\ q # r
      BY <2>1, <3>3 DEF TokenInv, HasToken
    <3> QED
      BY <3>2, <3>3
  <2> QED
    BY <2>3, <2>4, <2>5 DEF TokenInv
<1>3. ASSUME NEW p \in Payments,
             \/ PayerNext(p) \/ HookStep(p) \/ JobStalls(p)
             \/ \E k \in Kinds : HookRecord(p, k) \/ HookCrash(p, k)
      PROVE  TokenInv'
  <2>1. UNCHANGED <<fund, token>>
    BY <1>3, HookFrame DEF fundVars
  <2>2. \A q \in Payments : session'[q] # "none" => session[q] # "none"
    BY <1>3 DEF PayerNext, PayerPays, PayerDeclined, HookStep, HookEnqueueConfirm,
       HookMarkFailed, JobStalls, HookRecord, HookCrash, provVars, TypeOK
  <2>3. \A q \in Payments : pay'[q] \in {pay[q], "Failed"}
    BY <1>3 DEF PayerNext, PayerPays, PayerDeclined, HookStep, HookEnqueueConfirm,
       HookMarkFailed, JobStalls, HookRecord, HookCrash, TypeOK
  <2>4. \A q \in Payments : (Holds(q)' => Holds(q)) /\ LostSession(q)'
    BY <2>1, <2>2, <2>3 DEF TokenInv, LostSession, Holds
  <2> QED
    BY <2>1, <2>4 DEF TokenInv, HasToken
<1>4. ASSUME NEW p \in Payments, NEW i \in Runs, ConfirmStep(p, i) \/ RunFault(p, i)
      PROVE  TokenInv'
  <2>1. UNCHANGED <<fund, session, token>>
    BY <1>4, ConfirmFrame DEF fundVars, provVars
  <2>2. fund[p] = "done"
    BY <1>4, ConfirmFrame DEF RunStep, BackedInv
  <2>3. \A q \in Payments : q # p => pay'[q] = pay[q]
    BY <1>4 DEF ConfirmStep, RunFault, ConfirmRead, ConfirmVerified, ConfirmNotVerified,
       ConfirmPreflight, ConfirmReject, ConfirmCredit, ConfirmDuplicateCredit,
       ConfirmNotFundable, ConfirmAnnounce, ConfirmThrows, WorkerCrash, TypeOK
  <2> QED
    BY <2>1, <2>2, <2>3 DEF TokenInv, LostSession, HasToken, Holds
<1>5. CASE \/ \E t \in Tokens : TokenExpires(t)
           \/ \E c \in Cancels : CancelLoad(c) \/ CancelCommit(c)
           \/ TimePasses \/ ExpiryNext \/ SettlementNext
  <2>1. UNCHANGED <<fund, session, pay>>
    BY <1>5, RestFrame DEF provVars
  <2>2. token' \subseteq token
    BY <1>5 DEF TokenExpires, CancelLoad, CancelCommit, TimePasses, ExpiryNext,
       ExpireRead, ExpireWrite, ExpireCrash, RescheduleExpiry, SettlementNext, SettlementMoves, TimerRead, TimerWrite, TimerCrash,
       fundVars
  <2> QED
    BY <1>1, <2>1, <2>2
<1>6. CASE UNCHANGED vars
  BY <1>1, <1>6 DEF vars
<1> QED
  BY <1>2, <1>3, <1>4, <1>5, <1>6, Actors

\* A finite set with no two different members has at most one.
LEMMA AtMostOne ==
  ASSUME NEW S, IsFiniteSet(S), \A x, y \in S : x = y
  PROVE  Cardinality(S) <= 1
<1>1. CASE S = {}
  BY <1>1, FS_EmptySet
<1>2. ASSUME NEW x \in S PROVE Cardinality(S) <= 1
  <2>1. S = {x}
    BY <1>2
  <2> QED
    BY <2>1, FS_Singleton
<1> QED
  BY <1>1, <1>2

\* One token never lets the payer pay twice: of the sessions opened with it all but
\* one are those of calls that did not answer, whose payments are Failed.
THEOREM OneLink == Spec => []OneLinkPerToken
<1>1. Spec => []TokenInv
  BY TypeCorrect, BackedInit, BackedStep, TokenInit, TokenStep, PTL DEF Spec
<1>2. TokenInv => OneLinkPerToken
  <2> SUFFICES ASSUME TokenInv, NEW t \in Tokens
               PROVE  LET opened == {p \in Payments :
                                      TokenOf[p] = t /\ session[p] # "none"}
                      IN  /\ Cardinality({p \in opened : fund[p] # "answered"}) <= 1
                          /\ \A p \in opened : fund[p] = "answered" => pay[p] = "Failed"
    BY DEF OneLinkPerToken
  <2> DEFINE opened == {p \in Payments : TokenOf[p] = t /\ session[p] # "none"}
             S == {p \in opened : fund[p] # "answered"}
  <2>1. IsFiniteSet(S)
    BY FS_Subset
  <2>2. \A p, q \in S : p = q
    BY DEF TokenInv, HasToken, Holds
  <2>3. \A p \in opened : fund[p] = "answered" => pay[p] = "Failed"
    BY DEF TokenInv, LostSession
  <2>4. Cardinality(S) <= 1
    <3> HIDE DEF S
    <3> QED
      BY <2>1, <2>2, AtMostOne
  <2> QED
    BY <2>3, <2>4
<1> QED
  BY <1>1, <1>2, PTL

\* A token leaves Redis only into the hands of a request, and comes back on a
\* conflict and on a provider error.
LEMMA NotLostStep == TypeOK /\ TokenNotLost /\ [Next]_vars => TokenNotLost'
<1> SUFFICES ASSUME TypeOK, TokenNotLost, [Next]_vars, "ttl" \notin Faults,
                    NEW t \in Tokens, t \notin token'
             PROVE  \E r \in Payments :
                      /\ TokenOf[r] = t
                      /\ fund'[r] \notin {"idle", "tokenRead", "denied", "answered"}
  BY DEF TokenNotLost
<1> DEFINE Out == {"idle", "tokenRead", "denied", "answered"}
<1>1. ASSUME UNCHANGED <<fund, token>>
      PROVE  \E r \in Payments : TokenOf[r] = t /\ fund'[r] \notin Out
  BY <1>1 DEF TokenNotLost
<1>2. ASSUME NEW q \in Payments, FundNext(q) \/ FundCrash(q)
      PROVE  \E r \in Payments : TokenOf[r] = t /\ fund'[r] \notin Out
  <2>1. \A r \in Payments : r # q => fund'[r] = fund[r]
    BY <1>2, FundFrame DEF TypeOK
  <2>2. \/ TokenOf[q] = t /\ fund'[q] \notin Out
        \/ t \notin token /\ (fund'[q] \notin Out \/ fund[q] \in Out \/ TokenOf[q] # t)
    <3> USE DEF TypeOK, Step
    <3>1. NoToken # t
      OBVIOUS
    <3>2. CASE FundReissue(q)
      BY <3>2 DEF FundReissue
    <3>3. CASE TokenConsume(q)
      BY <3>3 DEF TokenConsume, ConsumedBy
    <3>4. CASE FundCheckPending(q)
      BY <3>1, <3>4 DEF FundCheckPending, AfterConflict, UsesToken
    <3>5. CASE FundMarkFailed(q)
      BY <3>1, <3>5 DEF FundMarkFailed, AfterConflict, UsesToken
    <3>6. CASE TokenRead(q) \/ FundRefused(q) \/ FundLoad(q) \/ FundCreatePayment(q)
      BY <3>6 DEF TokenRead, FundRefused, FundLoad, FundCreatePayment
    <3>7. CASE FundInitiate(q) \/ FundProviderError(q) \/ FundCommit(q) \/ FundCrash(q)
      BY <3>7 DEF FundInitiate, SessionOpened, FundProviderError, FundCommit, FundCrash
    <3> QED
      BY <1>2, <3>2, <3>3, <3>4, <3>5, <3>6, <3>7 DEF FundNext
  <2> QED
    BY <2>1, <2>2 DEF TokenNotLost
<1>3. CASE \E x \in Tokens : TokenExpires(x)
  BY <1>3 DEF TokenExpires
<1>4. ASSUME NEW p \in Payments,
             \/ PayerNext(p) \/ HookStep(p) \/ JobStalls(p)
             \/ \E k \in Kinds : HookRecord(p, k) \/ HookCrash(p, k)
      PROVE  UNCHANGED <<fund, token>>
  BY <1>4, HookFrame DEF fundVars
<1>5. ASSUME NEW p \in Payments, NEW i \in Runs, ConfirmStep(p, i) \/ RunFault(p, i)
      PROVE  UNCHANGED <<fund, token>>
  BY <1>5, ConfirmFrame DEF fundVars
<1>6. CASE \/ \E c \in Cancels : CancelLoad(c) \/ CancelCommit(c)
           \/ TimePasses \/ ExpiryNext \/ SettlementNext
  BY <1>1, <1>6 DEF CancelLoad, CancelCommit, TimePasses, ExpiryNext, ExpireRead,
     ExpireWrite, ExpireCrash, RescheduleExpiry, SettlementNext, SettlementMoves, TimerRead, TimerWrite, TimerCrash, fundVars
<1> QED
  BY <1>1, <1>2, <1>3, <1>4, <1>5, <1>6, Actors DEF vars

\* A token that is gone was used, or was refused or lost by the request that
\* took it.
THEOREM TokenKept == Spec => []TokenNotLost
<1>1. Init => TokenNotLost
  BY DEF Init, TokenNotLost
<1> QED
  BY <1>1, TypeCorrect, NotLostStep, PTL DEF Spec
=============================================================================
