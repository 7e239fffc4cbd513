-------------------------- MODULE SettlementProofs --------------------------
(***************************************************************************)
(* Proofs about module Settlement, for any number of requests, either      *)
(* provider, with and without the auto-release timer, and any combination  *)
(* of faults, unless a theorem assumes otherwise.                          *)
(***************************************************************************)
EXTENDS Settlement, FiniteSetTheorems, TLAPS

USE SettlementAssumption

LEMMA TypeInit == Init => TypeOK
<1> SUFFICES ASSUME Init PROVE TypeOK
  OBVIOUS
<1> USE DEF Init
<1>1. pc \in [Requests -> PCs] /\ op \in [Requests -> Ops]
  BY DEF PCs, Ops
<1>2. /\ by \in [Requests -> Parties]
      /\ decision \in [Requests -> Decisions]
      /\ seen \in [Requests -> CreditedStatuses]
      /\ target \in [Requests -> Requests \cup {Nobody}]
  BY DEF Parties, Decisions, CreditedStatuses
<1>3. event \in [Events -> {"none", "queued", "running", "done"}]
  OBVIOUS
<1>4. status \in CreditedStatuses
  BY DEF CreditedStatuses
<1> QED
  BY <1>1, <1>2, <1>3, <1>4 DEF TypeOK

LEMMA TypeBegins ==
  ASSUME TypeOK, NEW r \in Requests, RequestBegins(r)
  PROVE  TypeOK'
<1> USE DEF TypeOK, Begin, moneyVars, ledgerVars, PCs, Ops, Parties, Decisions
<1>1. CASE ReleaseLoad(r)
  BY <1>1 DEF ReleaseLoad
<1>2. CASE RefundLoad(r)
  BY <1>2 DEF RefundLoad, RefundFirst
<1>3. CASE ReviewLoad(r)
  BY <1>3 DEF ReviewLoad
<1>4. CASE DisputeLoad(r)
  BY <1>4 DEF DisputeLoad
<1>5. ASSUME NEW o \in Ops, NEW d \in Requests, NEW dec \in Decisions,
             NEW who \in Parties, ResolveBegin(r, o, d, dec),
             by' = [by EXCEPT ![r] = who] \/ by' = by
      PROVE  TypeOK'
  <2>1. by' \in [Requests -> Parties]
    BY <1>5
  <2>2. /\ decision' \in [Requests -> Decisions]
        /\ target' \in [Requests -> Requests \cup {Nobody}]
    BY <1>5 DEF ResolveBegin
  <2>3. PICK next \in PCs : Begin(r, o, next)
    BY <1>5 DEF ResolveBegin, RefundFirst
  <2>4. /\ pc' \in [Requests -> PCs]
        /\ op' \in [Requests -> Ops]
        /\ seen' \in [Requests -> CreditedStatuses]
    BY <2>3
  <2> QED
    BY <2>1, <2>2, <2>3, <2>4
<1>6. CASE ResolveLoad(r)
  <2>1. PICK d \in Requests, dec \in Decisions, who \in Parties :
          /\ ResolveBegin(r, "resolve", d, dec)
          /\ by' = [by EXCEPT ![r] = who]
    BY <1>6 DEF ResolveLoad
  <2> QED
    BY <1>5, <2>1
<1>7. CASE PlatformResolveLoad(r)
  <2>1. PICK d \in Requests, dec \in Decisions :
          ResolveBegin(r, "platformResolve", d, dec) /\ by' = by
    BY <1>7 DEF PlatformResolveLoad
  <2> QED
    BY <1>5, <2>1
<1> QED
  BY <1>1, <1>2, <1>3, <1>4, <1>6, <1>7 DEF RequestBegins

LEMMA GotoType ==
  ASSUME TypeOK, NEW r \in Requests, NEW next \in PCs, Goto(r, next)
  PROVE  /\ pc' \in [Requests -> PCs]
         /\ op' \in [Requests -> Ops]
         /\ by' \in [Requests -> Parties]
         /\ decision' \in [Requests -> Decisions]
         /\ seen' \in [Requests -> CreditedStatuses]
         /\ target' \in [Requests -> Requests \cup {Nobody}]
BY DEF Goto, TypeOK

LEMMA TypeContinues ==
  ASSUME TypeOK, NEW r \in Requests, RequestContinues(r) \/ RequestCrash(r)
  PROVE  TypeOK'
<1>1. AfterLostGuard(r) \in PCs /\ \A d : AfterResolve(d) \in PCs
  BY DEF AfterLostGuard, AfterResolve, PCs
<1>2. CASE LostGuard(r)
  BY <1>1, <1>2, GotoType DEF LostGuard, TypeOK, moneyVars, ledgerVars
<1> DEFINE Rest == /\ status' \in CreditedStatuses
                   /\ dispute' \in [Requests -> {"none", "Open", "Resolved"}]
                   /\ event' \in [Events -> {"none", "queued", "running", "done"}]
                   /\ payouts' \subseteq {PayoutJobId(c) :
                        c \in Requests \cup Events \cup {"auto-release"}}
                   /\ manual' \in BOOLEAN
                   /\ refunds' \subseteq {RefundKey(q) : q \in Requests}
                   /\ releaseRows' \in Nat
                   /\ refundRows' \in Nat
                   /\ UNCHANGED <<timer, payeeReady, refundable>>
<1>3. ASSUME NEW next \in PCs, Goto(r, next), Rest PROVE TypeOK'
  BY <1>3, GotoType DEF TypeOK
<1> USE DEF moneyVars, ledgerVars
<1>4. CASE ReleaseCommit(r)
  BY <1>2, <1>3, <1>4 DEF ReleaseCommit, StatusOnceReleased, CreditedStatuses,
     TypeOK, PCs
<1>5. CASE ReleaseDispatch(r)
  BY <1>3, <1>5 DEF ReleaseDispatch, TypeOK, PCs
<1>6. CASE EnqueuePayout(r)
  BY <1>3, <1>6 DEF EnqueuePayout, AddPayout, TypeOK, PCs
<1>7. CASE RefundSkip(r)
  BY <1>3, <1>7 DEF RefundSkip, TypeOK, PCs
<1>8. CASE RefundCall(r)
  BY <1>3, <1>8 DEF RefundCall, RefundMade, TypeOK, PCs
<1>9. CASE RefundError(r)
  BY <1>3, <1>9 DEF RefundError, TypeOK, PCs
<1>17. CASE RefundUnanswered(r)
  BY <1>3, <1>17 DEF RefundUnanswered, RefundMade, TypeOK, PCs
<1>10. CASE RefundCommit(r)
  BY <1>2, <1>3, <1>10 DEF RefundCommit, CreditedStatuses, TypeOK, PCs
<1>11. CASE ReviewCommit(r)
  BY <1>2, <1>3, <1>11 DEF ReviewCommit, CreditedStatuses, TypeOK, PCs
<1>12. CASE DisputeCheck(r)
  BY <1>3, <1>12 DEF DisputeCheck, TypeOK, PCs
<1>13. CASE DisputeCommit(r)
  BY <1>2, <1>3, <1>13 DEF DisputeCommit, CreditedStatuses, TypeOK, PCs
<1>14. CASE DisputeDispatch(r)
  BY <1>3, <1>14 DEF DisputeDispatch, TypeOK, PCs
<1>15. CASE ResolveCommit(r)
  <2>1. StatusOfDecision(decision[r]) \in CreditedStatuses
    BY DEF StatusOfDecision, CreditedStatuses
  <2> QED
    BY <1>1, <1>2, <1>3, <1>15, <2>1 DEF ResolveCommit, TypeOK
<1>16. CASE RequestCrash(r)
  BY <1>3, <1>16 DEF RequestCrash, TypeOK, PCs
<1> QED
  BY <1>4, <1>5, <1>6, <1>7, <1>8, <1>9, <1>10, <1>11, <1>12, <1>13, <1>14, <1>15,
     <1>16, <1>17 DEF RequestContinues

LEMMA TypeWorker ==
  ASSUME TypeOK,
         EventNext \/ EventCrash \/ TimerNext \/ TimerCrash \/ PaymentMarkedFailed
  PROVE  TypeOK'
<1> USE DEF TypeOK, reqVars, moneyVars, ledgerVars, EventDone, RemoveTimer
<1>1. CASE HandleFunded
  BY <1>1 DEF HandleFunded
<1>2. CASE HandleDisputed
  BY <1>2 DEF HandleDisputed
<1>3. CASE HandleReleased
  BY <1>3 DEF HandleReleased
<1>4. CASE HandleReleasedPayout
  BY <1>4 DEF HandleReleasedPayout, AddPayout, Events
<1>5. CASE EventCrash
  BY <1>5 DEF EventCrash
<1>6. CASE TimerRead
  BY <1>6 DEF TimerRead
<1>7. CASE TimerWrite
  BY <1>7 DEF TimerWrite, CreditedStatuses
<1>8. CASE TimerEnqueue
  BY <1>8 DEF TimerEnqueue, AddPayout
<1>9. CASE TimerCrash
  BY <1>9 DEF TimerCrash
<1>10. CASE PaymentMarkedFailed
  BY <1>10 DEF PaymentMarkedFailed
<1> QED
  BY <1>1, <1>2, <1>3, <1>4, <1>5, <1>6, <1>7, <1>8, <1>9, <1>10
     DEF EventNext, TimerNext

\* Type correctness: a funded escrow is never cancelled and never goes back to
\* waiting for a payment.
THEOREM TypeCorrect == Spec => []TypeOK
<1>1. TypeOK /\ UNCHANGED vars => TypeOK'
  BY DEF TypeOK, vars
<1>2. TypeOK /\ [Next]_vars => TypeOK'
  BY <1>1, TypeBegins, TypeContinues, TypeWorker DEF Next
<1> QED
  BY TypeInit, <1>2, PTL DEF Spec

\* A set whose members are all one value has at most one member.
LEMMA AtMostOne ==
  ASSUME NEW v, NEW S, S \subseteq {v}
  PROVE  Cardinality(S) <= 1
<1>1. CASE S = {}
  <2>1. Cardinality(S) = 0
    BY <1>1, FS_EmptySet, Zenon
  <2> QED
    BY <2>1
<1>2. CASE S = {v}
  <2>1. Cardinality(S) = 1
    BY <1>2, FS_Singleton, Zenon
  <2> QED
    BY <2>1
<1> QED
  BY <1>1, <1>2

\* However many requests, events and timers enqueue a payout, the job id they
\* share makes it one job.
THEOREM OnePayout == Spec => []OnePayoutJob
<1>1. TypeOK => OnePayoutJob
  <2> SUFFICES ASSUME TypeOK PROVE OnePayoutJob
    OBVIOUS
  <2>1. payouts \subseteq {"payout-escrow"}
    BY DEF TypeOK, PayoutJobId
  <2> QED
    BY <2>1, AtMostOne DEF OnePayoutJob
<1> QED
  BY <1>1, TypeCorrect, PTL

\* However many requests call the provider for a refund, the key they share makes
\* it one refund.
THEOREM OneRefundMade == Spec => []OneRefund
<1>1. TypeOK => OneRefund
  <2> SUFFICES ASSUME TypeOK PROVE OneRefund
    OBVIOUS
  <2>1. refunds \subseteq {"refund-escrow"}
    BY DEF TypeOK, RefundKey
  <2> QED
    BY <2>1, AtMostOne DEF OneRefund
<1> QED
  BY <1>1, TypeCorrect, PTL

-----------------------------------------------------------------------------
(* What each actor leaves alone.                                            *)

\* A request's first checks change nothing but the request.
LEMMA BeginFrame ==
  ASSUME NEW r \in Requests, RequestBegins(r)
  PROVE  /\ UNCHANGED <<status, dispute, event, timer, moneyVars, ledgerVars>>
         /\ pc[r] = "idle"
         /\ \E next \in {"loaded", "ready", "refunding"} :
              pc' = [pc EXCEPT ![r] = next]
         /\ \E o \in Ops : op' = [op EXCEPT ![r] = o]
<1> USE DEF Begin, Ops, RefundFirst
<1>1. CASE ReleaseLoad(r) \/ RefundLoad(r) \/ ReviewLoad(r) \/ DisputeLoad(r)
  BY <1>1 DEF ReleaseLoad, RefundLoad, ReviewLoad, DisputeLoad
<1>2. ASSUME NEW o \in Ops, NEW d \in Requests, NEW dec \in Decisions,
             ResolveBegin(r, o, d, dec)
      PROVE  /\ UNCHANGED <<status, dispute, event, timer, moneyVars, ledgerVars>>
             /\ pc[r] = "idle"
             /\ \E next \in {"loaded", "ready", "refunding"} :
                  pc' = [pc EXCEPT ![r] = next]
             /\ op' = [op EXCEPT ![r] = o]
  <2>1. PICK next \in {"ready", "refunding"} : Begin(r, o, next)
    BY <1>2 DEF ResolveBegin
  <2> QED
    BY <2>1
<1>3. CASE ResolveLoad(r)
  <2>1. PICK d \in Requests, dec \in Decisions : ResolveBegin(r, "resolve", d, dec)
    BY <1>3 DEF ResolveLoad
  <2> QED
    BY <1>2, <2>1
<1>4. CASE PlatformResolveLoad(r)
  <2>1. PICK d \in Requests, dec \in Decisions :
          ResolveBegin(r, "platformResolve", d, dec)
    BY <1>4 DEF PlatformResolveLoad
  <2> QED
    BY <1>2, <2>1
<1> QED
  BY <1>1, <1>3, <1>4 DEF RequestBegins

\* A request that goes on moves itself only, and what kind of operation it is
\* never changes.
LEMMA ContinueFrame ==
  ASSUME NEW r \in Requests, RequestContinues(r) \/ RequestCrash(r)
  PROVE  /\ UNCHANGED <<op, by, decision, seen, target, timer, payeeReady,
                        refundable>>
         /\ \E next : pc' = [pc EXCEPT ![r] = next]
BY DEF RequestContinues, RequestCrash, ReleaseCommit, ReleaseDispatch,
       EnqueuePayout, RefundSkip, RefundCall, RefundMade, RefundError,
       RefundUnanswered, RefundCommit,
       ReviewCommit, DisputeCheck, DisputeCommit, DisputeDispatch, ResolveCommit,
       LostGuard, Goto, moneyVars

\* The worker leaves requests and the ledger alone; only the timer's write
\* touches the escrow.
LEMMA WorkerFrame ==
  ASSUME EventNext \/ EventCrash \/ TimerNext \/ TimerCrash \/ PaymentMarkedFailed
  PROVE  /\ UNCHANGED <<reqVars, dispute, refunds, ledgerVars, payeeReady>>
         /\ status' = status \/ TimerWrite
BY DEF EventNext, EventCrash, TimerNext, TimerCrash, PaymentMarkedFailed,
       HandleFunded, HandleDisputed, HandleReleased, HandleReleasedPayout,
       TimerRead, TimerWrite, TimerEnqueue, moneyVars

LEMMA Actors ==
  ASSUME [Next]_vars
  PROVE  \/ UNCHANGED vars
         \/ \E r \in Requests : RequestBegins(r)
         \/ \E r \in Requests : RequestContinues(r) \/ RequestCrash(r)
         \/ EventNext \/ EventCrash \/ TimerNext \/ TimerCrash
         \/ PaymentMarkedFailed
BY DEF Next

\* How the status and the ledger change: the guarded commits, or not at all.
LEMMA CommitEffect ==
  ASSUME NEW r \in Requests, RequestContinues(r) \/ RequestCrash(r)
  PROVE  \/ UNCHANGED <<status, releaseRows, refundRows>>
         \/ /\ status = "Held" /\ status' = "Released"
            /\ releaseRows' = releaseRows + 1 /\ refundRows' = refundRows
         \/ /\ status = "AwaitingAction" /\ status' = "Refunded"
            /\ refundRows' = refundRows + 1 /\ releaseRows' = releaseRows
         \/ /\ status = "Held" /\ status' = "AwaitingAction"
            /\ UNCHANGED <<releaseRows, refundRows>>
         \/ /\ DisputeCommit(r) /\ status = seen[r] /\ status' = "Disputed"
            /\ UNCHANGED <<releaseRows, refundRows>>
         \/ /\ ResolveCommit(r) /\ status = "Disputed" /\ decision[r] = "release"
            /\ status' = "Released"
            /\ releaseRows' = releaseRows + 1 /\ refundRows' = refundRows + 0
         \/ /\ ResolveCommit(r) /\ status = "Disputed" /\ decision[r] # "release"
            /\ status' = "Refunded"
            /\ releaseRows' = releaseRows + 0
            /\ refundRows' = refundRows + (IF decision[r] = "refund" THEN 1 ELSE 0)
<1> USE DEF LostGuard, ledgerVars
<1>1. CASE ReleaseCommit(r)
  BY <1>1 DEF ReleaseCommit, ReleaseGuard, StatusOnceReleased
<1>2. CASE RefundCommit(r)
  BY <1>2 DEF RefundCommit
<1>3. CASE ReviewCommit(r)
  BY <1>3 DEF ReviewCommit, ReviewGuard
<1>4. CASE DisputeCommit(r)
  BY <1>4 DEF DisputeCommit, DisputeGuard
<1>5. CASE ResolveCommit(r)
  BY <1>5 DEF ResolveCommit, ResolveGuard, StatusOfDecision
<1>6. CASE \/ ReleaseDispatch(r) \/ EnqueuePayout(r) \/ RefundSkip(r)
           \/ RefundCall(r) \/ RefundError(r) \/ RefundUnanswered(r)
           \/ DisputeCheck(r)
           \/ DisputeDispatch(r) \/ RequestCrash(r)
  BY <1>6 DEF ReleaseDispatch, EnqueuePayout, RefundSkip, RefundCall, RefundMade,
     RefundError, RefundUnanswered,
     DisputeCheck, DisputeDispatch, RequestCrash
<1> QED
  BY <1>1, <1>2, <1>3, <1>4, <1>5, <1>6 DEF RequestContinues

-----------------------------------------------------------------------------
(* The requests.                                                            *)

InRefund == {"refunding", "refundDone", "refundSkipped"}

\* What a request knows at each point of its way: an opened dispute was checked
\* against the table, and the refund comes before the transaction exactly when
\* the operation or the decision is a refund.
RequestOK(r) ==
  /\ pc[r] = "loaded" => op[r] = "dispute"
  /\ op[r] \in {"resolve", "platformResolve"} => target[r] \in Requests
  /\ op[r] = "dispute" /\ pc[r] = "ready" => CanTransition(seen[r], "Disputed")
  /\ op[r] \in {"resolve", "platformResolve"} /\ pc[r] = "ready" =>
       decision[r] = "release"
  /\ pc[r] \in InRefund =>
       \/ op[r] = "refund"
       \/ op[r] \in {"resolve", "platformResolve"} /\ decision[r] = "refund"

RequestInv == \A r \in Requests : RequestOK(r)

LEMMA RequestInit == Init => RequestInv
BY DEF Init, RequestInv, RequestOK, InRefund

LEMMA RequestBeginsOK ==
  ASSUME TypeOK, NEW r \in Requests, RequestBegins(r)
  PROVE  RequestOK(r)'
<1> USE DEF TypeOK, Begin, RequestOK, RefundFirst, InRefund
<1>1. CASE ReleaseLoad(r) \/ RefundLoad(r) \/ ReviewLoad(r) \/ DisputeLoad(r)
  BY <1>1 DEF ReleaseLoad, RefundLoad, ReviewLoad, DisputeLoad
<1>2. ASSUME NEW o \in {"resolve", "platformResolve"}, NEW d \in Requests,
             NEW dec \in Decisions, ResolveBegin(r, o, d, dec)
      PROVE  RequestOK(r)'
  <2>1. decision'[r] = dec /\ op'[r] = o /\ target'[r] = d
    BY <1>2 DEF ResolveBegin
  <2>2. pc'[r] = IF dec = "refund" THEN "refunding" ELSE "ready"
    BY <1>2 DEF ResolveBegin
  <2> QED
    BY <2>1, <2>2 DEF Decisions
<1>3. CASE ResolveLoad(r)
  <2>1. PICK d \in Requests, dec \in Decisions : ResolveBegin(r, "resolve", d, dec)
    BY <1>3 DEF ResolveLoad
  <2> QED
    BY <1>2, <2>1
<1>4. CASE PlatformResolveLoad(r)
  <2>1. PICK d \in Requests, dec \in Decisions :
          ResolveBegin(r, "platformResolve", d, dec)
    BY <1>4 DEF PlatformResolveLoad
  <2> QED
    BY <1>2, <2>1
<1> QED
  BY <1>1, <1>3, <1>4 DEF RequestBegins

\* A request begins alone: the fields of the others stay.
LEMMA BeginOthers ==
  ASSUME TypeOK, NEW r \in Requests, RequestBegins(r)
  PROVE  \A q \in Requests \ {r} :
           /\ pc'[q] = pc[q] /\ op'[q] = op[q]
           /\ seen'[q] = seen[q] /\ decision'[q] = decision[q]
           /\ target'[q] = target[q]
<1> USE DEF TypeOK, Begin
<1>1. CASE ReleaseLoad(r) \/ RefundLoad(r) \/ ReviewLoad(r) \/ DisputeLoad(r)
  BY <1>1 DEF ReleaseLoad, RefundLoad, ReviewLoad, DisputeLoad
<1>2. CASE ResolveLoad(r) \/ PlatformResolveLoad(r)
  <2>1. PICK o, d, dec : ResolveBegin(r, o, d, dec)
    BY <1>2 DEF ResolveLoad, PlatformResolveLoad
  <2> QED
    BY <2>1 DEF ResolveBegin
<1> QED
  BY <1>1, <1>2 DEF RequestBegins

LEMMA RequestContinuesOK ==
  ASSUME TypeOK, NEW r \in Requests, RequestOK(r),
         RequestContinues(r) \/ RequestCrash(r)
  PROVE  RequestOK(r)'
<1>1. UNCHANGED <<op, decision, seen, target>>
  BY ContinueFrame
<1>2. \/ pc'[r] \notin InRefund \cup {"ready", "loaded"}
      \/ pc[r] \in InRefund /\ pc'[r] \in InRefund
      \/ DisputeCheck(r) /\ pc'[r] \notin InRefund
  <2> USE DEF TypeOK, Goto, InRefund, LostGuard, AfterLostGuard
  <2>1. CASE ReleaseCommit(r) \/ RefundCommit(r) \/ ReviewCommit(r) \/ DisputeCommit(r)
    BY <2>1 DEF ReleaseCommit, RefundCommit, ReviewCommit, DisputeCommit
  <2>2. CASE ResolveCommit(r)
    BY <2>2 DEF ResolveCommit, AfterResolve
  <2>3. CASE ReleaseDispatch(r) \/ EnqueuePayout(r) \/ DisputeDispatch(r) \/ RequestCrash(r)
    BY <2>3 DEF ReleaseDispatch, EnqueuePayout, DisputeDispatch, RequestCrash
  <2>4. CASE RefundSkip(r) \/ RefundCall(r) \/ RefundError(r) \/ RefundUnanswered(r)
    BY <2>4 DEF RefundSkip, RefundCall, RefundMade, RefundError, RefundUnanswered
  <2>5. CASE DisputeCheck(r)
    BY <2>5 DEF DisputeCheck
  <2> QED
    BY <2>1, <2>2, <2>3, <2>4, <2>5 DEF RequestContinues
<1>3. CASE DisputeCheck(r) /\ pc'[r] \notin InRefund
  <2>1. pc'[r] = "ready" => CanTransition(seen[r], "Disputed")
    BY <1>3 DEF DisputeCheck, Goto, TypeOK
  <2>2. op[r] = "dispute"
    BY <1>3 DEF DisputeCheck, RequestOK
  <2>3. pc'[r] # "loaded"
    BY <1>3 DEF DisputeCheck, Goto, TypeOK
  <2> QED
    BY <1>1, <1>3, <2>1, <2>2, <2>3 DEF RequestOK
<1> QED
  BY <1>1, <1>2, <1>3 DEF RequestOK, InRefund

LEMMA RequestStep == TypeOK /\ RequestInv /\ [Next]_vars => RequestInv'
<1> SUFFICES ASSUME TypeOK, RequestInv, [Next]_vars PROVE RequestInv'
  OBVIOUS
<1>1. CASE UNCHANGED reqVars
  BY <1>1 DEF RequestInv, RequestOK, reqVars
<1>2. ASSUME NEW r \in Requests, RequestBegins(r) PROVE RequestInv'
  <2>1. RequestOK(r)'
    BY <1>2, RequestBeginsOK
  <2>2. ASSUME NEW q \in Requests, q # r PROVE RequestOK(q)'
    BY <1>2, <2>2, BeginOthers DEF RequestInv, RequestOK
  <2> QED
    BY <2>1, <2>2 DEF RequestInv
<1>3. ASSUME NEW r \in Requests, RequestContinues(r) \/ RequestCrash(r)
      PROVE  RequestInv'
  <2>1. RequestOK(r)'
    BY <1>3, RequestContinuesOK DEF RequestInv
  <2>2. ASSUME NEW q \in Requests, q # r PROVE RequestOK(q)'
    BY <1>3, <2>2, ContinueFrame DEF RequestInv, RequestOK, TypeOK
  <2> QED
    BY <2>1, <2>2 DEF RequestInv
<1> QED
  BY <1>1, <1>2, <1>3, Actors, WorkerFrame DEF vars, reqVars

-----------------------------------------------------------------------------
(* The ledger.                                                              *)

Settlements == {"Released", "Refunded"}

\* A Release or Refund row is written together with the status that nothing
\* leaves again.
LedgerInv ==
  /\ releaseRows + refundRows <= 1
  /\ status \notin Settlements => releaseRows + refundRows = 0

\* Nothing leaves Released, and nothing but the timer leaves Refunded.
LEMMA SettledStays ==
  ASSUME TypeOK, RequestInv, [Next]_vars
  PROVE  /\ status = "Released" => status' = "Released"
         /\ status = "Refunded" => status' = "Refunded" \/ TimerWrite
<1>1. CASE status' = status
  BY <1>1
<1>2. ASSUME NEW r \in Requests, RequestContinues(r) \/ RequestCrash(r),
             status' # status
      PROVE  status \notin Settlements
  <2>1. DisputeCommit(r) /\ status = seen[r] => status \notin Settlements
    BY DEF DisputeCommit, RequestInv, RequestOK, CanTransition, ValidTransitions,
       Settlements
  <2> QED
    BY <1>2, <2>1, CommitEffect DEF Settlements
<1>3. CASE TimerWrite
  BY <1>3 DEF TimerWrite
<1> QED
  BY <1>1, <1>2, <1>3, Actors, BeginFrame, WorkerFrame DEF vars, Settlements

LEMMA LedgerStep == TypeOK /\ RequestInv /\ LedgerInv /\ [Next]_vars => LedgerInv'
<1> SUFFICES ASSUME TypeOK, RequestInv, LedgerInv, [Next]_vars PROVE LedgerInv'
  OBVIOUS
<1>1. releaseRows \in Nat /\ refundRows \in Nat
  BY DEF TypeOK
<1>2. status \in Settlements => status' \in Settlements
  BY SettledStays DEF Settlements, TimerWrite
<1>3. CASE UNCHANGED <<releaseRows, refundRows>>
  BY <1>1, <1>2, <1>3 DEF LedgerInv
<1>4. ASSUME NEW r \in Requests, RequestContinues(r) \/ RequestCrash(r)
      PROVE  LedgerInv'
  BY <1>1, <1>2, <1>4, CommitEffect DEF LedgerInv, Settlements
<1> QED
  BY <1>3, <1>4, Actors, BeginFrame, WorkerFrame DEF vars, ledgerVars

\* The Release and Refund rows never take out more than the one amount funded.
THEOREM LedgerSound == Spec => []LedgerNotOverdrawn
<1>1. Init => LedgerInv
  BY DEF Init, LedgerInv
<1>2. LedgerInv => LedgerNotOverdrawn
  BY DEF LedgerInv, LedgerNotOverdrawn
<1> QED
  BY <1>1, <1>2, TypeCorrect, RequestInit, RequestStep, LedgerStep, PTL DEF Spec

-----------------------------------------------------------------------------
(* The payout.                                                              *)

\* Whoever is on the way to the payout queue got there through Released.
PayoutInv ==
  /\ \A r \in Requests : pc[r] = "dispatched" => status = "Released"
  /\ \A r \in Requests :
       pc[r] = "committed" /\ op[r] = "release" => status = "Released"
  /\ event["escrow.released"] # "none" => status = "Released"
  /\ timer = "written" => status = "Released"
  /\ payouts # {} => status = "Released"

LEMMA PayoutInit == Init => PayoutInv
BY DEF Init, PayoutInv, Events

LEMMA PayoutContinues ==
  ASSUME TypeOK, RequestInv, PayoutInv, NEW r \in Requests,
         RequestContinues(r) \/ RequestCrash(r),
         status = "Released" => status' = "Released"
  PROVE  PayoutInv'
<1>1. UNCHANGED <<op, timer>> /\ \A q \in Requests : q # r => pc'[q] = pc[q]
  BY ContinueFrame DEF TypeOK
<1>2. pc'[r] = "dispatched" \/ (pc'[r] = "committed" /\ op[r] = "release") =>
        status' = "Released"
  <2> USE DEF TypeOK, Goto, LostGuard, AfterLostGuard
  <2>1. CASE ReleaseCommit(r) \/ RefundCommit(r) \/ ReviewCommit(r) \/ DisputeCommit(r)
    BY <2>1 DEF ReleaseCommit, StatusOnceReleased, RefundCommit, ReviewCommit,
       DisputeCommit
  <2>2. CASE ResolveCommit(r)
    BY <2>2 DEF ResolveCommit, AfterResolve, StatusOfDecision
  <2>3. CASE ReleaseDispatch(r)
    BY <2>3 DEF ReleaseDispatch, PayoutInv
  <2>4. CASE \/ EnqueuePayout(r) \/ DisputeDispatch(r) \/ DisputeCheck(r)
             \/ RefundSkip(r) \/ RefundCall(r) \/ RefundError(r)
             \/ RefundUnanswered(r) \/ RequestCrash(r)
    BY <2>4 DEF EnqueuePayout, DisputeDispatch, DisputeCheck, RefundSkip,
       RefundCall, RefundMade, RefundError, RefundUnanswered, RequestCrash
  <2> QED
    BY <2>1, <2>2, <2>3, <2>4 DEF RequestContinues
<1>3. event'["escrow.released"] # "none" =>
        event["escrow.released"] # "none" \/ status' = "Released"
  <2>1. CASE ReleaseDispatch(r)
    BY <2>1 DEF ReleaseDispatch, PayoutInv
  <2>2. CASE DisputeDispatch(r)
    BY <2>2 DEF DisputeDispatch, TypeOK, Events
  <2>3. CASE UNCHANGED event
    BY <2>3
  <2> QED
    BY <2>1, <2>2, <2>3 DEF RequestContinues, RequestCrash, ReleaseCommit,
       EnqueuePayout, RefundSkip, RefundCall, RefundMade, RefundError,
       RefundUnanswered, RefundCommit,
       ReviewCommit, DisputeCheck, DisputeCommit, ResolveCommit, LostGuard
<1>4. payouts' # {} => payouts # {} \/ status' = "Released"
  <2>1. CASE EnqueuePayout(r)
    BY <2>1 DEF EnqueuePayout, PayoutInv
  <2>2. CASE UNCHANGED payouts
    BY <2>2
  <2> QED
    BY <2>1, <2>2 DEF RequestContinues, RequestCrash, ReleaseCommit,
       ReleaseDispatch, RefundSkip, RefundCall, RefundMade, RefundError,
       RefundUnanswered, RefundCommit,
       ReviewCommit, DisputeCheck, DisputeCommit, DisputeDispatch, ResolveCommit,
       LostGuard, moneyVars
<1> QED
  BY <1>1, <1>2, <1>3, <1>4 DEF PayoutInv

LEMMA PayoutWorker ==
  ASSUME TypeOK, PayoutInv,
         EventNext \/ EventCrash \/ TimerNext \/ TimerCrash \/ PaymentMarkedFailed,
         status = "Released" => status' = "Released"
  PROVE  PayoutInv'
<1>1. UNCHANGED <<pc, op>>
  BY WorkerFrame DEF reqVars
<1>2. event'["escrow.released"] # "none" => event["escrow.released"] # "none"
  BY DEF EventNext, EventCrash, TimerNext, TimerCrash, PaymentMarkedFailed,
     HandleFunded, HandleDisputed, HandleReleased, HandleReleasedPayout, EventDone,
     TimerRead, TimerWrite, TimerEnqueue, TypeOK, Events
<1>3. timer' = "written" => timer = "written" \/ status' = "Released"
  BY DEF EventNext, EventCrash, TimerNext, TimerCrash, PaymentMarkedFailed,
     HandleFunded, HandleDisputed, HandleReleased, HandleReleasedPayout,
     RemoveTimer, TimerRead, TimerWrite, TimerEnqueue
<1>4. payouts' # {} => payouts # {} \/ status = "Released"
  BY DEF EventNext, EventCrash, TimerNext, TimerCrash, PaymentMarkedFailed,
     HandleFunded, HandleDisputed, HandleReleased, HandleReleasedPayout,
     TimerRead, TimerWrite, TimerEnqueue, moneyVars, PayoutInv
<1> QED
  BY <1>1, <1>2, <1>3, <1>4 DEF PayoutInv

LEMMA PayoutStep == TypeOK /\ RequestInv /\ PayoutInv /\ [Next]_vars => PayoutInv'
<1> SUFFICES ASSUME TypeOK, RequestInv, PayoutInv, [Next]_vars PROVE PayoutInv'
  OBVIOUS
<1>1. status = "Released" => status' = "Released"
  BY SettledStays
<1>2. ASSUME NEW r \in Requests, RequestBegins(r) PROVE PayoutInv'
  <2>1. UNCHANGED <<status, event, timer, payouts>>
    BY <1>2, BeginFrame DEF moneyVars
  <2>2. \A q \in Requests : pc'[q] \in {"dispatched", "committed"} =>
                              pc'[q] = pc[q] /\ op'[q] = op[q]
    BY <1>2, BeginFrame DEF TypeOK
  <2> QED
    BY <2>1, <2>2 DEF PayoutInv
<1>3. CASE UNCHANGED vars
  BY <1>3 DEF PayoutInv, vars
<1> QED
  BY <1>1, <1>2, <1>3, Actors, PayoutContinues, PayoutWorker

\* Only a released escrow has a payout in the queue.
THEOREM PayoutReleased == Spec => []PayoutOnlyWhenReleased
<1>1. PayoutInv => PayoutOnlyWhenReleased
  BY DEF PayoutInv, PayoutOnlyWhenReleased
<1> QED
  BY <1>1, TypeCorrect, RequestInit, RequestStep, PayoutInit, PayoutStep, PTL DEF Spec

-----------------------------------------------------------------------------
(* A release is not forgotten.                                              *)

\* Request r has released the escrow and has its payout still to enqueue.
OnTheWay(r) ==
  \/ pc[r] = "dispatched"
  \/ pc[r] = "committed" /\ op[r] = "release"

\* What the ledger says was released has a payout, or a person to make it, or a
\* request about to see to one; what the timer alone released is the timer's.
ReleaseInHand ==
  /\ releaseRows > 0 =>
       \/ payouts # {} \/ manual
       \/ \E r \in Requests : OnTheWay(r)
       \/ "request" \in Faults
  /\ status = "Released" /\ releaseRows = 0 =>
       timer = "written" \/ payouts # {} \/ ~payeeReady \/ "crash" \in Faults

LEMMA InHandInit == Init => ReleaseInHand
BY DEF Init, ReleaseInHand

LEMMA InHandContinues ==
  ASSUME TypeOK, ReleaseInHand,
         NEW r \in Requests, RequestContinues(r) \/ RequestCrash(r)
  PROVE  ReleaseInHand'
<1>1. /\ UNCHANGED <<op, timer, payeeReady>>
      /\ \A q \in Requests : q # r => pc'[q] = pc[q]
  BY ContinueFrame DEF TypeOK
<1>2. (payouts # {} => payouts' # {}) /\ (manual => manual')
  <2>1. CASE EnqueuePayout(r)
    <3>1. payouts # {} => payouts' # {}
      BY <2>1 DEF EnqueuePayout, AddPayout
    <3>2. manual => manual'
      BY <2>1 DEF EnqueuePayout
    <3> QED
      BY <3>1, <3>2
  <2>2. CASE UNCHANGED <<payouts, manual>>
    BY <2>2
  <2> QED
    BY <2>1, <2>2 DEF RequestContinues, RequestCrash, ReleaseCommit,
       ReleaseDispatch, RefundSkip, RefundCall, RefundMade, RefundError,
       RefundUnanswered, RefundCommit, ReviewCommit, DisputeCheck, DisputeCommit,
       DisputeDispatch, ResolveCommit, LostGuard, moneyVars
<1>3. releaseRows' = releaseRows \/ OnTheWay(r)'
  <2> USE DEF TypeOK, Goto, LostGuard, ledgerVars, OnTheWay
  <2>1. CASE ReleaseCommit(r)
    BY <2>1 DEF ReleaseCommit
  <2>2. CASE ResolveCommit(r)
    BY <2>2 DEF ResolveCommit, AfterResolve
  <2> QED
    BY <2>1, <2>2 DEF RequestContinues, RequestCrash, ReleaseDispatch,
       EnqueuePayout, RefundSkip, RefundCall, RefundMade, RefundError,
       RefundUnanswered, RefundCommit, ReviewCommit, DisputeCheck, DisputeCommit,
       DisputeDispatch
<1>4. OnTheWay(r) =>
        OnTheWay(r)' \/ payouts' # {} \/ manual' \/ "request" \in Faults
  <2> USE DEF TypeOK, Goto, LostGuard, OnTheWay
  <2>1. CASE EnqueuePayout(r)
    BY <2>1 DEF EnqueuePayout, AddPayout
  <2>2. CASE ReleaseDispatch(r)
    BY <2>2 DEF ReleaseDispatch
  <2> QED
    BY <2>1, <2>2 DEF RequestContinues, RequestCrash, ReleaseCommit, RefundSkip,
       RefundCall, RefundError, RefundUnanswered, RefundCommit, ReviewCommit,
       DisputeCheck, DisputeCommit, DisputeDispatch, ResolveCommit
<1>5. status' = "Released" /\ releaseRows' = 0 => status = "Released" /\ releaseRows = 0
  BY CommitEffect DEF TypeOK
<1>6. releaseRows' > 0 =>
        \/ payouts' # {} \/ manual'
        \/ \E q \in Requests : OnTheWay(q)'
        \/ "request" \in Faults
  <2>1. ASSUME NEW q \in Requests, q # r, OnTheWay(q) PROVE OnTheWay(q)'
    BY <1>1, <2>1 DEF OnTheWay
  <2> QED
    BY <1>2, <1>3, <1>4, <2>1 DEF ReleaseInHand
<1> QED
  BY <1>1, <1>2, <1>5, <1>6 DEF ReleaseInHand

LEMMA InHandWorker ==
  ASSUME TypeOK, ReleaseInHand,
         EventNext \/ EventCrash \/ TimerNext \/ TimerCrash \/ PaymentMarkedFailed
  PROVE  ReleaseInHand'
<1>1. UNCHANGED <<pc, op, releaseRows, payeeReady>>
  BY WorkerFrame DEF reqVars, ledgerVars
<1>2. (payouts # {} => payouts' # {}) /\ manual' = manual
  BY DEF EventNext, EventCrash, TimerNext, TimerCrash, PaymentMarkedFailed,
     HandleFunded, HandleDisputed, HandleReleased, HandleReleasedPayout, AddPayout,
     TimerRead, TimerWrite, TimerEnqueue, moneyVars
<1>3. status' = "Released" => status = "Released" \/ timer' = "written"
  BY WorkerFrame DEF TimerWrite
<1>4. timer = "written" =>
        timer' = "written" \/ payouts' # {} \/ ~payeeReady \/ "crash" \in Faults
  BY DEF EventNext, EventCrash, TimerNext, TimerCrash, PaymentMarkedFailed,
     HandleFunded, HandleDisputed, HandleReleased, HandleReleasedPayout, RemoveTimer,
     TimerRead, TimerWrite, TimerEnqueue, AddPayout
<1>5. (\E r \in Requests : OnTheWay(r)) => \E r \in Requests : OnTheWay(r)'
  BY <1>1 DEF OnTheWay
<1> QED
  BY <1>1, <1>2, <1>3, <1>4, <1>5 DEF ReleaseInHand

LEMMA InHandStep == TypeOK /\ ReleaseInHand /\ [Next]_vars => ReleaseInHand'
<1> SUFFICES ASSUME TypeOK, ReleaseInHand, [Next]_vars PROVE ReleaseInHand'
  OBVIOUS
<1>1. ASSUME NEW r \in Requests, RequestBegins(r) PROVE ReleaseInHand'
  <2>1. UNCHANGED <<status, timer, payouts, manual, payeeReady, releaseRows>>
    BY <1>1, BeginFrame DEF moneyVars, ledgerVars
  <2>2. pc[r] = "idle" /\ \A q \in Requests : q # r => pc'[q] = pc[q] /\ op'[q] = op[q]
    BY <1>1, BeginFrame DEF TypeOK
  <2>3. ASSUME NEW q \in Requests, OnTheWay(q) PROVE OnTheWay(q)'
    BY <2>2, <2>3 DEF OnTheWay
  <2> QED
    BY <2>1, <2>3 DEF ReleaseInHand
<1>2. CASE UNCHANGED vars
  BY <1>2 DEF ReleaseInHand, OnTheWay, vars
<1> QED
  BY <1>1, <1>2, Actors, InHandContinues, InHandWorker

\* A release that is committed is never left to nobody, unless a request dies or
\* the worker dies over what the timer released: the state in which ReleasedIsPaid
\* could not come true any more is not reached.
THEOREM ReleaseIsInHand == Spec => []ReleaseInHand
<1> QED
  BY TypeCorrect, InHandInit, InHandStep, PTL DEF Spec

-----------------------------------------------------------------------------
(* Disputes.                                                                *)

DisputeInv ==
  /\ timer # "absent" => TimerAccepted
  /\ status = "Disputed" => \E d \in Requests : ActiveDisputes = {d}
  /\ ActiveDisputes # {} => status = "Disputed" \/ (TimerAccepted /\ status = "Released")

LEMMA DisputeInit == Init => DisputeInv
BY DEF Init, DisputeInv, ActiveDisputes

LEMMA DisputeStep == TypeOK /\ RequestInv /\ DisputeInv /\ [Next]_vars => DisputeInv'
<1> SUFFICES ASSUME TypeOK, RequestInv, DisputeInv, [Next]_vars PROVE DisputeInv'
  OBVIOUS
<1>1. CASE UNCHANGED <<status, dispute, timer>>
  BY <1>1 DEF DisputeInv, ActiveDisputes
<1>2. ASSUME NEW r \in Requests, RequestContinues(r) \/ RequestCrash(r)
      PROVE  DisputeInv'
  <2>1. timer' = timer
    BY <1>2, ContinueFrame
  <2>2. CASE UNCHANGED <<status, dispute>>
    BY <1>1, <2>1, <2>2
  <2>3. CASE DisputeCommit(r) /\ ~UNCHANGED <<status, dispute>>
    <3>1. status = seen[r] /\ status' = "Disputed"
          /\ dispute' = [dispute EXCEPT ![r] = "Open"]
      BY <2>3 DEF DisputeCommit, DisputeGuard, LostGuard
    <3>2. status \notin {"Disputed", "Released"}
      BY <2>3, <3>1 DEF DisputeCommit, RequestInv, RequestOK, CanTransition,
         ValidTransitions
    <3>3. ActiveDisputes = {}
      BY <3>2 DEF DisputeInv
    <3>4. ActiveDisputes' = {r}
      BY <3>1, <3>3 DEF ActiveDisputes, TypeOK
    <3> QED
      BY <2>1, <3>1, <3>4 DEF DisputeInv
  <2>4. CASE ResolveCommit(r) /\ ~UNCHANGED <<status, dispute>>
    <3>1. /\ status = "Disputed" /\ dispute[target[r]] = "Open"
          /\ dispute' = [dispute EXCEPT ![target[r]] = "Resolved"]
          /\ status' # "Disputed"
      BY <2>4 DEF ResolveCommit, ResolveGuard, StatusOfDecision, LostGuard
    <3>2. PICK d \in Requests : ActiveDisputes = {d}
      BY <3>1 DEF DisputeInv
    <3>3. ActiveDisputes' = {}
      <4>1. target[r] \in Requests
        BY <2>4 DEF ResolveCommit, RequestInv, RequestOK
      <4>2. target[r] = d
        BY <3>1, <3>2, <4>1 DEF ActiveDisputes
      <4> QED
        BY <3>1, <3>2, <4>2 DEF ActiveDisputes, TypeOK
    <3> QED
      BY <2>1, <3>1, <3>3 DEF DisputeInv
  <2>5. CASE UNCHANGED dispute /\ status' # status /\ status # "Disputed"
             /\ status' # "Disputed"
    <3>1. ActiveDisputes = {} \/ (status = "Released" /\ TimerAccepted)
      BY <2>5 DEF DisputeInv
    <3>2. status = "Released" => status' = "Released"
      BY SettledStays
    <3> QED
      BY <2>1, <2>5, <3>1, <3>2 DEF DisputeInv, ActiveDisputes
  <2>6. CASE ReleaseCommit(r) \/ RefundCommit(r) \/ ReviewCommit(r)
    BY <2>2, <2>5, <2>6 DEF ReleaseCommit, ReleaseGuard, StatusOnceReleased,
       RefundCommit, ReviewCommit, ReviewGuard, LostGuard
  <2> QED
    BY <1>2, <2>2, <2>3, <2>4, <2>6 DEF RequestContinues, RequestCrash,
       ReleaseDispatch, EnqueuePayout, RefundSkip, RefundCall, RefundMade,
       RefundError, RefundUnanswered,
       DisputeCheck, DisputeDispatch
<1>3. ASSUME EventNext \/ EventCrash \/ TimerNext \/ TimerCrash \/ PaymentMarkedFailed
      PROVE  DisputeInv'
  <2>1. dispute' = dispute
    BY <1>3, WorkerFrame
  <2>2. timer' # "absent" => TimerAccepted
    BY <1>3 DEF EventNext, EventCrash, TimerNext, TimerCrash, PaymentMarkedFailed,
       HandleFunded, HandleDisputed, HandleReleased, HandleReleasedPayout,
       RemoveTimer, TimerRead, TimerWrite, TimerEnqueue, DisputeInv
  <2>3. status' = status \/ (TimerAccepted /\ status' = "Released")
    BY <1>3, WorkerFrame DEF TimerWrite, DisputeInv
  <2> QED
    BY <2>1, <2>2, <2>3 DEF DisputeInv, ActiveDisputes
<1>4. CASE UNCHANGED vars \/ \E r \in Requests : RequestBegins(r)
  BY <1>1, <1>4, BeginFrame DEF vars
<1> QED
  BY <1>2, <1>3, <1>4, Actors

\* One dispute at a time freezes the escrow, and only the timer's write can take
\* a frozen escrow away from its dispute.
THEOREM OneDispute == Spec => []FrozenByOneDispute
<1>1. DisputeInv => FrozenByOneDispute
  BY FS_Singleton DEF DisputeInv, FrozenByOneDispute
<1> QED
  BY <1>1, TypeCorrect, RequestInit, RequestStep, DisputeInit, DisputeStep, PTL
     DEF Spec

-----------------------------------------------------------------------------
(* Refunds.                                                                 *)

AtProvider == {"refundDone", "stranded"}

\* A refund at the provider is followed by the Refunded status, or by a request
\* that still has to record it or failed to.
RefundInv ==
  refunds # {} =>
    \/ \E r \in Requests : pc[r] \in AtProvider
    \/ status = "Refunded"
    \/ TimerAccepted

LEMMA RefundStep ==
  TypeOK /\ RequestInv /\ DisputeInv /\ RefundInv /\ [Next]_vars => RefundInv'
<1> SUFFICES ASSUME TypeOK, RequestInv, DisputeInv, RefundInv, [Next]_vars,
                    ~TimerAccepted
             PROVE  RefundInv'
  BY DEF RefundInv
<1>1. status = "Refunded" => status' = "Refunded"
  BY SettledStays DEF TimerWrite, DisputeInv
<1>2. CASE UNCHANGED <<pc, refunds>>
  BY <1>1, <1>2 DEF RefundInv
<1>3. ASSUME NEW r \in Requests, RequestBegins(r) PROVE RefundInv'
  <2>1. refunds' = refunds
    BY <1>3, BeginFrame DEF moneyVars
  <2>2. \A q \in Requests : pc[q] \in AtProvider => pc'[q] = pc[q]
    BY <1>3, BeginFrame DEF TypeOK, AtProvider
  <2> QED
    BY <1>1, <2>1, <2>2 DEF RefundInv
<1>4. ASSUME NEW r \in Requests, RequestContinues(r) \/ RequestCrash(r)
      PROVE  RefundInv'
  <2>1. \A q \in Requests : q # r => pc'[q] = pc[q]
    BY <1>4, ContinueFrame DEF TypeOK
  <2>2. pc[r] \in AtProvider => pc'[r] \in AtProvider \/ status' = "Refunded"
    <3> USE DEF TypeOK, Goto, LostGuard, AfterLostGuard, AtProvider
    <3>1. CASE RefundCommit(r)
      BY <3>1 DEF RefundCommit
    <3>2. CASE ResolveCommit(r)
      <4>1. pc[r] = "refundDone" => decision[r] = "refund"
        BY <3>2 DEF ResolveCommit, RequestInv, RequestOK, InRefund
      <4> QED
        BY <3>2, <4>1 DEF ResolveCommit, StatusOfDecision
    <3>3. CASE RequestCrash(r)
      BY <3>3 DEF RequestCrash, Ended
    <3> QED
      BY <1>4, <3>1, <3>2, <3>3 DEF RequestContinues, ReleaseCommit,
         ReleaseDispatch, EnqueuePayout, RefundSkip, RefundCall, RefundMade,
         RefundError, RefundUnanswered,
         ReviewCommit, DisputeCheck, DisputeCommit, DisputeDispatch
  <2>3. refunds' = refunds \/ pc'[r] \in AtProvider
    <3>1. CASE RefundCall(r) \/ RefundUnanswered(r)
      BY <3>1 DEF RefundCall, RefundUnanswered, Goto, TypeOK, AtProvider
    <3> QED
      BY <1>4, <3>1 DEF RequestContinues, RequestCrash, ReleaseCommit,
         ReleaseDispatch, EnqueuePayout, RefundSkip, RefundMade, RefundError,
         RefundUnanswered, RefundCommit,
         ReviewCommit, DisputeCheck, DisputeCommit, DisputeDispatch,
         ResolveCommit, LostGuard, moneyVars
  <2> QED
    BY <1>1, <2>1, <2>2, <2>3 DEF RefundInv
<1> QED
  BY <1>2, <1>3, <1>4, Actors, WorkerFrame DEF vars, reqVars

\* Without the timer's blind write, money goes both ways only through a refund
\* whose request could not record it.
THEOREM BothWays == Spec => []BothWaysOnlyAfterLostGuard
<1>1. Init => RefundInv
  BY DEF Init, RefundInv
<1>2. RefundInv /\ PayoutInv => BothWaysOnlyAfterLostGuard
  BY DEF RefundInv, PayoutInv, BothWaysOnlyAfterLostGuard, AtProvider
<1> QED
  BY <1>1, <1>2, TypeCorrect, RequestInit, RequestStep, DisputeInit, DisputeStep,
     PayoutInit, PayoutStep, RefundStep, PTL DEF Spec

\* On Bachs, while the charge stays on record, the refund comes first.
RefundFirstInv ==
  /\ refundable
  /\ \A r \in Requests : pc[r] # "refundSkipped"
  /\ \A r \in Requests : pc[r] = "refundDone" => refunds # {}
  /\ status = "Refunded" => refunds # {}

LEMMA RefundFirstStep ==
  ASSUME Provider = "bachs", "unpaid" \notin Faults
  PROVE  TypeOK /\ RequestInv /\ RefundFirstInv /\ [Next]_vars => RefundFirstInv'
<1> SUFFICES ASSUME TypeOK, RequestInv, RefundFirstInv, [Next]_vars
             PROVE  RefundFirstInv'
  OBVIOUS
<1>1. CASE UNCHANGED <<pc, status, refundable, refunds>>
  BY <1>1 DEF RefundFirstInv
<1>2. ASSUME NEW r \in Requests, RequestBegins(r) PROVE RefundFirstInv'
  <2>1. UNCHANGED <<status, refundable, refunds>>
    BY <1>2, BeginFrame DEF moneyVars
  <2>2. \A q \in Requests : pc'[q] \in {"refundSkipped", "refundDone"} => pc'[q] = pc[q]
    BY <1>2, BeginFrame DEF TypeOK
  <2> QED
    BY <2>1, <2>2 DEF RefundFirstInv
<1>3. ASSUME NEW r \in Requests, RequestContinues(r) \/ RequestCrash(r)
      PROVE  RefundFirstInv'
  <2>1. refundable' = refundable /\ \A q \in Requests : q # r => pc'[q] = pc[q]
    BY <1>3, ContinueFrame DEF TypeOK
  <2>2. refunds # {} => refunds' # {}
    BY <1>3 DEF RequestContinues, RequestCrash, ReleaseCommit,
       ReleaseDispatch, EnqueuePayout, RefundSkip, RefundCall, RefundMade,
       RefundError, RefundUnanswered,
       RefundCommit, ReviewCommit, DisputeCheck, DisputeCommit, DisputeDispatch,
       ResolveCommit, LostGuard, moneyVars
  <2>3. /\ pc'[r] # "refundSkipped"
        /\ pc'[r] = "refundDone" => refunds' # {}
    <3> USE DEF TypeOK, Goto, LostGuard, AfterLostGuard, RefundFirstInv
    <3>1. CASE RefundSkip(r) \/ RefundCall(r) \/ RefundError(r) \/ RefundUnanswered(r)
      BY <3>1 DEF RefundSkip, RefundCall, RefundMade, RefundError, RefundUnanswered
    <3>2. CASE ResolveCommit(r)
      BY <3>2 DEF ResolveCommit, AfterResolve
    <3>3. CASE RequestCrash(r)
      BY <3>3 DEF RequestCrash
    <3>4. CASE \/ ReleaseCommit(r) \/ RefundCommit(r) \/ ReviewCommit(r)
               \/ DisputeCommit(r) \/ DisputeCheck(r)
      BY <3>4 DEF ReleaseCommit, RefundCommit, ReviewCommit, DisputeCommit,
         DisputeCheck
    <3>5. CASE ReleaseDispatch(r) \/ EnqueuePayout(r) \/ DisputeDispatch(r)
      BY <3>5 DEF ReleaseDispatch, EnqueuePayout, DisputeDispatch
    <3> QED
      BY <1>3, <3>1, <3>2, <3>3, <3>4, <3>5 DEF RequestContinues
  <2>4. status' = "Refunded" => refunds' # {}
    <3>1. CASE RefundCommit(r)
      BY <2>2, <3>1 DEF RefundCommit, LostGuard, RefundFirstInv
    <3>2. CASE ResolveCommit(r)
      <4>1. decision[r] \in Decisions
        BY DEF TypeOK
      <4>2. status' = "Refunded" => status = "Refunded" \/ pc[r] = "refundDone"
        BY <3>2, <4>1 DEF ResolveCommit, LostGuard, StatusOfDecision, RequestInv,
           RequestOK, RefundFirstInv, Decisions
      <4> QED
        BY <2>2, <4>2 DEF RefundFirstInv
    <3>3. CASE ~RefundCommit(r) /\ ~ResolveCommit(r)
      <4>1. status' = "Refunded" => status = "Refunded"
        BY <1>3, <3>3 DEF RequestContinues, RequestCrash, ReleaseCommit,
           StatusOnceReleased, ReleaseDispatch, EnqueuePayout, RefundSkip,
           RefundCall, RefundMade, RefundError, RefundUnanswered, ReviewCommit,
           DisputeCheck, DisputeCommit,
           DisputeDispatch, LostGuard
      <4> QED
        BY <2>2, <4>1 DEF RefundFirstInv
    <3> QED
      BY <3>1, <3>2, <3>3
  <2> QED
    BY <2>1, <2>2, <2>3, <2>4 DEF RefundFirstInv
<1>4. ASSUME EventNext \/ EventCrash \/ TimerNext \/ TimerCrash \/ PaymentMarkedFailed
      PROVE  RefundFirstInv'
  <2>1. UNCHANGED <<pc, refunds>>
    BY <1>4, WorkerFrame DEF reqVars
  <2>2. status' = "Refunded" => status = "Refunded"
    BY <1>4, WorkerFrame DEF TimerWrite
  <2>3. refundable' = refundable
    BY <1>4 DEF EventNext, EventCrash, TimerNext, TimerCrash, PaymentMarkedFailed,
       HandleFunded, HandleDisputed, HandleReleased, HandleReleasedPayout,
       TimerRead, TimerWrite, TimerEnqueue, moneyVars
  <2> QED
    BY <2>1, <2>2, <2>3 DEF RefundFirstInv
<1> QED
  BY <1>1, <1>2, <1>3, <1>4, Actors DEF vars

\* On Bachs an escrow is Refunded only after the provider made the refund, as
\* long as no late payment.failed webhook hides the charge.
THEOREM RefundBacked ==
  ASSUME Provider = "bachs", "unpaid" \notin Faults
  PROVE  Spec => []RefundedIsBacked
<1>1. Init => RefundFirstInv
  BY DEF Init, RefundFirstInv
<1>2. RefundFirstInv => RefundedIsBacked
  BY DEF RefundFirstInv, RefundedIsBacked
<1> QED
  BY <1>1, <1>2, TypeCorrect, RequestInit, RequestStep, RefundFirstStep, PTL DEF Spec

-----------------------------------------------------------------------------
(* Refinement.                                                              *)

LEMMA SettledValues ==
  ASSUME releaseRows \in Nat, refundRows \in Nat
  PROVE  /\ releaseRows + refundRows = 0 => Settled = "open"
         /\ releaseRows = 1 => Settled = "toPayee"
         /\ releaseRows = 0 /\ refundRows = 1 => Settled = "toPayer"
BY DEF Settled

LEMMA LifecycleStep ==
  ASSUME ~TimerAccepted
  PROVE  TypeOK /\ RequestInv /\ LedgerInv /\ DisputeInv /\ [Next]_vars =>
           [Lifecycle!Next]_<<status, Settled>>
<1> SUFFICES ASSUME TypeOK, RequestInv, LedgerInv, DisputeInv, [Next]_vars
             PROVE  [Lifecycle!Next]_<<status, Settled>>
  OBVIOUS
<1> USE DEF Lifecycle!CanTransition, Lifecycle!ValidTransitions
<1>1. releaseRows \in Nat /\ refundRows \in Nat
  BY DEF TypeOK
<1>2. CASE UNCHANGED <<status, releaseRows, refundRows>>
  BY <1>2 DEF Settled
<1>3. ASSUME NEW r \in Requests, RequestContinues(r) \/ RequestCrash(r),
             ~UNCHANGED <<status, releaseRows, refundRows>>
      PROVE  Lifecycle!Next
  <2>1. status \notin Settlements
    <3>1. DisputeCommit(r) /\ status = seen[r] => status \notin Settlements
      BY DEF DisputeCommit, RequestInv, RequestOK, CanTransition, ValidTransitions,
         Settlements
    <3> QED
      BY <1>3, <3>1, CommitEffect DEF Settlements
  <2>2. releaseRows = 0 /\ refundRows = 0
    BY <1>1, <2>1 DEF LedgerInv
  <2>3. Settled = "open"
    BY <1>1, <2>2, SettledValues
  <2>4. CASE status \in {"Held", "Disputed"} /\ status' = "Released"
             /\ releaseRows' = 1 /\ refundRows' = 0
    <3>1. Settled' = "toPayee"
      BY <2>4 DEF Settled
    <3> QED
      BY <2>3, <2>4, <3>1 DEF Lifecycle!Next, Lifecycle!Release
  <2>5. CASE status \in {"AwaitingAction", "Disputed"} /\ status' = "Refunded"
             /\ releaseRows' = 0 /\ refundRows' = 1
    <3>1. Settled' = "toPayer"
      BY <2>5 DEF Settled
    <3> QED
      BY <2>3, <2>5, <3>1 DEF Lifecycle!Next, Lifecycle!Refund
  <2>6. CASE /\ UNCHANGED <<releaseRows, refundRows>>
             /\ \/ status = "Held" /\ status' = "AwaitingAction"
                \/ DisputeCommit(r) /\ status = seen[r] /\ status' = "Disputed"
    <3>1. Settled' = Settled
      BY <2>6 DEF Settled
    <3>2. DisputeCommit(r) /\ status = seen[r] => status \in {"Held", "AwaitingAction"}
      BY DEF DisputeCommit, RequestInv, RequestOK, CanTransition, ValidTransitions
    <3> QED
      BY <2>6, <3>1, <3>2 DEF Lifecycle!Next, Lifecycle!Move,
         Lifecycle!ObservableTransitions, Lifecycle!EscrowStatus
  <2>7. decision[r] \in {"release", "refund"}
    BY DEF TypeOK, Decisions
  <2> QED
    BY <1>3, <2>2, <2>4, <2>5, <2>6, <2>7, CommitEffect
<1>4. ASSUME EventNext \/ EventCrash \/ TimerNext \/ TimerCrash \/ PaymentMarkedFailed
      PROVE  UNCHANGED <<status, releaseRows, refundRows>>
  BY <1>4, WorkerFrame DEF TimerWrite, DisputeInv, ledgerVars
<1> QED
  BY <1>2, <1>3, <1>4, Actors, BeginFrame DEF vars, ledgerVars

\* Without the auto-release timer, release, refund, review, disputes and their
\* resolutions implement the lifecycle.
THEOREM Refinement ==
  ASSUME ~TimerAccepted
  PROVE  Spec => ImplementsLifecycle
<1>1. Init => Lifecycle!Init
  BY SettledValues DEF Init, Lifecycle!Init
<1>2. Init => LedgerInv
  BY DEF Init, LedgerInv
<1> QED
  BY <1>1, <1>2, TypeCorrect, RequestInit, RequestStep, DisputeInit, DisputeStep,
     LedgerStep, LifecycleStep, PTL
     DEF Spec, ImplementsLifecycle, Lifecycle!Spec, Lifecycle!lifecycleVars
=============================================================================
