-------------------------- MODULE MilestonesProofs --------------------------
(***************************************************************************)
(* Theorems about Milestones, for every set of milestones and of requests, *)
(* whichever of them ask for what, and for every choice of failures.       *)
(***************************************************************************)
EXTENDS Milestones, Sums, TLAPS

\* What a run has done by the time it reaches each step.
RunsInOrder ==
  \A m \in Milestone, i \in Runs :
    /\ run[m][i] = "transferred" => m \in transfers
    /\ run[m][i] \in {"entered", "marked"} => m \in rows
    /\ run[m][i] = "closing" => rows = Milestone

\* Whoever settled the escrow found it open, and nobody reopens it: the last
\* payout only closes an escrow that no operation has settled.
ClosedOnce ==
  /\ \A k \in Operations :
       closer[k] \in {"committed", "done"} => status \in {"Released", "Refunded"}
  /\ closed = "payout" =>
       /\ status = "Released"
       /\ rows = Milestone
       /\ \A k \in Operations : closer[k] \notin {"committed", "done"}

\* A request that may write has seen the status that permits it.
ClearedHasSeen ==
  \A r \in Request : pc[r] = "cleared" => Permitted(Op[r], saw[r])

\* Only a refunding operation is on its way to the provider.
RefundersOnly == \A k \in Operations : closer[k] = "refunding" => k \in Refunding

TypeInv == TypeOK /\ RefundersOnly
BooksInv == TypeInv /\ RunsInOrder /\ ReleasedIsOnTheBooks
ClosingInv == BooksInv /\ ClosedOnce

-----------------------------------------------------------------------------

LEMMA TypeInit == Init => TypeInv
BY MilestonesAssumption
   DEF Init, TypeInv, TypeOK, RefundersOnly, EscrowStatus, MilestoneStatus, RunPC, RunActive, Runs,
       Operations, Refunding

LEMMA RequestType ==
  ASSUME TypeOK, NEW r \in Request, RequestNext(r) \/ EventNext(r)
  PROVE  TypeOK'
<1> USE MilestonesAssumption DEF TypeOK
<1>1. CASE LoadEscrow(r)
  BY <1>1 DEF LoadEscrow, Step, payoutVars, closeVars
<1>2. CASE LoadMilestone(r)
  BY <1>2 DEF LoadMilestone, Step, payoutVars, closeVars
<1>3. CASE Commit(r)
  BY <1>3 DEF Commit, Step, payoutVars, closeVars, MilestoneStatus
<1>4. CASE Dispatch(r)
  BY <1>4 DEF Dispatch, Step, payoutVars, closeVars
<1>5. ASSUME NEW m \in Milestone, AddPayout(m)
      PROVE  run' \in [Milestone -> [Runs -> RunPC]]
  <2>1. [run[m] EXCEPT !["first"] = "waiting"] \in [Runs -> RunPC]
    BY DEF Runs, RunPC
  <2> QED
    BY <1>5, <2>1 DEF AddPayout
<1>6. CASE ApproveEnqueue(r)
  BY <1>5, <1>6 DEF ApproveEnqueue, Step, closeVars
<1>7. CASE HandleSubmitted(r)
  BY <1>7 DEF HandleSubmitted, EventStep, closeVars
<1>8. CASE HandleApproved(r)
  BY <1>8 DEF HandleApproved, EventStep, closeVars
<1>9. CASE HandleApprovedEnqueue(r)
  BY <1>5, <1>9 DEF HandleApprovedEnqueue, EventStep, closeVars
<1> QED
  BY <1>1, <1>2, <1>3, <1>4, <1>6, <1>7, <1>8, <1>9
     DEF RequestNext, RequestGoesOn, EventNext

\* One run of a milestone's job moves.
LEMMA RunStepType ==
  ASSUME TypeOK, NEW m \in Milestone, NEW i \in Runs, NEW from, NEW to \in RunPC,
         RunStep(m, i, from, to)
  PROVE  /\ run' \in [Milestone -> [Runs -> RunPC]]
         /\ run'[m][i] = to
         /\ \A n \in Milestone, j \in Runs :
              <<n, j>> # <<m, i>> => run'[n][j] = run[n][j]
<1>1. [run[m] EXCEPT ![i] = to] \in [Runs -> RunPC]
  BY DEF TypeOK
<1> QED
  BY <1>1 DEF RunStep, TypeOK

LEMMA PayoutType ==
  ASSUME TypeOK, NEW m \in Milestone, NEW i \in Runs, RunGoesOn(m, i) \/ RunEnds(m, i)
  PROVE  TypeOK'
<1> USE DEF requestVars, closeVars
<1>1. {"transferred", "entered", "marked", "closing", "done", "failed"} \subseteq RunPC
  BY DEF RunPC, RunActive
<1>2. CASE Transfer(m, i)
  <2>1. run' \in [Milestone -> [Runs -> RunPC]]
    BY <1>1, <1>2, RunStepType DEF Transfer
  <2> QED
    BY <1>2, <2>1 DEF Transfer, TypeOK
<1>3. CASE EnterRow(m, i)
  <2>1. run' \in [Milestone -> [Runs -> RunPC]]
    BY <1>1, <1>3, RunStepType DEF EnterRow
  <2> QED
    BY <1>3, <2>1 DEF EnterRow, TypeOK
<1>4. CASE MarkReleased(m, i)
  <2>1. run' \in [Milestone -> [Runs -> RunPC]]
    BY <1>1, <1>4, RunStepType DEF MarkReleased
  <2> QED
    BY <1>4, <2>1 DEF MarkReleased, TypeOK, MilestoneStatus
<1>5. CASE ReadAll(m, i)
  <2>1. run' \in [Milestone -> [Runs -> RunPC]]
    BY <1>1, <1>5, RunStepType DEF ReadAll
  <2> QED
    BY <1>5, <2>1 DEF ReadAll, TypeOK
<1>6. CASE AutoClose(m, i)
  <2>1. run' \in [Milestone -> [Runs -> RunPC]]
    BY <1>1, <1>6, RunStepType DEF AutoClose
  <2> QED
    BY <1>6, <2>1 DEF AutoClose, TypeOK, EscrowStatus
<1>7. CASE RunEnds(m, i)
  <2>1. run' \in [Milestone -> [Runs -> RunPC]]
    BY <1>1, <1>7, RunStepType DEF RunEnds
  <2> QED
    BY <1>7, <2>1 DEF RunEnds, TypeOK
<1> QED
  BY <1>2, <1>3, <1>4, <1>5, <1>6, <1>7 DEF RunGoesOn

LEMMA AgainType ==
  ASSUME TypeOK, NEW m \in Milestone, RunsAgain(m)
  PROVE  TypeOK'
<1>1. \A n \in Milestone : run'[n] \in [Runs -> RunPC]
  BY DEF RunsAgain, TypeOK, Runs, RunPC, RunActive
<1>2. run' = [run EXCEPT ![m] = run'[m]]
  BY DEF RunsAgain, TypeOK
<1>3. run' \in [Milestone -> [Runs -> RunPC]]
  BY <1>1, <1>2 DEF TypeOK
<1> QED
  BY <1>3 DEF RunsAgain, TypeOK, requestVars, closeVars

LEMMA DroppedType ==
  ASSUME TypeOK, NEW m \in Milestone, RunDropped(m)
  PROVE  TypeOK'
<1>1. "again" \in Runs /\ "dropped" \in RunPC
  BY DEF Runs, RunPC
<1>2. run' \in [Milestone -> [Runs -> RunPC]]
  BY <1>1, RunStepType DEF RunDropped
<1> QED
  BY <1>2 DEF RunDropped, TypeOK, requestVars, closeVars

LEMMA ReviewType ==
  ASSUME TypeOK, NEW m \in Milestone, ReviewNext(m)
  PROVE  TypeOK'
<1> USE DEF ReviewStep, TypeOK, payoutVars, closeVars
<1>1. CASE ReviewRead(m)
  BY <1>1 DEF ReviewRead
<1>2. CASE ReviewApprove(m)
  BY <1>2 DEF ReviewApprove, MilestoneStatus
<1> QED
  BY <1>1, <1>2 DEF ReviewNext

LEMMA CloserType ==
  ASSUME TypeInv, NEW k \in Operations, CloserNext(k)
  PROVE  TypeInv'
<1> USE DEF TypeInv, RefundersOnly, TypeOK, CloserStep, requestVars, payoutVars
<1>1. CASE CloserLoad(k)
  BY <1>1 DEF CloserLoad, ReleasedMilestones
<1>2. CASE CloserRefund(k)
  BY <1>2 DEF CloserRefund
<1>3. CASE CloserCommit(k)
  BY <1>3 DEF CloserCommit, EscrowStatus
<1>4. CASE CloserPayout(k)
  BY <1>4 DEF CloserPayout
<1> QED
  BY <1>1, <1>2, <1>3, <1>4 DEF CloserNext

\* Only the operations on the escrow move them.
LEMMA CloserFrame ==
  /\ \A r \in Request : RequestNext(r) \/ EventNext(r) => closer' = closer
  /\ \A m \in Milestone : ReviewNext(m) \/ RunsAgain(m) \/ RunDropped(m) => closer' = closer
  /\ \A m \in Milestone, i \in Runs :
       RunGoesOn(m, i) \/ RunEnds(m, i) => closer' = closer
  /\ LeaveHeld \/ FullTransfer => closer' = closer
<1> USE DEF closeVars
<1>1. ASSUME NEW r \in Request, RequestNext(r) \/ EventNext(r)
      PROVE  closer' = closer
  BY <1>1 DEF RequestNext, RequestGoesOn, EventNext, LoadEscrow, LoadMilestone, Commit,
     Dispatch, ApproveEnqueue, HandleSubmitted, HandleApproved, HandleApprovedEnqueue,
     EventStep
<1>2. ASSUME NEW m \in Milestone, ReviewNext(m) \/ RunsAgain(m) \/ RunDropped(m)
      PROVE  closer' = closer
  BY <1>2 DEF ReviewNext, ReviewRead, ReviewApprove, ReviewStep, RunsAgain, RunDropped, RunStep
<1>3. ASSUME NEW m \in Milestone, NEW i \in Runs, RunGoesOn(m, i) \/ RunEnds(m, i)
      PROVE  closer' = closer
  BY <1>3 DEF RunGoesOn, RunEnds, Transfer, EnterRow, MarkReleased, ReadAll, AutoClose
<1>4. LeaveHeld \/ FullTransfer => closer' = closer
  BY DEF LeaveHeld, FullTransfer
<1> QED
  BY <1>1, <1>2, <1>3, <1>4

LEMMA EscrowType ==
  ASSUME TypeOK, LeaveHeld \/ FullTransfer
  PROVE  TypeOK'
BY DEF LeaveHeld, FullTransfer, TypeOK, EscrowStatus, requestVars, payoutVars,
       closeVars

LEMMA TypeNext ==
  ASSUME TypeInv, [Next]_vars
  PROVE  TypeInv'
<1>1. closer' = closer /\ TypeOK' => TypeInv'
  BY DEF TypeInv, RefundersOnly
<1>2. CASE UNCHANGED vars
  BY <1>1, <1>2 DEF vars, TypeInv, TypeOK
<1>3. CASE \E r \in Request : RequestNext(r) \/ EventNext(r)
  BY <1>1, <1>3, RequestType, CloserFrame DEF TypeInv
<1>4. CASE \E m \in Milestone : ReviewNext(m) \/ RunsAgain(m) \/ RunDropped(m)
  BY <1>1, <1>4, ReviewType, AgainType, DroppedType, CloserFrame DEF TypeInv
<1>5. CASE \E m \in Milestone, i \in Runs : RunGoesOn(m, i) \/ RunEnds(m, i)
  BY <1>1, <1>5, PayoutType, CloserFrame DEF TypeInv
<1>6. CASE \E k \in Operations : CloserNext(k)
  BY <1>6, CloserType
<1>7. CASE LeaveHeld \/ FullTransfer
  BY <1>1, <1>7, EscrowType, CloserFrame DEF TypeInv
<1> QED
  BY <1>2, <1>3, <1>4, <1>5, <1>6, <1>7 DEF Next

\* Every variable keeps to its values.
THEOREM TypeCorrect == Spec => []TypeOK
<1>1. TypeInv => TypeOK
  BY DEF TypeInv
<1> QED
  BY <1>1, TypeInit, TypeNext, PTL DEF Spec

-----------------------------------------------------------------------------
(* The books.                                                               *)

\* A run that stays where it is, is added or ends puts nothing out of order.
LEMMA RunsKept ==
  ASSUME RunsInOrder, rows' \subseteq Milestone,
         transfers \subseteq transfers', rows \subseteq rows',
         \A m \in Milestone, i \in Runs :
           run'[m][i] \in {run[m][i], "waiting", "done", "failed", "dropped"}
  PROVE  RunsInOrder'
BY DEF RunsInOrder

LEMMA BooksInit == Init => BooksInv
BY TypeInit DEF Init, BooksInv, TypeInv, TypeOK, RunsInOrder, ReleasedIsOnTheBooks,
                ReleasedMilestones, Runs

LEMMA AddedIsWaiting ==
  ASSUME TypeOK, NEW m \in Milestone, AddPayout(m)
  PROVE  \A n \in Milestone, i \in Runs : run'[n][i] \in {run[n][i], "waiting"}
BY DEF AddPayout, TypeOK, Runs

\* Requests, events and the review timeout neither pay nor mark Released.
LEMMA RequestBooks ==
  ASSUME BooksInv, TypeOK', NEW r \in Request, RequestNext(r) \/ EventNext(r)
  PROVE  RunsInOrder' /\ ReleasedIsOnTheBooks'
<1> USE MilestonesAssumption DEF BooksInv, TypeInv, TypeOK
<1>1. /\ UNCHANGED <<transfers, rows>>
      /\ \A m \in Milestone, i \in Runs : run'[m][i] \in {run[m][i], "waiting"}
  <2>1. CASE UNCHANGED payoutVars
    BY <2>1 DEF payoutVars
  <2>2. CASE ApproveEnqueue(r)
    BY <2>2, AddedIsWaiting DEF ApproveEnqueue
  <2>3. CASE HandleApprovedEnqueue(r)
    BY <2>3, AddedIsWaiting DEF HandleApprovedEnqueue, EventStep
  <2>4. CASE HandleSubmitted(r) \/ HandleApproved(r)
    BY <2>4 DEF HandleSubmitted, HandleApproved, EventStep, payoutVars
  <2>5. CASE LoadEscrow(r) \/ LoadMilestone(r) \/ Commit(r) \/ Dispatch(r)
    BY <2>5 DEF LoadEscrow, LoadMilestone, Commit, Dispatch, payoutVars
  <2> QED
    BY <2>1, <2>2, <2>3, <2>4, <2>5 DEF RequestNext, RequestGoesOn, EventNext
<1>2. RunsInOrder'
  BY <1>1, RunsKept
<1>3. ReleasedMilestones' \subseteq ReleasedMilestones
  <2>1. CASE Commit(r)
    BY <2>1 DEF Commit, ReleasedMilestones
  <2>2. CASE ~Commit(r)
    BY <2>2 DEF RequestNext, RequestGoesOn, EventNext, LoadEscrow, LoadMilestone,
       Dispatch, ApproveEnqueue, HandleSubmitted, HandleApproved,
       HandleApprovedEnqueue, EventStep, ReleasedMilestones
  <2> QED
    BY <2>1, <2>2
<1> QED
  BY <1>1, <1>2, <1>3 DEF ReleasedIsOnTheBooks

LEMMA ReviewBooks ==
  ASSUME BooksInv, TypeOK', NEW m \in Milestone, ReviewNext(m)
  PROVE  RunsInOrder' /\ ReleasedIsOnTheBooks'
<1>1. UNCHANGED payoutVars
  BY DEF ReviewNext, ReviewRead, ReviewApprove, ReviewStep
<1>2. RunsInOrder'
  BY <1>1 DEF BooksInv, RunsInOrder, payoutVars
<1>3. ReleasedMilestones' \subseteq ReleasedMilestones
  <2>1. CASE ReviewRead(m)
    BY <2>1 DEF ReviewRead, ReleasedMilestones
  <2>2. CASE ReviewApprove(m)
    BY <2>2 DEF ReviewApprove, ReleasedMilestones, BooksInv, TypeInv, TypeOK
  <2> QED
    BY <2>1, <2>2 DEF ReviewNext
<1> QED
  BY <1>1, <1>2, <1>3 DEF BooksInv, ReleasedIsOnTheBooks, payoutVars

LEMMA AgainBooks ==
  ASSUME BooksInv, TypeOK', NEW m \in Milestone, RunsAgain(m)
  PROVE  RunsInOrder' /\ ReleasedIsOnTheBooks'
<1>1. \A n \in Milestone, i \in Runs : run'[n][i] \in {run[n][i], "waiting", "done"}
  BY DEF RunsAgain, BooksInv, TypeInv, TypeOK, Runs
<1>2. UNCHANGED <<transfers, rows, mstatus>>
  BY DEF RunsAgain
<1>3. RunsInOrder'
  BY <1>1, <1>2, RunsKept DEF BooksInv, TypeInv, TypeOK
<1> QED
  BY <1>2, <1>3 DEF BooksInv, ReleasedIsOnTheBooks, ReleasedMilestones

LEMMA DroppedBooks ==
  ASSUME BooksInv, TypeOK', NEW m \in Milestone, RunDropped(m)
  PROVE  RunsInOrder' /\ ReleasedIsOnTheBooks'
<1>1. \A n \in Milestone, i \in Runs : run'[n][i] \in {run[n][i], "dropped"}
  BY DEF RunDropped, RunStep, BooksInv, TypeInv, TypeOK, Runs
<1>2. UNCHANGED <<transfers, rows, mstatus>>
  BY DEF RunDropped
<1>3. RunsInOrder'
  BY <1>1, <1>2, RunsKept DEF BooksInv, TypeInv, TypeOK
<1> QED
  BY <1>2, <1>3 DEF BooksInv, ReleasedIsOnTheBooks, ReleasedMilestones

\* A payout transfers, enters its row and only then marks its milestone.
LEMMA PayoutBooks ==
  ASSUME BooksInv, TypeOK', NEW m \in Milestone, NEW i \in Runs,
         RunGoesOn(m, i) \/ RunEnds(m, i)
  PROVE  RunsInOrder' /\ ReleasedIsOnTheBooks'
<1> USE DEF BooksInv, TypeInv
<1>1. {"transferred", "entered", "marked", "closing", "done", "failed"} \subseteq RunPC
  BY DEF RunPC, RunActive
<1>2. CASE Transfer(m, i)
  <2>1. /\ run'[m][i] = "transferred"
        /\ \A n \in Milestone, j \in Runs : <<n, j>> # <<m, i>> => run'[n][j] = run[n][j]
    BY <1>1, <1>2, RunStepType DEF Transfer
  <2>2. UNCHANGED <<rows, mstatus>> /\ transfers' = transfers \cup {m}
    BY <1>2 DEF Transfer
  <2> QED
    BY <2>1, <2>2 DEF RunsInOrder, ReleasedIsOnTheBooks, ReleasedMilestones
<1>3. CASE EnterRow(m, i)
  <2>1. /\ run'[m][i] \in {"failed", "entered"}
        /\ \A n \in Milestone, j \in Runs : <<n, j>> # <<m, i>> => run'[n][j] = run[n][j]
    BY <1>1, <1>3, RunStepType DEF EnterRow
  <2>2. UNCHANGED <<transfers, mstatus>> /\ rows' = rows \cup {m}
    BY <1>3 DEF EnterRow
  <2>3. m \in transfers
    BY <1>3 DEF EnterRow, RunStep, RunsInOrder
  <2>4. rows' \subseteq Milestone
    BY DEF TypeOK
  <2> QED
    BY <2>1, <2>2, <2>3, <2>4 DEF RunsInOrder, ReleasedIsOnTheBooks, ReleasedMilestones
<1>4. CASE MarkReleased(m, i)
  <2>1. /\ run'[m][i] = "marked"
        /\ \A n \in Milestone, j \in Runs : <<n, j>> # <<m, i>> => run'[n][j] = run[n][j]
    BY <1>1, <1>4, RunStepType DEF MarkReleased
  <2>2. UNCHANGED <<transfers, rows>> /\ ReleasedMilestones' = ReleasedMilestones \cup {m}
    BY <1>4 DEF MarkReleased, ReleasedMilestones, TypeOK
  <2>3. m \in rows
    BY <1>4 DEF MarkReleased, RunStep, RunsInOrder
  <2> QED
    BY <2>1, <2>2, <2>3 DEF RunsInOrder, ReleasedIsOnTheBooks
<1>5. CASE ReadAll(m, i)
  <2>1. /\ run'[m][i] = IF AllReleased THEN "closing" ELSE "done"
        /\ \A n \in Milestone, j \in Runs : <<n, j>> # <<m, i>> => run'[n][j] = run[n][j]
    BY <1>1, <1>5, RunStepType DEF ReadAll
  <2>2. UNCHANGED <<transfers, rows, mstatus>>
    BY <1>5 DEF ReadAll
  <2>3. AllReleased => rows = Milestone
    <3>1. rows \subseteq Milestone /\ ReleasedMilestones \subseteq rows
      BY DEF TypeOK, ReleasedIsOnTheBooks
    <3>2. AllReleased => Milestone \subseteq ReleasedMilestones
      BY DEF AllReleased, ReleasedMilestones
    <3> QED
      BY <3>1, <3>2
  <2>4. RunsInOrder'
    <3>1. SUFFICES ASSUME NEW n \in Milestone, NEW j \in Runs
                   PROVE  /\ run'[n][j] = "transferred" => n \in transfers
                          /\ run'[n][j] \in {"entered", "marked"} => n \in rows
                          /\ run'[n][j] = "closing" => rows = Milestone
      BY <2>2 DEF RunsInOrder
    <3>2. CASE n = m /\ j = i
      BY <2>1, <2>3, <3>2
    <3>3. CASE ~(n = m /\ j = i)
      BY <2>1, <3>3 DEF RunsInOrder
    <3> QED
      BY <3>2, <3>3
  <2>5. ReleasedIsOnTheBooks'
    BY <2>2 DEF ReleasedIsOnTheBooks, ReleasedMilestones
  <2> QED
    BY <2>4, <2>5
<1>6. CASE AutoClose(m, i)
  <2>1. /\ run'[m][i] = "done"
        /\ \A n \in Milestone, j \in Runs : <<n, j>> # <<m, i>> => run'[n][j] = run[n][j]
    BY <1>1, <1>6, RunStepType DEF AutoClose
  <2>2. UNCHANGED <<transfers, rows, mstatus>>
    BY <1>6 DEF AutoClose
  <2> QED
    BY <2>1, <2>2 DEF RunsInOrder, ReleasedIsOnTheBooks, ReleasedMilestones
<1>7. CASE RunEnds(m, i)
  <2>1. /\ run'[m][i] = "failed"
        /\ \A n \in Milestone, j \in Runs : <<n, j>> # <<m, i>> => run'[n][j] = run[n][j]
    BY <1>1, <1>7, RunStepType DEF RunEnds
  <2>2. UNCHANGED <<transfers, rows, mstatus>>
    BY <1>7 DEF RunEnds
  <2> QED
    BY <2>1, <2>2 DEF RunsInOrder, ReleasedIsOnTheBooks, ReleasedMilestones
<1> QED
  BY <1>2, <1>3, <1>4, <1>5, <1>6, <1>7 DEF RunGoesOn

\* The operations on the escrow leave milestones and payouts alone.
LEMMA EscrowBooks ==
  ASSUME BooksInv,
         UNCHANGED vars \/ (\E k \in Operations : CloserNext(k)) \/ LeaveHeld \/ FullTransfer
  PROVE  RunsInOrder' /\ ReleasedIsOnTheBooks'
<1>1. UNCHANGED <<mstatus, run, transfers, rows>>
  BY DEF vars, CloserNext, CloserLoad, CloserRefund, CloserCommit, CloserPayout,
         CloserStep, LeaveHeld, FullTransfer, payoutVars
<1> QED
  BY <1>1 DEF BooksInv, RunsInOrder, ReleasedIsOnTheBooks, ReleasedMilestones

LEMMA BooksNext ==
  ASSUME BooksInv, [Next]_vars
  PROVE  BooksInv'
<1>1. TypeInv' /\ TypeOK'
  BY TypeNext DEF BooksInv, TypeInv
<1>2. CASE \E r \in Request : RequestNext(r) \/ EventNext(r)
  BY <1>1, <1>2, RequestBooks DEF BooksInv
<1>3. CASE \E m \in Milestone : ReviewNext(m) \/ RunsAgain(m) \/ RunDropped(m)
  BY <1>1, <1>3, ReviewBooks, AgainBooks, DroppedBooks DEF BooksInv
<1>4. CASE \E m \in Milestone, i \in Runs : RunGoesOn(m, i) \/ RunEnds(m, i)
  BY <1>1, <1>4, PayoutBooks DEF BooksInv
<1>5. CASE UNCHANGED vars \/ (\E k \in Operations : CloserNext(k)) \/ LeaveHeld \/ FullTransfer
  BY <1>1, <1>5, EscrowBooks DEF BooksInv
<1> QED
  BY <1>2, <1>3, <1>4, <1>5 DEF Next

\* However many milestones there are, whoever approves them and however often
\* their payouts run or fail: one that is marked Released was transferred and is
\* in the ledger.
THEOREM ReleasedWasPaid == Spec => []ReleasedIsOnTheBooks
<1>1. BooksInv => ReleasedIsOnTheBooks
  BY DEF BooksInv
<1> QED
  BY <1>1, BooksInit, BooksNext, PTL DEF Spec
-----------------------------------------------------------------------------
(* Closing.                                                                 *)

\* What does not settle the escrow leaves ClosedOnce as it was.
LEMMA ClosedKept ==
  ASSUME ClosingInv, BooksInv', rows \subseteq rows', UNCHANGED <<status, closer, closed>>
  PROVE  ClosedOnce'
BY DEF ClosingInv, ClosedOnce, BooksInv, TypeInv, TypeOK

LEMMA RequestKeepsEscrow ==
  ASSUME NEW r \in Request, RequestNext(r) \/ EventNext(r)
  PROVE  UNCHANGED <<status, closer, closed, rows>>
BY DEF RequestNext, RequestGoesOn, EventNext, LoadEscrow, LoadMilestone, Commit,
       Dispatch, ApproveEnqueue, HandleSubmitted, HandleApproved,
       HandleApprovedEnqueue, EventStep, closeVars, payoutVars

LEMMA ReviewKeepsEscrow ==
  ASSUME NEW m \in Milestone, ReviewNext(m) \/ RunsAgain(m) \/ RunDropped(m)
  PROVE  UNCHANGED <<status, closer, closed, rows>>
BY DEF ReviewNext, ReviewRead, ReviewApprove, ReviewStep, RunsAgain, RunDropped, RunStep, closeVars,
       payoutVars

LEMMA PayoutCloses ==
  ASSUME ClosingInv, BooksInv', NEW m \in Milestone, NEW i \in Runs,
         RunGoesOn(m, i) \/ RunEnds(m, i)
  PROVE  ClosedOnce'
<1>1. CASE AutoClose(m, i)
  <2>1. rows = Milestone
    BY <1>1 DEF AutoClose, RunStep, ClosingInv, BooksInv, RunsInOrder
  <2>2. UNCHANGED <<rows, closer>>
    BY <1>1 DEF AutoClose, closeVars
  <2>3. CASE status = "Held"
    BY <1>1, <2>1, <2>2, <2>3 DEF AutoClose, ClosingInv, ClosedOnce
  <2>4. CASE status # "Held"
    BY <1>1, <2>2, <2>4 DEF AutoClose, ClosingInv, ClosedOnce
  <2> QED
    BY <2>3, <2>4
<1>2. CASE ~AutoClose(m, i)
  <2>1. rows \subseteq rows' /\ UNCHANGED <<status, closer, closed>>
    BY <1>2 DEF RunGoesOn, RunEnds, Transfer, EnterRow, MarkReleased, ReadAll, closeVars
  <2> QED
    BY <2>1, ClosedKept
<1> QED
  BY <1>1, <1>2

\* An operation settles an escrow only from a status that is not final.
LEMMA CloserCloses ==
  ASSUME ClosingInv, BooksInv', NEW k \in Operations, CloserNext(k)
  PROVE  ClosedOnce'
<1> USE DEF ClosingInv, BooksInv, TypeInv, TypeOK, ClosedOnce, CloserStep, payoutVars
<1>1. From[k] \in {"Held", "AwaitingAction", "Disputed"}
  BY DEF From, Operations
<1>2. CASE CloserLoad(k)
  BY <1>2 DEF CloserLoad
<1>3. CASE CloserRefund(k)
  BY <1>3 DEF CloserRefund
<1>4. CASE CloserCommit(k)
  <2>1. CASE status = From[k]
    <3>1. /\ closed # "payout"
          /\ status' \in {"Released", "Refunded"}
          /\ closed' = k
      BY <1>1, <1>4, <2>1 DEF CloserCommit
    <3>2. k # "payout"
      BY DEF Operations
    <3> QED
      BY <3>1, <3>2
  <2>2. CASE status # From[k]
    BY <1>4, <2>2 DEF CloserCommit
  <2> QED
    BY <2>1, <2>2
<1>5. CASE CloserPayout(k)
  BY <1>5 DEF CloserPayout
<1> QED
  BY <1>2, <1>3, <1>4, <1>5 DEF CloserNext

LEMMA EscrowCloses ==
  ASSUME ClosingInv, BooksInv', LeaveHeld \/ FullTransfer
  PROVE  ClosedOnce'
<1>1. CASE LeaveHeld
  <2>1. status \notin {"Released", "Refunded"}
    BY <1>1 DEF LeaveHeld, CanTransition, ValidTransitions
  <2>2. UNCHANGED <<closer, closed, rows>>
    BY <1>1 DEF LeaveHeld, closeVars, payoutVars
  <2> QED
    BY <2>1, <2>2 DEF ClosingInv, ClosedOnce
<1>2. CASE FullTransfer
  BY <1>2, ClosedKept DEF FullTransfer, payoutVars
<1> QED
  BY <1>1, <1>2

LEMMA ClosingInit == Init => ClosingInv
BY BooksInit DEF Init, ClosingInv, ClosedOnce

LEMMA ClosingNext ==
  ASSUME ClosingInv, [Next]_vars
  PROVE  ClosingInv'
<1>1. BooksInv'
  BY BooksNext DEF ClosingInv
<1>2. CASE UNCHANGED vars
  BY <1>1, <1>2, ClosedKept DEF vars, ClosingInv
<1>3. CASE \E r \in Request : RequestNext(r) \/ EventNext(r)
  BY <1>1, <1>3, RequestKeepsEscrow, ClosedKept DEF ClosingInv
<1>4. CASE \E m \in Milestone : ReviewNext(m) \/ RunsAgain(m) \/ RunDropped(m)
  BY <1>1, <1>4, ReviewKeepsEscrow, ClosedKept DEF ClosingInv
<1>5. CASE \E m \in Milestone, i \in Runs : RunGoesOn(m, i) \/ RunEnds(m, i)
  BY <1>1, <1>5, PayoutCloses DEF ClosingInv
<1>6. CASE \E k \in Operations : CloserNext(k)
  BY <1>1, <1>6, CloserCloses DEF ClosingInv
<1>7. CASE LeaveHeld \/ FullTransfer
  BY <1>1, <1>7, EscrowCloses DEF ClosingInv
<1> QED
  BY <1>2, <1>3, <1>4, <1>5, <1>6, <1>7 DEF Next

\* An escrow that a payout closed has all its milestones transferred and in the
\* ledger, and no release, refund or resolution has settled it.
THEOREM ClosedIsPaidOut == Spec => []AutoClosedIsPaidOut
<1>1. ClosingInv => AutoClosedIsPaidOut
  BY DEF ClosingInv, BooksInv, TypeInv, TypeOK, ClosedOnce, ReleasedIsOnTheBooks,
         AutoClosedIsPaidOut
<1> QED
  BY <1>1, ClosingInit, ClosingNext, PTL DEF Spec

-----------------------------------------------------------------------------
(* Late writes.                                                             *)

LEMMA SeenInit == Init => ClearedHasSeen
BY DEF Init, ClearedHasSeen

LEMMA SeenNext ==
  ASSUME TypeInv, ClearedHasSeen, [Next]_vars
  PROVE  ClearedHasSeen'
<1> USE MilestonesAssumption DEF TypeInv, TypeOK, ClearedHasSeen
<1>1. CASE UNCHANGED <<pc, saw>>
  BY <1>1
<1>2. ASSUME NEW r \in Request, LoadEscrow(r) \/ Commit(r) \/ Dispatch(r) \/ ApproveEnqueue(r)
      PROVE  ClearedHasSeen'
  BY <1>2 DEF LoadEscrow, Commit, Dispatch, ApproveEnqueue, Step
<1>3. ASSUME NEW r \in Request, LoadMilestone(r)
      PROVE  ClearedHasSeen'
  BY <1>3 DEF LoadMilestone, Step
<1>4. ASSUME NEW r \in Request, EventNext(r)
      PROVE  UNCHANGED <<pc, saw>>
  BY <1>4 DEF EventNext, HandleSubmitted, HandleApproved, HandleApprovedEnqueue, EventStep
<1>5. ASSUME NEW m \in Milestone, ReviewNext(m) \/ RunsAgain(m) \/ RunDropped(m)
      PROVE  UNCHANGED <<pc, saw>>
  BY <1>5 DEF ReviewNext, ReviewRead, ReviewApprove, ReviewStep, RunsAgain, RunDropped, RunStep, requestVars
<1>6. ASSUME NEW m \in Milestone, NEW i \in Runs, RunGoesOn(m, i) \/ RunEnds(m, i)
      PROVE  UNCHANGED <<pc, saw>>
  BY <1>6 DEF RunGoesOn, RunEnds, Transfer, EnterRow, MarkReleased, ReadAll, AutoClose,
     requestVars
<1>7. ASSUME NEW k \in Operations, CloserNext(k)
      PROVE  UNCHANGED <<pc, saw>>
  BY <1>7 DEF CloserNext, CloserLoad, CloserRefund, CloserCommit, CloserPayout,
     CloserStep, requestVars
<1>8. UNCHANGED vars \/ LeaveHeld \/ FullTransfer => UNCHANGED <<pc, saw>>
  BY DEF vars, LeaveHeld, FullTransfer, requestVars
<1> QED
  BY <1>1, <1>2, <1>3, <1>4, <1>5, <1>6, <1>7, <1>8 DEF Next, RequestNext, RequestGoesOn

\* The three writes of a milestone's status, and the only ones.
LEMMA StatusWrites ==
  ASSUME [Next]_vars, mstatus' # mstatus
  PROVE  \/ \E r \in Request : Commit(r)
         \/ \E m \in Milestone : ReviewApprove(m)
         \/ \E m \in Milestone, i \in Runs : MarkReleased(m, i)
<1>1. ASSUME NEW r \in Request, RequestNext(r) \/ EventNext(r)
      PROVE  Commit(r)
  BY <1>1 DEF RequestNext, RequestGoesOn, EventNext, LoadEscrow, LoadMilestone, Dispatch,
     ApproveEnqueue, HandleSubmitted, HandleApproved, HandleApprovedEnqueue, EventStep
<1>2. ASSUME NEW m \in Milestone, ReviewNext(m) \/ RunsAgain(m) \/ RunDropped(m)
      PROVE  ReviewApprove(m)
  BY <1>2 DEF ReviewNext, ReviewRead, RunsAgain, RunDropped
<1>3. ASSUME NEW m \in Milestone, NEW i \in Runs, RunGoesOn(m, i) \/ RunEnds(m, i)
      PROVE  MarkReleased(m, i)
  BY <1>3 DEF RunGoesOn, RunEnds, Transfer, EnterRow, ReadAll, AutoClose
<1>4. ~(\E k \in Operations : CloserNext(k)) /\ ~(UNCHANGED vars \/ LeaveHeld \/ FullTransfer)
  BY DEF CloserNext, CloserLoad, CloserRefund, CloserCommit, CloserPayout, CloserStep,
         vars, LeaveHeld, FullTransfer
<1> QED
  BY <1>1, <1>2, <1>3, <1>4 DEF Next

LEMMA BackStep ==
  ASSUME TypeInv, ClearedHasSeen, [Next]_vars, NEW m \in Milestone,
         Rank[mstatus'[m]] < Rank[mstatus[m]]
  PROVE  LateWrite(m)
<1> USE MilestonesAssumption DEF TypeInv, TypeOK
<1>1. mstatus[m] \in MilestoneStatus /\ mstatus'[m] # mstatus[m]
  BY DEF Rank, MilestoneStatus
<1>2. \A s \in MilestoneStatus : Rank[s] \in 0 .. 3
  BY DEF Rank, MilestoneStatus
<1>3. CASE \E r \in Request : Commit(r)
  <2>1. PICK r \in Request : Commit(r)
    BY <1>3
  <2>2. /\ Target[r] = m
        /\ pc[r] = "cleared" /\ pc'[r] = "committed"
        /\ mstatus'[m] = IF Op[r] = "submit" THEN "Submitted" ELSE "Approved"
    BY <1>1, <2>1 DEF Commit, Step
  <2>3. Permitted(Op[r], saw[r])
    BY <2>2 DEF ClearedHasSeen
  <2>4. saw[r] # mstatus[m]
    BY <2>2, <2>3 DEF Permitted, Rank
  <2> QED
    BY <2>2, <2>4 DEF LateWrite
<1>4. CASE \E n \in Milestone : ReviewApprove(n)
  <2>1. review[m] = "approving" /\ mstatus'[m] = "Approved"
    BY <1>1, <1>4 DEF ReviewApprove, ReviewStep
  <2>2. mstatus[m] # "Submitted"
    BY <2>1 DEF Rank
  <2> QED
    BY <2>1, <2>2 DEF LateWrite
<1>5. CASE \E n \in Milestone, i \in Runs : MarkReleased(n, i)
  <2>1. mstatus'[m] = "Released"
    BY <1>1, <1>5 DEF MarkReleased
  <2>2. Rank[mstatus'[m]] = 3
    BY <2>1 DEF Rank
  <2>3. Rank[mstatus[m]] \in 0 .. 3
    BY <1>1, <1>2
  <2> QED
    BY <2>2, <2>3
<1> QED
  BY <1>1, <1>3, <1>4, <1>5, StatusWrites

\* A milestone goes back only by a request or a review timeout that read it
\* before somebody else wrote it.
THEOREM BackIsLate == Spec => BackOnlyByLateWrite
<1>1. Init => TypeInv /\ ClearedHasSeen
  BY TypeInit, SeenInit
<1>2. TypeInv /\ ClearedHasSeen /\ [Next]_vars => TypeInv' /\ ClearedHasSeen'
  BY TypeNext, SeenNext
<1>3. TypeInv /\ ClearedHasSeen /\ [Next]_vars
        => [\A m \in Milestone : Rank[mstatus'[m]] < Rank[mstatus[m]] => LateWrite(m)]_vars
  BY BackStep
<1> QED
  BY <1>1, <1>2, <1>3, PTL DEF Spec, BackOnlyByLateWrite

-----------------------------------------------------------------------------
(* Money.                                                                   *)

\* What an operation on the escrow counted as paid out is in the ledger.
CountedIsPaid == \A k \in Operations : paidThen[k] \subseteq rows

MoneyInv == ClosingInv /\ CountedIsPaid

LEMMA MoneyInit == Init => MoneyInv
BY ClosingInit DEF Init, MoneyInv, CountedIsPaid

\* No row is taken back, and only loading an escrow counts.
LEMMA MoneyStep ==
  ASSUME [Next]_vars
  PROVE  /\ rows \subseteq rows'
         /\ paidThen' = paidThen \/ \E k \in Operations : CloserLoad(k)
<1> USE DEF payoutVars, closeVars
<1>1. ASSUME NEW r \in Request, RequestNext(r) \/ EventNext(r)
      PROVE  rows' = rows /\ paidThen' = paidThen
  BY <1>1 DEF RequestNext, RequestGoesOn, EventNext, LoadEscrow, LoadMilestone, Commit,
     Dispatch, ApproveEnqueue, HandleSubmitted, HandleApproved, HandleApprovedEnqueue,
     EventStep
<1>2. ASSUME NEW m \in Milestone, ReviewNext(m) \/ RunsAgain(m) \/ RunDropped(m)
      PROVE  rows' = rows /\ paidThen' = paidThen
  BY <1>2 DEF ReviewNext, ReviewRead, ReviewApprove, ReviewStep, RunsAgain, RunDropped, RunStep
<1>3. ASSUME NEW m \in Milestone, NEW i \in Runs, RunGoesOn(m, i) \/ RunEnds(m, i)
      PROVE  rows \subseteq rows' /\ paidThen' = paidThen
  BY <1>3 DEF RunGoesOn, RunEnds, Transfer, EnterRow, MarkReleased, ReadAll, AutoClose
<1>4. ASSUME NEW k \in Operations, CloserNext(k)
      PROVE  rows' = rows /\ (paidThen' = paidThen \/ CloserLoad(k))
  BY <1>4 DEF CloserNext, CloserRefund, CloserCommit, CloserPayout, CloserStep, CloserLoad
<1>5. LeaveHeld \/ FullTransfer \/ UNCHANGED vars => rows' = rows /\ paidThen' = paidThen
  BY DEF LeaveHeld, FullTransfer, vars
<1> QED
  BY <1>1, <1>2, <1>3, <1>4, <1>5 DEF Next

LEMMA MoneyNext ==
  ASSUME MoneyInv, [Next]_vars
  PROVE  MoneyInv'
<1>1. ClosingInv'
  BY ClosingNext DEF MoneyInv
<1>2. CASE paidThen' = paidThen
  BY <1>1, <1>2, MoneyStep DEF MoneyInv, CountedIsPaid
<1>3. CASE \E k \in Operations : CloserLoad(k)
  <2>1. PICK k \in Operations : CloserLoad(k)
    BY <1>3
  <2>2. paidThen' = [paidThen EXCEPT ![k] = ReleasedMilestones]
    BY <2>1 DEF CloserLoad
  <2>3. ReleasedMilestones \subseteq rows /\ paidThen \in [Operations -> SUBSET Milestone]
    BY DEF MoneyInv, ClosingInv, BooksInv, TypeInv, TypeOK, ReleasedIsOnTheBooks
  <2>4. \A j \in Operations : paidThen'[j] \in {paidThen[j], ReleasedMilestones}
    BY <2>2, <2>3
  <2> QED
    BY <1>1, <2>3, <2>4, MoneyStep DEF MoneyInv, CountedIsPaid
<1> QED
  BY <1>2, <1>3, MoneyStep

\* Sums of amounts: of a part and of the rest.
LEMMA Amounts ==
  /\ \A S \in SUBSET Milestone : SumOf(S) \in Nat /\ SumOf(S) <= SumOf(Milestone)
  /\ \A S, T \in SUBSET Milestone : T \subseteq S => SumOf(S) = SumOf(T) + SumOf(S \ T)
<1> DEFINE f == [S \in SUBSET Milestone |-> SumOf(S)]
<1>1. IsFiniteSet(Milestone) /\ \A m \in Milestone : Amount[m] \in Nat
  BY MilestonesAssumption
<1>2. Adds(f, Milestone, Amount)
  BY <1>1, SetSumsAdd DEF SumOf
<1>3. \A S \in SUBSET Milestone : f[S] = SumOf(S)
  OBVIOUS
<1> HIDE DEF f
<1>4. \A S \in SUBSET Milestone : f[S] \in Nat
  BY <1>2 DEF Adds
<1>5. \A S \in SUBSET Milestone : f[S] <= f[Milestone]
  BY <1>1, <1>2, AddsMonotone
<1>6. \A S, T \in SUBSET Milestone : T \subseteq S => f[S] = f[T] + f[S \ T]
  BY <1>1, <1>2, AddsSplit
<1>7. \A S, T \in SUBSET Milestone : S \ T \in SUBSET Milestone
  OBVIOUS
<1> QED
  BY <1>3, <1>4, <1>5, <1>6, <1>7

\* How far the escrow's amount is from its milestones'.
LEMMA AmountsRounded ==
  /\ EscrowAmount \in Nat /\ RoundingError \in Nat
  /\ EscrowAmount - SumOf(Milestone) <= RoundingError
  /\ SumOf(Milestone) - EscrowAmount <= RoundingError
  /\ \A x \in Int : x \in Rounding <=> x <= RoundingError /\ -RoundingError <= x
<1>1. Cardinality(Milestone) \in Nat
  BY MilestonesAssumption, FS_CardinalityType
<1>2. RoundingError \in Nat
  BY <1>1 DEF RoundingError
<1>3. SumOf(Milestone) \in Nat
  BY Amounts
<1>4. EscrowAmount \in Nat /\ EscrowAmount - SumOf(Milestone) \in -RoundingError .. RoundingError
  BY MilestonesAssumption DEF Rounding
<1> DEFINE s == SumOf(Milestone)
<1> HIDE DEF s
<1>5. s \in Nat /\ EscrowAmount - s \in -RoundingError .. RoundingError
  BY <1>3, <1>4 DEF s
<1>6. EscrowAmount - s <= RoundingError /\ s - EscrowAmount <= RoundingError
  BY <1>2, <1>4, <1>5
<1>7. \A x \in Int : x \in Rounding <=> x <= RoundingError /\ -RoundingError <= x
  BY <1>2 DEF Rounding
<1> QED
  BY <1>2, <1>4, <1>6, <1>7 DEF s

\* However many milestones are paid while a refund or a resolution is on its way:
\* what it keeps back has reached the payee, and beyond the escrow's amount go only
\* the milestones it counted as unpaid.
THEOREM RefundIsTheRest == Spec => []OverpaidOnlyInFlight
<1>1. ASSUME MoneyInv
      PROVE  OverpaidOnlyInFlight
  <2>1. /\ transfers \in SUBSET Milestone /\ rows \in SUBSET Milestone
        /\ rows \subseteq transfers
        /\ \A k \in Operations : /\ paidThen[k] \in SUBSET Milestone
                                 /\ paidThen[k] \subseteq rows
        /\ refund \in Refunding \cup {"none"}
    BY <1>1 DEF MoneyInv, ClosingInv, BooksInv, TypeInv, TypeOK, ReleasedIsOnTheBooks,
                CountedIsPaid
  <2>2. ASSUME NEW k \in Operations, NEW S \in {transfers, rows}
        PROVE  /\ SumOf(S) = SumOf(paidThen[k]) + SumOf(S \ paidThen[k])
               /\ SumOf(S \ paidThen[k]) \in Nat /\ SumOf(paidThen[k]) \in Nat
    <3>1. S \ paidThen[k] \in SUBSET Milestone /\ paidThen[k] \subseteq S
      BY <2>1
    <3> QED
      BY <2>1, <3>1, Amounts
  <2> DEFINE all == SumOf(Milestone)
  <2>3. /\ all \in Nat /\ EscrowAmount \in Nat /\ RoundingError \in Nat
        /\ EscrowAmount - all <= RoundingError /\ all - EscrowAmount <= RoundingError
    BY Amounts, AmountsRounded
  <2>4. ASSUME full # "paid", refund = "none"
        PROVE  PaidOut <= EscrowAmount + RoundingError
    <3> DEFINE paid == SumOf(transfers)
    <3>1. PaidOut = paid + 0 /\ paid \in Nat /\ paid <= all
      BY <2>1, <2>4, Amounts DEF PaidOut
    <3> HIDE DEF paid, all
    <3> QED
      BY <2>3, <3>1
  <2>5. ASSUME full # "paid", refund # "none"
        PROVE  PaidOut + Returned = EscrowAmount + SumOf(transfers \ paidThen[refund])
    <3> DEFINE counted == SumOf(paidThen[refund])
               inFlight == SumOf(transfers \ paidThen[refund])
    <3>1. refund \in Operations
      BY <2>1, <2>5 DEF Refunding, Operations
    <3>2. PaidOut = SumOf(transfers) + 0 /\ Returned = EscrowAmount - counted
      BY <2>5 DEF PaidOut, Returned, RemainingBalance
    <3>3. SumOf(transfers) = counted + inFlight /\ counted \in Nat /\ inFlight \in Nat
      BY <2>2, <3>1
    <3> HIDE DEF counted, inFlight, all
    <3>4. PaidOut + Returned = EscrowAmount + inFlight
      BY <2>3, <3>2, <3>3
    <3> QED
      BY <3>4 DEF inFlight
  <2>6. ASSUME closed \in Operations
        PROVE  LedgerHeld + SumOf(rows \ paidThen[closed])
                 \in IF closed = "release" /\ RemainingBalance(closed) < 0
                     THEN Rounding ELSE {0}
    <3> DEFINE counted == SumOf(paidThen[closed])
               since == SumOf(rows \ paidThen[closed])
               row == RowOf(closed)
               rest == RemainingBalance(closed)
    <3>1. /\ LedgerHeld = EscrowAmount - SumOf(rows) - row
          /\ rest = EscrowAmount - counted
          /\ row = IF closed = "release" /\ rest <= 0 THEN 0 ELSE rest
      BY <2>6 DEF LedgerHeld, RemainingBalance, RowOf
    <3>2. /\ SumOf(rows) = counted + since /\ counted \in Nat /\ since \in Nat
          /\ counted <= all
      BY <2>1, <2>2, <2>6, Amounts
    <3> HIDE DEF counted, since, row, rest, all
    <3>3. LedgerHeld + since = rest - row /\ rest \in Int
      <4>1. row \in Int /\ rest \in Int
        BY <2>3, <3>1, <3>2
      <4> QED
        BY <2>3, <3>1, <3>2, <4>1
    <3>4. -RoundingError <= rest
      BY <2>3, <3>1, <3>2
    <3>5. CASE closed = "release" /\ rest < 0
      <4>1. LedgerHeld + since = rest /\ rest <= RoundingError
        BY <2>3, <3>1, <3>3, <3>5
      <4>2. rest \in Rounding
        BY <3>3, <3>4, <4>1, AmountsRounded
      <4> QED
        BY <3>5, <4>1, <4>2 DEF since, rest
    <3>6. CASE ~(closed = "release" /\ rest < 0)
      <4>1. LedgerHeld + since = 0
        BY <3>1, <3>3, <3>6
      <4> QED
        BY <3>6, <4>1 DEF since, rest
    <3> QED
      BY <3>5, <3>6
  <2>7. ASSUME closed = "payout"
        PROVE  LedgerHeld \in Rounding
    <3>1. rows = Milestone /\ closed \notin Operations
      BY <1>1, <2>7 DEF MoneyInv, ClosingInv, ClosedOnce, Operations
    <3>2. LedgerHeld = EscrowAmount - all - 0
      BY <3>1 DEF LedgerHeld
    <3> HIDE DEF all
    <3>3. LedgerHeld \in Int /\ LedgerHeld <= RoundingError /\ -RoundingError <= LedgerHeld
      BY <2>3, <3>2
    <3> QED
      BY <3>3, AmountsRounded
  <2> QED
    BY <2>4, <2>5, <2>6, <2>7 DEF OverpaidOnlyInFlight
<1> QED
  BY <1>1, MoneyInit, MoneyNext, PTL DEF Spec
-----------------------------------------------------------------------------
(* What has been decided is in somebody's hands.                            *)

\* Somebody still looks whether the last milestone was the last.
StillLooks ==
  \E m \in Milestone : RunFailed(m) \/ \E i \in Runs : run[m][i] \in {"marked", "closing"}

\* No escrow stays Held with every milestone Released and nobody on the way to
\* close it, unless a payout failed: two last payouts that run side by side do not
\* leave the closing to each other.
LastPayoutLooks ==
  Milestone # {} /\ status = "Held" /\ ReleasedMilestones = Milestone => StillLooks

\* The milestone's payout waits, or it was made, or it failed, or it was dropped when
\* it was put off once more.
PayoutInHand(m) ==
  \/ m \in transfers \/ RunFailed(m) \/ PayoutDropped(m)
  \/ \E i \in Runs : run[m][i] = "waiting"

\* Once a payout of a milestone has been added, it is not lost in another way.
AddedInHand == \A m \in Milestone : run[m]["first"] # "none" => PayoutInHand(m)

\* A payer's approval that has been answered has its payout in hand.
ApprovedIsAdded ==
  \A r \in Request :
    Op[r] = "approve" /\ pc[r] = "done" => run[Target[r]]["first"] # "none"

ApprovalInHand ==
  \A r \in Request : Op[r] = "approve" /\ pc[r] = "done" => PayoutInHand(Target[r])

HandInv == TypeInv /\ AddedInHand /\ ApprovedIsAdded

\* A payout waits until it transfers, is put off, and then it waits again, or is
\* dropped.
RunsForward ==
  \A m \in Milestone :
    /\ run[m]["first"] # "none" => run'[m]["first"] # "none"
    /\ run'[m]["first"] # "none" /\ run[m]["first"] = "none" => PayoutInHand(m)'
    /\ PayoutInHand(m) => PayoutInHand(m)'

\* Nothing is lost while every run stays where it is or is added.
LEMMA AddedForward ==
  ASSUME TypeOK, UNCHANGED <<run, transfers>> \/
                 (transfers' = transfers /\ \E m \in Milestone : AddPayout(m))
  PROVE  RunsForward
<1>1. CASE UNCHANGED <<run, transfers>>
  BY <1>1 DEF RunsForward, PayoutInHand, PayoutDropped, RunFailed
<1>2. ASSUME NEW m \in Milestone, AddPayout(m), transfers' = transfers
      PROVE  RunsForward
  <2>1. \A n \in Milestone, i \in Runs :
          run'[n][i] = run[n][i] \/ (run[n][i] = "none" /\ run'[n][i] = "waiting")
    BY <1>2 DEF AddPayout, TypeOK, Runs
  <2>2. "first" \in Runs /\ "again" \in Runs
    BY DEF Runs
  <2>3. SUFFICES ASSUME NEW n \in Milestone
                 PROVE  /\ run[n]["first"] # "none" => run'[n]["first"] # "none"
                        /\ run'[n]["first"] # "none" /\ run[n]["first"] = "none" => PayoutInHand(n)'
                        /\ PayoutInHand(n) => PayoutInHand(n)'
    BY DEF RunsForward
  <2> QED
    BY <1>2, <2>1, <2>2 DEF PayoutInHand, PayoutDropped, RunFailed
<1> QED
  BY <1>1, <1>2

\* One run goes from one step to the next: what it was to do is done.
LEMMA StepForward ==
  ASSUME TypeOK, NEW m \in Milestone, NEW i \in Runs, NEW from, NEW to \in RunPC,
         RunStep(m, i, from, to), transfers \subseteq transfers',
         from # "none", to # "none", from = "failed" => to = "failed",
         from = "dropped" => to = "dropped",
         from = "waiting" => m \in transfers' \/ (i = "again" /\ to = "dropped")
  PROVE  RunsForward
<1>1. /\ run[m][i] = from /\ run'[m][i] = to
      /\ \A n \in Milestone, j \in Runs :
           <<n, j>> # <<m, i>> => run'[n][j] = run[n][j]
  <2>1. run[m][i] = from
    BY DEF RunStep
  <2> QED
    BY <2>1, RunStepType
<1>2. "first" \in Runs
  BY DEF Runs
<1>3. SUFFICES ASSUME NEW n \in Milestone
               PROVE  /\ run[n]["first"] # "none" => run'[n]["first"] # "none"
                      /\ run'[n]["first"] # "none" /\ run[n]["first"] = "none" => PayoutInHand(n)'
                      /\ PayoutInHand(n) => PayoutInHand(n)'
  BY DEF RunsForward
<1>4. run[n]["first"] # "none" <=> run'[n]["first"] # "none"
  BY <1>1, <1>2
<1>5. ASSUME PayoutInHand(n) PROVE PayoutInHand(n)'
  <2>1. CASE n \in transfers
    BY <2>1 DEF PayoutInHand
  <2>2. ASSUME NEW j \in Runs, run[n][j] = "failed" PROVE PayoutInHand(n)'
    BY <1>1, <2>2 DEF PayoutInHand, PayoutDropped, RunFailed
  <2>3. ASSUME NEW j \in Runs, run[n][j] = "waiting" PROVE PayoutInHand(n)'
    BY <1>1, <2>3 DEF PayoutInHand, PayoutDropped
  <2>4. CASE PayoutDropped(n)
    BY <1>1, <2>4 DEF PayoutInHand, PayoutDropped, Runs
  <2> QED
    BY <1>5, <2>1, <2>2, <2>3, <2>4 DEF PayoutInHand, PayoutDropped, RunFailed
<1> QED
  BY <1>4, <1>5

LEMMA PayoutForward ==
  ASSUME TypeOK, NEW m \in Milestone, NEW i \in Runs, RunGoesOn(m, i) \/ RunEnds(m, i)
  PROVE  RunsForward
<1>1. {"transferred", "entered", "marked", "closing", "done", "failed"} \subseteq RunPC
  BY DEF RunPC, RunActive
<1>2. CASE Transfer(m, i)
  BY <1>1, <1>2, StepForward DEF Transfer
<1>3. CASE EnterRow(m, i)
  BY <1>1, <1>3, StepForward DEF EnterRow
<1>4. CASE MarkReleased(m, i)
  BY <1>1, <1>4, StepForward DEF MarkReleased
<1>5. CASE ReadAll(m, i)
  BY <1>1, <1>5, StepForward DEF ReadAll
<1>6. CASE AutoClose(m, i)
  BY <1>1, <1>6, StepForward DEF AutoClose
<1>7. CASE RunEnds(m, i)
  <2>1. run[m][i] \notin {"none", "waiting", "failed", "dropped"}
    BY <1>7 DEF RunEnds, RunActive
  <2> QED
    BY <1>1, <1>7, <2>1, StepForward DEF RunEnds
<1> QED
  BY <1>2, <1>3, <1>4, <1>5, <1>6, <1>7 DEF RunGoesOn

\* A job that is put off or has stalled waits for its second run.
LEMMA AgainForward ==
  ASSUME TypeOK, NEW m \in Milestone, RunsAgain(m)
  PROVE  RunsForward
<1>1. /\ run'[m]["again"] = "waiting"
      /\ run[m]["first"] # "none" /\ run'[m]["first"] # "none"
      /\ \A n \in Milestone : n # m => run'[n] = run[n]
      /\ transfers' = transfers
  BY DEF RunsAgain, TypeOK, RunActive
<1>2. PayoutInHand(m)'
  BY <1>1 DEF PayoutInHand, Runs
<1> QED
  BY <1>1, <1>2 DEF RunsForward, PayoutInHand, PayoutDropped, RunFailed

\* A job that is dropped has been put off twice.
LEMMA DroppedForward ==
  ASSUME TypeOK, NEW m \in Milestone, RunDropped(m)
  PROVE  RunsForward
<1>1. "again" \in Runs /\ "dropped" \in RunPC
  BY DEF Runs, RunPC
<1>2. RunStep(m, "again", "waiting", "dropped") /\ transfers' = transfers
  BY DEF RunDropped
<1> QED
  BY <1>1, <1>2, StepForward

LEMMA ForwardNext ==
  ASSUME TypeOK, [Next]_vars
  PROVE  RunsForward
<1> USE MilestonesAssumption DEF TypeOK
<1>1. ASSUME NEW r \in Request, RequestNext(r) \/ EventNext(r)
      PROVE  RunsForward
  <2>1. CASE ApproveEnqueue(r) \/ HandleApprovedEnqueue(r)
    <3>1. transfers' = transfers /\ AddPayout(Target[r])
      BY <2>1 DEF ApproveEnqueue, HandleApprovedEnqueue, EventStep
    <3> QED
      BY <3>1, AddedForward
  <2>2. CASE ~(ApproveEnqueue(r) \/ HandleApprovedEnqueue(r))
    <3>1. UNCHANGED <<run, transfers>>
      BY <1>1, <2>2 DEF RequestNext, RequestGoesOn, EventNext, LoadEscrow, LoadMilestone,
         Commit, Dispatch, HandleSubmitted, HandleApproved, EventStep, payoutVars
    <3> QED
      BY <3>1, AddedForward
  <2> QED
    BY <2>1, <2>2
<1>2. ASSUME NEW m \in Milestone, ReviewNext(m)
      PROVE  RunsForward
  <2>1. UNCHANGED <<run, transfers>>
    BY <1>2 DEF ReviewNext, ReviewRead, ReviewApprove, ReviewStep, payoutVars
  <2> QED
    BY <2>1, AddedForward
<1>3. CASE UNCHANGED vars \/ (\E k \in Operations : CloserNext(k)) \/ LeaveHeld \/ FullTransfer
  <2>1. UNCHANGED <<run, transfers>>
    BY <1>3 DEF vars, CloserNext, CloserLoad, CloserRefund, CloserCommit, CloserPayout,
       CloserStep, LeaveHeld, FullTransfer, payoutVars
  <2> QED
    BY <2>1, AddedForward
<1> QED
  BY <1>1, <1>2, <1>3, AgainForward, DroppedForward, PayoutForward DEF Next

\* A request is done with an approval when it has added the payout.
LEMMA AnsweredIsAdded ==
  ASSUME TypeOK, [Next]_vars, NEW r \in Request,
         Op[r] = "approve", pc'[r] = "done", pc[r] # "done"
  PROVE  run'[Target[r]]["first"] # "none"
<1> USE MilestonesAssumption DEF TypeOK
<1>1. PICK q \in Request : RequestNext(q) \/ EventNext(q)
  BY DEF Next, vars, ReviewNext, ReviewRead, ReviewApprove, ReviewStep, RunsAgain, RunDropped, RunStep,
     RunGoesOn, RunEnds, Transfer, EnterRow, MarkReleased, ReadAll, AutoClose, CloserNext,
     CloserLoad, CloserRefund, CloserCommit, CloserPayout, CloserStep, LeaveHeld,
     FullTransfer, requestVars
<1>2. ApproveEnqueue(q) /\ q = r
  BY <1>1 DEF RequestNext, RequestGoesOn, EventNext, LoadEscrow, LoadMilestone, Commit,
     Dispatch, ApproveEnqueue, HandleSubmitted, HandleApproved, HandleApprovedEnqueue,
     EventStep, Step
<1> QED
  BY <1>2 DEF ApproveEnqueue, AddPayout, Runs

LEMMA HandInit == Init => HandInv
BY TypeInit, MilestonesAssumption
   DEF Init, HandInv, AddedInHand, ApprovedIsAdded, PayoutInHand, Runs

LEMMA HandNext ==
  ASSUME HandInv, [Next]_vars
  PROVE  HandInv'
<1>1. TypeInv' /\ RunsForward
  BY TypeNext, ForwardNext DEF HandInv, TypeInv
<1>2. AddedInHand'
  BY <1>1 DEF HandInv, AddedInHand, RunsForward
<1>3. ApprovedIsAdded'
  <2>1. SUFFICES ASSUME NEW r \in Request, Op[r] = "approve", pc'[r] = "done"
                 PROVE  run'[Target[r]]["first"] # "none"
    BY DEF ApprovedIsAdded
  <2>2. CASE pc[r] = "done"
    BY <1>1, <2>1, <2>2, MilestonesAssumption DEF HandInv, ApprovedIsAdded, RunsForward
  <2>3. CASE pc[r] # "done"
    BY <2>1, <2>3, AnsweredIsAdded DEF HandInv, TypeInv
  <2> QED
    BY <2>2, <2>3
<1> QED
  BY <1>1, <1>2, <1>3 DEF HandInv

\* Approved twice, beside its own timeout or run a second time: the payout of a
\* milestone whose approval was answered is waiting, made or failed, and nothing but
\* a second put-off under one id makes the queue forget it.
THEOREM ApprovalIsInHand == Spec => []ApprovalInHand
<1>1. HandInv => ApprovalInHand
  BY MilestonesAssumption DEF HandInv, AddedInHand, ApprovedIsAdded, ApprovalInHand
<1> QED
  BY <1>1, HandInit, HandNext, PTL DEF Spec

\* A run that looks goes on looking, closes the escrow or fails.
LEMMA LooksNext ==
  ASSUME TypeOK, LastPayoutLooks, [Next]_vars
  PROVE  LastPayoutLooks'
<1> USE MilestonesAssumption
<1>1. SUFFICES ASSUME Milestone # {}, status' = "Held", ReleasedMilestones' = Milestone
               PROVE  StillLooks'
  BY DEF LastPayoutLooks
<1>2. status = "Held"
  BY <1>1 DEF Next, vars, RequestNext, RequestGoesOn, EventNext, LoadEscrow, LoadMilestone,
     Commit, Dispatch, ApproveEnqueue, HandleSubmitted, HandleApproved,
     HandleApprovedEnqueue, EventStep, ReviewNext, ReviewRead, ReviewApprove, ReviewStep,
     RunsAgain, RunDropped, RunGoesOn, RunEnds, Transfer, EnterRow, MarkReleased, ReadAll,
     AutoClose,
     CloserNext, CloserLoad, CloserRefund, CloserCommit, CloserPayout, LeaveHeld,
     FullTransfer
<1>3. \A m \in Milestone : mstatus'[m] = "Released"
  BY <1>1 DEF ReleasedMilestones
<1>4. ASSUME NEW m \in Milestone, NEW i \in Runs, MarkReleased(m, i)
      PROVE  StillLooks'
  <2>1. run'[m][i] = "marked"
    BY <1>4, RunStepType DEF MarkReleased, RunPC, RunActive
  <2> QED
    BY <2>1 DEF StillLooks
<1>5. CASE mstatus' # mstatus
  <2>1. ~(\E r \in Request : Commit(r))
    BY <1>3 DEF Commit, TypeOK
  <2>2. ~(\E m \in Milestone : ReviewApprove(m))
    BY <1>3 DEF ReviewApprove, TypeOK
  <2> QED
    BY <1>4, <1>5, <2>1, <2>2, StatusWrites
<1>6. CASE mstatus' = mstatus
  <2>1. AllReleased /\ StillLooks
    BY <1>1, <1>2, <1>3, <1>6 DEF LastPayoutLooks, ReleasedMilestones, AllReleased
  <2>2. PICK n \in Milestone, j \in Runs : run[n][j] \in {"failed", "marked", "closing"}
    BY <2>1 DEF StillLooks, RunFailed
  <2>3. run'[n][j] = run[n][j] => StillLooks'
    BY <2>2 DEF StillLooks, RunFailed
  <2>4. ASSUME NEW r \in Request, RequestNext(r) \/ EventNext(r)
        PROVE  run'[n][j] = run[n][j]
    <3>1. CASE AddPayout(Target[r])
      BY <2>2, <3>1 DEF AddPayout, TypeOK, Runs
    <3>2. CASE ~AddPayout(Target[r])
      BY <2>4, <3>2 DEF RequestNext, RequestGoesOn, EventNext, LoadEscrow, LoadMilestone,
         Commit, Dispatch, ApproveEnqueue, HandleSubmitted, HandleApproved,
         HandleApprovedEnqueue, EventStep, payoutVars
    <3> QED
      BY <3>1, <3>2
  <2>5. ASSUME NEW m \in Milestone, ReviewNext(m) \/ RunsAgain(m) \/ RunDropped(m)
        PROVE  run'[n][j] = run[n][j]
    <3>1. CASE RunsAgain(m)
      BY <2>2, <3>1 DEF RunsAgain, TypeOK, Runs
    <3>2. CASE RunDropped(m)
      BY <2>2, <3>2 DEF RunDropped, RunStep, TypeOK, Runs
    <3>3. CASE ReviewNext(m)
      BY <3>3 DEF ReviewNext, ReviewRead, ReviewApprove, ReviewStep, payoutVars
    <3> QED
      BY <2>5, <3>1, <3>2, <3>3
  <2>6. ASSUME NEW m \in Milestone, NEW i \in Runs, RunGoesOn(m, i) \/ RunEnds(m, i)
        PROVE  StillLooks'
    <3>1. CASE AutoClose(m, i)
      BY <1>1, <1>2, <3>1 DEF AutoClose
    <3>2. ASSUME NEW from, NEW to \in RunPC, RunStep(m, i, from, to),
                 from \in {"failed", "marked", "closing"} =>
                   to \in {"failed", "marked", "closing"}
          PROVE  StillLooks'
      <4>1. run[m][i] = from
        BY <3>2 DEF RunStep
      <4>2. /\ run'[m][i] = to
            /\ \A p \in Milestone, q \in Runs :
                 <<p, q>> # <<m, i>> => run'[p][q] = run[p][q]
        BY <3>2, RunStepType
      <4>3. run'[n][j] \in {"failed", "marked", "closing"}
        BY <2>2, <3>2, <4>1, <4>2
      <4> QED
        BY <4>3 DEF StillLooks, RunFailed
    <3>3. {"transferred", "entered", "marked", "closing", "done", "failed"} \subseteq RunPC
      BY DEF RunPC, RunActive
    <3>4. CASE Transfer(m, i)
      BY <3>2, <3>3, <3>4 DEF Transfer
    <3>5. CASE EnterRow(m, i)
      BY <3>2, <3>3, <3>5 DEF EnterRow
    <3>6. CASE MarkReleased(m, i)
      BY <1>4, <3>6
    <3>7. CASE ReadAll(m, i)
      BY <2>1, <3>2, <3>3, <3>7 DEF ReadAll
    <3>8. CASE RunEnds(m, i)
      BY <3>2, <3>3, <3>8 DEF RunEnds
    <3> QED
      BY <2>6, <3>1, <3>4, <3>5, <3>6, <3>7, <3>8 DEF RunGoesOn
  <2>7. UNCHANGED vars \/ (\E k \in Operations : CloserNext(k)) \/ LeaveHeld \/ FullTransfer
          => run' = run
    BY DEF vars, CloserNext, CloserLoad, CloserRefund, CloserCommit, CloserPayout,
       CloserStep, LeaveHeld, FullTransfer, payoutVars
  <2> QED
    BY <2>3, <2>4, <2>5, <2>6, <2>7 DEF Next
<1> QED
  BY <1>5, <1>6

\* Of several last payouts side by side, one closes the escrow or a run has failed:
\* in no reachable state is it Held, all milestones Released and nobody looking.
THEOREM LastPayoutIsLooking == Spec => []LastPayoutLooks
<1>1. Init => TypeInv /\ LastPayoutLooks
  <2>1. Init /\ Milestone # {} => ReleasedMilestones # Milestone
    BY DEF Init, ReleasedMilestones
  <2> QED
    BY <2>1, TypeInit DEF LastPayoutLooks
<1>2. TypeInv /\ LastPayoutLooks /\ [Next]_vars => TypeInv' /\ LastPayoutLooks'
  BY TypeNext, LooksNext DEF TypeInv
<1> QED
  BY <1>1, <1>2, PTL DEF Spec
=============================================================================
