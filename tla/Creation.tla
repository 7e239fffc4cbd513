------------------------------ MODULE Creation ------------------------------
(***************************************************************************)
(* Escrow creation, by API or by quick link: validation, a code that no    *)
(* other escrow has, the row, escrow.created, the expiry job; its firing;  *)
(* and what start-up makes good after a crash, in which Redis may have     *)
(* been cleared.                                                           *)
(*                                                                         *)
(* Composed with Notifications, whose queue the events go to.  What the    *)
(* other modules do to the escrow is reduced to the events they dispatch.  *)
(***************************************************************************)
EXTENDS Notifications, EscrowInput

CONSTANTS
  Inputs,      \* Inputs[e]: what request e may ask for
  Code,        \* the codes there are
  MaxDraws,    \* the 5 attempts of generateUniqueCode
  Invited,     \* escrows that get a second participant though made by API
  Followed,    \* escrows that are followed once they are funded
  MaxCrashes   \* bound: how often the process dies

\* A quick link is a standard escrow: its schema knows no type and no milestones.
Requests ==
  {i \in [channel : {"api", "quick"}, type : {"Standard", "Milestone"}, role : Roles,
          currency : STRING, account : {"none", "bank_account", "crypto_wallet"},
          days : Int, amount : Int, milestones : Seq(Int), deadlinePast : BOOLEAN] :
     i.channel = "quick" => i.type = "Standard"}

ASSUME CreationAssumption ==
  /\ \A e \in Escrow : \A i \in Inputs[e] : i \in Requests
  /\ MaxDraws \in Nat \ {0}
  /\ MaxCrashes \in Nat

VARIABLES
  pc, input, code, draws,   \* each creation, what it asks for, the code it drew
  status,     \* the escrow's status: none before its row is there
  due,        \* escrows whose expiresAt has passed
  job,        \* the expiry job
  rerun,      \* escrows whose expiry job was found stalled once
  last,       \* the last event of a funded escrow
  unsaid,     \* its events that are committed and not dispatched
  process,    \* down, starting or up
  todo,       \* what rescheduleExpiryJobs has found and not looked at yet
  overdue,    \* escrows that were due without a job when the process came up
  crashes

requestVars == <<pc, input, code, draws>>
escrowVars == <<status, due, last, unsaid>>
jobVars == <<job, rerun>>
processVars == <<process, todo, overdue, crashes>>
vars == <<requestVars, escrowVars, jobVars, processVars, people, workerVars>>

Init ==
  /\ NotificationsInit
  /\ pc = [e \in Escrow |-> "idle"]
  /\ \E f \in [Escrow -> UNION {Inputs[e] : e \in Escrow}] :
       (\A e \in Escrow : f[e] \in Inputs[e]) /\ input = f
  /\ code = [e \in Escrow |-> {}]
  /\ draws = [e \in Escrow |-> 0]
  /\ status = [e \in Escrow |-> "none"]
  /\ due = {}
  /\ job = [e \in Escrow |-> "absent"]
  /\ rerun = {}
  /\ last = [e \in Escrow |-> "escrow.created"]
  /\ unsaid = [e \in Escrow |-> {}]
  /\ process = "up"
  /\ todo = {}
  /\ overdue = {}
  /\ crashes = 0

-----------------------------------------------------------------------------
(* create, and createQuickLinkEscrow as confirmQuick calls it.              *)

Step(e, from, to) ==
  /\ process = "up"
  /\ pc[e] = from
  /\ pc' = [pc EXCEPT ![e] = to]

Begin(e) ==
  /\ Step(e, "idle", IF Acceptable(input[e]) THEN "drawing" ELSE "refused")
  /\ UNCHANGED <<input, code, draws, escrowVars, jobVars, processVars, people, workerVars>>

Taken(c) == \E e \in Escrow : status[e] # "none" /\ code[e] = {c}

\* Mutant: one attempt too many.
LastDrawOneMore(e) == draws[e] = MaxDraws

LastDraw(e) == draws[e] + 1 = MaxDraws

\* generateUniqueCode.
Draw(e) ==
  /\ \E c \in Code :
       IF ~Taken(c)
       THEN Step(e, "drawing", "drawn") /\ code' = [code EXCEPT ![e] = {c}]
       ELSE /\ Step(e, "drawing", IF LastDraw(e) THEN "failed" ELSE "drawing")
            /\ UNCHANGED code
  /\ draws' = [draws EXCEPT ![e] = @ + 1]
  /\ UNCHANGED <<input, escrowVars, jobVars, processVars, people, workerVars>>

\* Mutant: a code that was free when it was drawn is taken to be free.
CodeClashNever(e) == FALSE

\* The column is unique.
CodeClash(e) == \E c \in code[e] : Taken(c)

\* Only create dispatches an event.
AfterInsert(e) == IF input[e].channel = "api" THEN "inserted" ELSE "announced"

Insert(e) ==
  /\ IF CodeClash(e)
     THEN Step(e, "drawn", "conflict") /\ UNCHANGED <<status, people>>
     ELSE /\ Step(e, "drawn", AfterInsert(e))
          /\ status' = [status EXCEPT ![e] = "Created"]
          /\ people' = [people EXCEPT ![e] = {input[e].role}]
  /\ UNCHANGED <<input, code, draws, due, last, unsaid, jobVars, processVars, workerVars>>

\* The escrow worker takes the event too, and does nothing with it.
Announce(e) ==
  /\ Step(e, "inserted", "announced")
  /\ Notify(e, "escrow.created")
  /\ UNCHANGED <<input, code, draws, escrowVars, jobVars, processVars>>

\* A job that is known is not added again.
AddExpiry(e) ==
  IF job[e] = "absent" THEN job' = [job EXCEPT ![e] = "delayed"] ELSE UNCHANGED job

\* scheduleExpiryJob: not without a date, and not for one that has passed.
Schedule(e) ==
  /\ Step(e, "announced", "done")
  /\ IF input[e].days # 0 /\ e \notin due THEN AddExpiry(e) ELSE UNCHANGED job
  /\ overdue' = IF e \in due THEN overdue \cup {e} ELSE overdue
  /\ UNCHANGED <<input, code, draws, escrowVars, rerun, process, todo, crashes, people,
                 workerVars>>

-----------------------------------------------------------------------------
(* The escrow's life, as the other modules have it.                         *)

Payable == {"Created", "AwaitingPayment"}

Expiring(e) == status[e] \in Payable /\ input[e].days # 0

Joined(e) ==
  /\ status[e] = "Created"
  /\ input[e].channel = "quick" \/ e \in Invited
  /\ people' = [people EXCEPT ![e] = Roles]
  /\ people' # people
  /\ UNCHANGED <<requestVars, escrowVars, jobVars, processVars, workerVars>>

\* What an operation commits, it dispatches afterwards.
Commits(e, kind) ==
  /\ last' = [last EXCEPT ![e] = kind]
  /\ unsaid' = [unsaid EXCEPT ![e] = @ \cup {kind}]
  /\ UNCHANGED <<requestVars, due, jobVars, processVars, people, workerVars>>

Funded(e) ==
  /\ process # "down"
  /\ status[e] = "Created"
  /\ "Payer" \in people[e]
  /\ status' = [status EXCEPT ![e] = "Held"]
  /\ Commits(e, "escrow.funded")

\* Which event may be dispatched after which, of a milestone escrow those of its first
\* milestone.  escrow.released is dispatched by releaseEscrow alone, from Held; no
\* resolution of a dispute dispatches anything.
Follows(before, kind) ==
  kind \in CASE before = "escrow.funded" ->
              {"milestone.submitted", "escrow.disputed", "escrow.released"}
         [] before = "milestone.submitted" -> {"milestone.approved", "escrow.disputed"}
         [] before = "milestone.approved" -> {"escrow.disputed", "escrow.released"}
         [] OTHER -> {}

MayHappen(e, kind) ==
  kind \in {"milestone.submitted", "milestone.approved"} =>
    input[e].type = "Milestone" /\ people[e] = Roles

Happens(e) ==
  /\ e \in Followed /\ process = "up"
  /\ \E kind \in Kinds :
       Follows(last[e], kind) /\ MayHappen(e, kind) /\ Commits(e, kind)
  /\ UNCHANGED status

\* Operations that committed one after the other dispatch in any order.
Dispatch(e) ==
  /\ process # "down"
  /\ \E kind \in unsaid[e] :
       unsaid' = [unsaid EXCEPT ![e] = @ \ {kind}] /\ Notify(e, kind)
  /\ UNCHANGED <<requestVars, status, due, last, jobVars, processVars>>

-----------------------------------------------------------------------------
(* Expiry.                                                                  *)

\* expiresAt passes; of an escrow no longer payable it would only be ignored.
TimePasses(e) ==
  /\ Expiring(e)
  /\ e \notin due
  /\ due' = due \cup {e}
  /\ UNCHANGED <<requestVars, status, last, unsaid, jobVars, processVars, people, workerVars>>

JobStep(e, from, to) ==
  /\ process # "down"
  /\ job[e] = from
  /\ job' = [job EXCEPT ![e] = to]
  /\ UNCHANGED <<requestVars, due, last, unsaid, processVars, people, workerVars>>

ExpireRead(e) ==
  /\ e \in due
  /\ JobStep(e, "delayed", IF status[e] \in Payable THEN "cancelling" ELSE "over")
  /\ UNCHANGED <<status, rerun>>

\* By id: module Funding has what this may overwrite.
ExpireWrite(e) ==
  /\ JobStep(e, "cancelling", "over")
  /\ status' = [status EXCEPT ![e] = "Cancelled"]
  /\ UNCHANGED rerun

\* The read or the write fails, and the job with it: nothing sets its attempts.
ExpireThrows(e) ==
  /\ \/ e \in due /\ JobStep(e, "delayed", "failed")
     \/ JobStep(e, "cancelling", "failed")
  /\ UNCHANGED <<status, rerun>>

\* Its lock has expired and a check finds the job: it is run again, or fails if it was
\* found before.
FindExpiryStalled(e) ==
  /\ JobStep(e, "stalled", IF e \in rerun THEN "failed" ELSE "delayed")
  /\ rerun' = rerun \cup {e}
  /\ UNCHANGED status

-----------------------------------------------------------------------------
(* The process.                                                             *)

\* A job that ran stays locked, and what was not dispatched never is.
Crash ==
  /\ process # "down" /\ crashes < MaxCrashes
  /\ crashes' = crashes + 1
  /\ process' = "down"
  /\ todo' = {}
  /\ pc' = [e \in Escrow |->
              IF pc[e] \in {"drawing", "drawn", "inserted", "announced"} THEN "died" ELSE pc[e]]
  /\ job' = [e \in Escrow |-> IF job[e] = "cancelling" THEN "stalled" ELSE job[e]]
  /\ unsaid' = [e \in Escrow |-> {}]
  /\ NotificationsCrash
  /\ UNCHANGED <<input, code, draws, status, due, last, rerun, overdue>>

Flush ==
  /\ process = "down"
  /\ job' = [e \in Escrow |-> "absent"]
  /\ rerun' = {}
  /\ NotificationsFlush
  /\ UNCHANGED <<requestVars, escrowVars, processVars>>

\* The workers are started, and escrows yet to be paid and not past their date are
\* looked for.
Restart ==
  /\ process = "down"
  /\ process' = "starting"
  /\ todo' = {e \in Escrow : Expiring(e) /\ e \notin due}
  /\ overdue' = overdue \cup {e \in Escrow : Expiring(e) /\ e \in due /\ job[e] = "absent"}
  /\ UNCHANGED <<requestVars, escrowVars, jobVars, crashes, people, workerVars>>

\* Mutant: only what is overdue already is scheduled.
ReschedulableOverdue(e) == e \in due

\* A date that has passed in the meantime is left to "the next cron pass".
Reschedulable(e) == e \notin due

Reschedule(e) ==
  /\ process = "starting" /\ e \in todo
  /\ todo' = todo \ {e}
  /\ IF Reschedulable(e) THEN AddExpiry(e) ELSE UNCHANGED job
  /\ overdue' = IF e \in due /\ job[e] = "absent" THEN overdue \cup {e} ELSE overdue
  /\ UNCHANGED <<requestVars, escrowVars, rerun, process, crashes, people, workerVars>>

\* Only then is the port opened.
Listen ==
  /\ process = "starting" /\ todo = {}
  /\ process' = "up"
  /\ UNCHANGED <<requestVars, escrowVars, jobVars, todo, overdue, crashes, people,
                 workerVars>>

-----------------------------------------------------------------------------

RequestGoesOn(e) == Draw(e) \/ Insert(e) \/ Announce(e) \/ Schedule(e)
ExpiryGoesOn(e) == ExpireRead(e) \/ ExpireWrite(e) \/ FindExpiryStalled(e)
StartUp == Restart \/ Listen \/ \E e \in Escrow : Reschedule(e)

NotificationsStep ==
  process # "down" /\ NotificationsNext
    /\ UNCHANGED <<requestVars, escrowVars, jobVars, processVars>>

Next ==
  \/ \E e \in Escrow : \/ Begin(e) \/ RequestGoesOn(e)
                       \/ Joined(e) \/ Funded(e) \/ Happens(e) \/ Dispatch(e)
                       \/ TimePasses(e) \/ ExpiryGoesOn(e) \/ ExpireThrows(e)
  \/ Crash \/ Flush \/ StartUp
  \/ NotificationsStep

Spec == Init /\ [][Next]_vars

\* A process that died is started again and does its work; time passes.
Fairness ==
  /\ \A e \in Escrow : /\ WF_vars(RequestGoesOn(e))
                       /\ WF_vars(ExpiryGoesOn(e))
                       /\ WF_vars(TimePasses(e))
  /\ WF_vars(StartUp)

FairSpec == Spec /\ Fairness
-----------------------------------------------------------------------------
(* Properties.                                                              *)

JobStates == {"absent", "delayed", "cancelling", "stalled", "over", "failed"}

\* Every variable keeps to its values, those of the notifications included.
TypeOK ==
  /\ NotificationsTypeOK
  /\ pc \in [Escrow -> {"idle", "refused", "drawing", "drawn", "failed", "conflict",
                        "inserted", "announced", "done", "died"}]
  /\ \A e \in Escrow : input[e] \in Inputs[e]
  /\ code \in [Escrow -> SUBSET Code]
  /\ draws \in [Escrow -> 0 .. MaxDraws]
  /\ status \in [Escrow -> {"none", "Created", "Held", "Cancelled"}]
  /\ due \subseteq Escrow
  /\ job \in [Escrow -> JobStates] /\ rerun \subseteq Escrow
  /\ last \in [Escrow -> EventKinds] /\ unsaid \in [Escrow -> SUBSET EventKinds]
  /\ process \in {"down", "starting", "up"}
  /\ todo \subseteq Escrow /\ overdue \subseteq Escrow
  /\ crashes \in 0 .. MaxCrashes

Rows == {e \in Escrow : status[e] # "none"}

Apart(x, y) == IF x > y THEN x - y ELSE y - x

\* Whatever was asked for and however creations interleave, the rows are sound: no
\* two have one code; the amount is within the limits, to the cent; milestones add
\* up to it but for a rounding of half a cent each; and the payee who made a quick
\* link has an account in its currency.
RowsAreSound ==
  /\ \A e, f \in Rows : code[e] = code[f] => e = f
  /\ \A e \in Rows :
       LET i == input[e]
           parts == StoredMilestones(i) IN
       /\ StoredAmount(i) \in Stored(Unit) .. Stored(MaxAmount)
       /\ i.type = "Milestone" =>
            2 * Apart(Total(parts), StoredAmount(i)) <= Len(parts) + 1
       /\ i.channel = "quick" /\ i.role = "Payee" =>
            i.account = IF i.currency = "USD" THEN "crypto_wallet" ELSE "bank_account"

\* An escrow with an expiry date is cancelled or funded in the end, through crashes
\* and a cleared Redis, unless it was past its date, and without a job, when the
\* process came up or the job was to be added, or unless its job failed: that one is
\* known, so start-up adds no other.
ExpiredIsCancelled ==
  \A e \in Escrow :
    e \in due /\ status[e] = "Created" ~>
      status[e] # "Created" \/ e \in overdue \/ job[e] = "failed"
=============================================================================
