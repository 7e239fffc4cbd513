--------------------------- MODULE Notifications ---------------------------
(***************************************************************************)
(* The notifications queue and its worker: whom an escrow's events are     *)
(* mailed to, one address after the other, by a worker that takes one job  *)
(* at a time, loses the rest of a job when a send fails and, when its      *)
(* process died, takes the job up again some time after the restart.       *)
(* Wording and templates are left out.                                     *)
(***************************************************************************)
EXTENDS FiniteSets, Naturals, SequencesExt

CONSTANTS
  Escrow,
  Kinds,      \* the events that are dispatched
  MailFails   \* a send may fail

Roles == {"Payer", "Payee"}

EventKinds ==
  {"escrow.created", "escrow.funded", "escrow.disputed", "escrow.released",
   "milestone.submitted", "milestone.approved"}

ASSUME NotificationsAssumption ==
  /\ Kinds \subseteq EventKinds
  /\ MailFails \in BOOLEAN

Notices == [of : Escrow, kind : EventKinds]

VARIABLES
  people,   \* the roles of an escrow that a participant with an address has
  queued,   \* the notices of an escrow, in the order they came into the queue
  waiting,  \* the queue
  active,   \* the jobs in progress, with whom they have yet to write to
  stalled,  \* jobs whose process died and that no check has found yet
  again,    \* jobs that were found stalled and put back into the queue
  mail      \* the mails sent about an escrow, in order

workerVars == <<queued, waiting, active, stalled, again, mail>>

NotificationsInit ==
  /\ people = [e \in Escrow |-> {}]
  /\ queued = [e \in Escrow |-> <<>>]
  /\ waiting = <<>>
  /\ active = {}
  /\ stalled = {}
  /\ again = {}
  /\ mail = [e \in Escrow |-> <<>>]

-----------------------------------------------------------------------------

\* EventDispatcher.dispatch: the first of its two queues.
Notify(e, kind) ==
  /\ queued' = [queued EXCEPT ![e] = Append(@, kind)]
  /\ waiting' = Append(waiting, [of |-> e, kind |-> kind])
  /\ UNCHANGED <<people, active, stalled, again, mail>>

\* Whom an event is about. A creator who is the payee hears nothing of the escrow's
\* creation, and a submission is mailed when both can be written to.
Addressees(kind, present) ==
  CASE kind = "escrow.created" -> {"Payer"}
    [] kind \in {"escrow.funded", "escrow.disputed"} -> Roles
    [] kind = "milestone.submitted" -> IF present = Roles THEN {"Payer"} ELSE {}
    [] OTHER -> {"Payee"}

\* getParticipantContacts, of those who can be written to: the payer comes first.
Contacts(who) ==
  (IF "Payer" \in who THEN <<"Payer">> ELSE <<>>)
    \o (IF "Payee" \in who THEN <<"Payee">> ELSE <<>>)

Audience(kind, present) == Contacts(Addressees(kind, present) \cap present)

\* Mutant: the worker takes two jobs at a time.
ConcurrencyTwo == 2

\* The worker is made with no option but its connection.
Concurrency == 1

StartNotice ==
  /\ waiting # <<>>
  /\ Cardinality(active) < Concurrency
  /\ LET n == Head(waiting) IN
     active' = active \cup {[job |-> n, todo |-> Audience(n.kind, people[n.of])]}
  /\ waiting' = Tail(waiting)
  /\ UNCHANGED <<people, queued, stalled, again, mail>>

SendMail(run) ==
  /\ run.todo # <<>>
  /\ mail' = [mail EXCEPT ![run.job.of] =
                Append(@, [kind |-> run.job.kind, to |-> Head(run.todo)])]
  /\ active' = (active \ {run}) \cup {[run EXCEPT !.todo = Tail(@)]}
  /\ UNCHANGED <<people, queued, waiting, stalled, again>>

\* The handler rethrows and the job is over: nothing sets its attempts.
SendFails(run) ==
  /\ MailFails
  /\ run.todo # <<>>
  /\ active' = active \ {run}
  /\ UNCHANGED <<people, queued, waiting, stalled, again, mail>>

EndNotice(run) ==
  /\ run.todo = <<>>
  /\ active' = active \ {run}
  /\ UNCHANGED <<people, queued, waiting, stalled, again, mail>>

\* The job's lock has expired and a check finds it: it goes before those that wait, or
\* fails if it was found before.
FindStalled(n) ==
  /\ n \in stalled
  /\ stalled' = stalled \ {n}
  /\ again' = again \cup {n}
  /\ waiting' = IF n \in again THEN waiting ELSE <<n>> \o waiting
  /\ UNCHANGED <<people, queued, active, mail>>

NotificationsNext ==
  \/ StartNotice
  \/ \E run \in active : SendMail(run) \/ SendFails(run) \/ EndNotice(run)
  \/ \E n \in stalled : FindStalled(n)

\* The process dies, and leaves its jobs locked.
NotificationsCrash ==
  /\ stalled' = stalled \cup {run.job : run \in active}
  /\ active' = {}
  /\ UNCHANGED <<people, queued, waiting, again, mail>>

\* Redis is cleared, which only happens while no process is up.
NotificationsFlush ==
  /\ waiting' = <<>>
  /\ stalled' = {}
  /\ UNCHANGED <<people, queued, active, again, mail>>
-----------------------------------------------------------------------------
(* Properties.                                                              *)

NotificationsTypeOK ==
  /\ people \in [Escrow -> SUBSET Roles]
  /\ queued \in [Escrow -> Seq(EventKinds)]
  /\ waiting \in Seq(Notices)
  /\ active \subseteq [job : Notices, todo : Seq(Roles)]
  /\ stalled \subseteq Notices /\ again \subseteq Notices
  /\ mail \in [Escrow -> Seq([kind : EventKinds, to : Roles])]

Told(e, m) == {i \in DOMAIN mail[e] : mail[e][i] = m}

\* A notice of kind l came into the queue after one of kind k.
QueuedAfter(e, k, l) ==
  \E p, q \in DOMAIN queued[e] : p < q /\ queued[e][p] = k /\ queued[e][q] = l

\* However the process dies and sends fail: a mail comes after those of a notice that
\* was queued later only if its own notice was found stalled; a payee hears of the
\* funding or of a dispute only after the payer, even then; and nobody is mailed
\* twice about an event whose notice was not found stalled, or three times about any.
MailsInOrder ==
  \A e \in Escrow : \A j \in DOMAIN mail[e] :
    LET m == mail[e][j]
        foundStalled == [of |-> e, kind |-> m.kind] \in again IN
    /\ \A i \in 1 .. j : QueuedAfter(e, m.kind, mail[e][i].kind) => foundStalled
    /\ m.kind \in {"escrow.funded", "escrow.disputed"} /\ m.to = "Payee" =>
         \E i \in 1 .. j : mail[e][i] = [m EXCEPT !.to = "Payer"]
    /\ Cardinality(Told(e, m)) <= IF foundStalled THEN 2 ELSE 1
=============================================================================
