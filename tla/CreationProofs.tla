--------------------------- MODULE CreationProofs ---------------------------
(***************************************************************************)
(* Theorems about Creation and the notifications it is composed with, for  *)
(* any set of escrows, whatever is asked for, however often the process    *)
(* dies, Redis is cleared and a mail fails.                                *)
(***************************************************************************)
EXTENDS Creation, Sums, SequenceTheorems, TLAPS

\* An attempt is left while a code is being drawn.
DrawsLeft ==
  \A e \in Escrow : /\ pc[e] = "idle" => draws[e] = 0
                    /\ pc[e] = "drawing" => draws[e] < MaxDraws

\* The worker handles one notice at a time.
OneAtATime == \A r, s \in active : r = s

TypeInv == TypeOK /\ DrawsLeft /\ OneAtATime

-----------------------------------------------------------------------------
(* Types.                                                                   *)

\* Whoever is written to: the payer is, if at all, written to first.
LEMMA ContactsShape ==
  ASSUME NEW who \in SUBSET Roles
  PROVE  Contacts(who) \in {<<>>, <<"Payer">>, <<"Payee">>, <<"Payer", "Payee">>}
<1> DEFINE s == <<"Payer">> \o <<"Payee">>
           t == <<"Payer", "Payee">>
<1>1. <<"Payer">> \in Seq(Roles) /\ <<"Payee">> \in Seq(Roles) /\ t \in Seq(Roles)
  BY DEF Roles
<1>2. s \in Seq(Roles) /\ Len(s) = 2 /\ Len(t) = 2
  BY <1>1
<1>3. s[1] = t[1] /\ s[2] = t[2]
  <2>1. s[1] = "Payer" /\ t[1] = "Payer"
    OBVIOUS
  <2>2. s[2] = "Payee" /\ t[2] = "Payee"
    OBVIOUS
  <2> QED
    BY <2>1, <2>2
<1> HIDE DEF s, t
<1>4. \A i \in 1 .. Len(s) : s[i] = t[i]
  BY <1>2, <1>3
<1>5. s = t
  BY <1>1, <1>2, <1>4, SeqEqual
<1>6. <<"Payer">> \o <<>> = <<"Payer">> /\ <<>> \o <<"Payee">> = <<"Payee">> /\ <<>> \o <<>> = <<>>
  <2>1. <<>> \in Seq(Roles)
    OBVIOUS
  <2> QED
    BY <1>1, <2>1, ConcatEmptySeq
<1> QED
  BY <1>5, <1>6, Zenon DEF Contacts, s, t

\* The addressees of a notice.
LEMMA AudienceShape ==
  ASSUME NEW kind \in EventKinds, NEW present \in SUBSET Roles
  PROVE  /\ \E who \in SUBSET Roles : Audience(kind, present) = Contacts(who)
         /\ Audience(kind, present) \in Seq(Roles)
<1>1. Addressees(kind, present) \cap present \in SUBSET Roles
  OBVIOUS
<1>2. /\ <<>> \in Seq(Roles) /\ <<"Payer">> \in Seq(Roles)
      /\ <<"Payee">> \in Seq(Roles) /\ <<"Payer", "Payee">> \in Seq(Roles)
  BY DEF Roles
<1> QED
  BY <1>1, <1>2, ContactsShape DEF Audience

LEMMA ActiveShape ==
  ASSUME OneAtATime
  PROVE  active = {} \/ \E r \in active : active = {r}
BY DEF OneAtATime

LEMMA TypeInit == Init => TypeInv
BY CreationAssumption
   DEF Init, NotificationsInit, TypeInv, TypeOK, NotificationsTypeOK, DrawsLeft, OneAtATime,
       EventKinds, JobStates

\* Steps of creations leave the worker alone, but for the notice they add.
LEMMA NotifyType ==
  ASSUME NotificationsTypeOK, NEW e \in Escrow, NEW kind \in EventKinds, Notify(e, kind)
  PROVE  NotificationsTypeOK'
<1>1. [of |-> e, kind |-> kind] \in Notices
  BY DEF Notices
<1>2. waiting' \in Seq(Notices)
  BY <1>1, AppendProperties DEF Notify, NotificationsTypeOK
<1>3. queued' \in [Escrow -> Seq(EventKinds)]
  <2>1. Append(queued[e], kind) \in Seq(EventKinds)
    BY AppendProperties DEF NotificationsTypeOK
  <2> QED
    BY <2>1 DEF Notify, NotificationsTypeOK
<1> QED
  BY <1>2, <1>3 DEF Notify, NotificationsTypeOK

LEMMA WorkerKept ==
  ASSUME NotificationsTypeOK, people' \in [Escrow -> SUBSET Roles], UNCHANGED workerVars
  PROVE  NotificationsTypeOK'
BY DEF NotificationsTypeOK, workerVars

LEMMA RequestType ==
  ASSUME TypeInv, NEW e \in Escrow, Begin(e) \/ RequestGoesOn(e)
  PROVE  TypeInv'
<1> USE CreationAssumption DEF TypeInv, TypeOK, DrawsLeft, OneAtATime, jobVars
<1>1. CASE Begin(e)
  <2>1. NotificationsTypeOK'
    BY <1>1, WorkerKept DEF Begin, NotificationsTypeOK
  <2> QED
    BY <1>1, <2>1 DEF Begin, Step, escrowVars, processVars, workerVars
<1>2. CASE Draw(e)
  <2>1. NotificationsTypeOK'
    BY <1>2, WorkerKept DEF Draw, NotificationsTypeOK
  <2>2. /\ pc[e] = "drawing" /\ draws' = [draws EXCEPT ![e] = @ + 1]
        /\ UNCHANGED <<input, escrowVars, jobVars, processVars, people, workerVars>>
    BY <1>2 DEF Draw, Step
  <2>3. draws' \in [Escrow -> 0 .. MaxDraws]
    BY <2>2
  <2>4. /\ \/ pc' = [pc EXCEPT ![e] = "drawn"]
           \/ LastDraw(e) /\ pc' = [pc EXCEPT ![e] = "failed"]
           \/ ~LastDraw(e) /\ pc' = [pc EXCEPT ![e] = "drawing"]
        /\ code' \in [Escrow -> SUBSET Code]
    BY <1>2 DEF Draw, Step
  <2>5. DrawsLeft'
    BY <2>2, <2>4 DEF LastDraw
  <2> QED
    BY <2>1, <2>2, <2>3, <2>4, <2>5 DEF escrowVars, processVars, workerVars
<1>3. CASE Insert(e)
  <2>1. input[e].role \in Roles
    BY DEF Requests
  <2>2. people' \in [Escrow -> SUBSET Roles] /\ UNCHANGED workerVars
    <3>1. people \in [Escrow -> SUBSET Roles] /\ {input[e].role} \in SUBSET Roles
      BY <2>1 DEF NotificationsTypeOK
    <3> QED
      BY <1>3, <3>1 DEF Insert
  <2>3. NotificationsTypeOK'
    BY <2>2, WorkerKept
  <2> QED
    BY <1>3, <2>2, <2>3 DEF Insert, AfterInsert, Step, processVars, workerVars
<1>4. CASE Announce(e)
  <2>1. NotificationsTypeOK'
    BY <1>4, NotifyType DEF Announce, EventKinds
  <2> QED
    BY <1>4, <2>1 DEF Announce, Notify, Step, escrowVars, processVars
<1>5. CASE Schedule(e)
  <2>1. NotificationsTypeOK'
    BY <1>5, WorkerKept DEF Schedule, NotificationsTypeOK
  <2>2. job' \in [Escrow -> JobStates]
    BY <1>5 DEF Schedule, AddExpiry, JobStates
  <2> QED
    BY <1>5, <2>1, <2>2 DEF Schedule, Step, escrowVars, workerVars
<1> QED
  BY <1>1, <1>2, <1>3, <1>4, <1>5 DEF RequestGoesOn

LEMMA FollowsType ==
  ASSUME NEW before, NEW kind, Follows(before, kind)
  PROVE  kind \in EventKinds
BY DEF Follows, EventKinds

LEMMA LifeType ==
  ASSUME TypeInv, NEW e \in Escrow,
         \/ Joined(e) \/ Funded(e) \/ Happens(e) \/ Dispatch(e)
         \/ TimePasses(e) \/ ExpiryGoesOn(e) \/ ExpireThrows(e)
  PROVE  TypeInv'
<1> USE DEF TypeInv, TypeOK, DrawsLeft, OneAtATime, requestVars, jobVars
<1>1. CASE Joined(e)
  <2>1. people' \in [Escrow -> SUBSET Roles]
    BY <1>1 DEF Joined, NotificationsTypeOK
  <2> QED
    BY <1>1, <2>1, WorkerKept DEF Joined, escrowVars, processVars, workerVars
<1>2. ASSUME NEW kind \in EventKinds, Commits(e, kind),
             status' = status \/ status' = [status EXCEPT ![e] = "Held"]
      PROVE  TypeInv'
  <2>1. NotificationsTypeOK'
    BY <1>2, WorkerKept DEF Commits, NotificationsTypeOK
  <2>2. unsaid' \in [Escrow -> SUBSET EventKinds] /\ last' \in [Escrow -> EventKinds]
    BY <1>2 DEF Commits
  <2> QED
    BY <1>2, <2>1, <2>2 DEF Commits, processVars, workerVars
<1>3. CASE Funded(e)
  BY <1>2, <1>3 DEF Funded, EventKinds
<1>4. CASE Happens(e)
  BY <1>2, <1>4, FollowsType DEF Happens
<1>5. CASE Dispatch(e)
  <2>1. PICK kind \in unsaid[e] :
          unsaid' = [unsaid EXCEPT ![e] = @ \ {kind}] /\ Notify(e, kind)
    BY <1>5 DEF Dispatch
  <2>2. kind \in EventKinds /\ active' = active
    BY <2>1 DEF Notify
  <2>3. NotificationsTypeOK'
    BY <2>1, <2>2, NotifyType
  <2> QED
    BY <1>5, <2>1, <2>2, <2>3 DEF Dispatch, processVars
<1>6. CASE TimePasses(e)
  <2>1. NotificationsTypeOK'
    BY <1>6, WorkerKept DEF TimePasses, NotificationsTypeOK
  <2> QED
    BY <1>6, <2>1 DEF TimePasses, processVars, workerVars
<1>7. CASE ExpiryGoesOn(e) \/ ExpireThrows(e)
  <2>1. /\ UNCHANGED <<requestVars, due, last, unsaid, processVars, people, workerVars>>
        /\ \E to \in JobStates : job' = [job EXCEPT ![e] = to]
        /\ rerun' = rerun \/ rerun' = rerun \cup {e}
        /\ status' = status \/ status' = [status EXCEPT ![e] = "Cancelled"]
    BY <1>7
       DEF ExpiryGoesOn, ExpireRead, ExpireWrite, ExpireThrows, FindExpiryStalled, JobStep,
           JobStates
  <2>2. NotificationsTypeOK'
    BY <2>1, WorkerKept DEF NotificationsTypeOK
  <2> QED
    BY <2>1, <2>2 DEF processVars, workerVars
<1> QED
  BY <1>1, <1>3, <1>4, <1>5, <1>6, <1>7

LEMMA CrashType ==
  ASSUME TypeInv, Crash
  PROVE  TypeInv'
<1> USE DEF TypeInv, TypeOK, DrawsLeft, OneAtATime
<1>1. NotificationsTypeOK' /\ active' = {}
  <2>1. \A r \in active : r.job \in Notices
    BY DEF NotificationsTypeOK
  <2> QED
    BY <2>1 DEF Crash, NotificationsCrash, NotificationsTypeOK
<1>2. \A e \in Escrow : pc'[e] \in {pc[e], "died"} /\ job'[e] \in {job[e], "stalled"}
  BY DEF Crash
<1>3. /\ pc' = [e \in Escrow |-> pc'[e]] /\ job' = [e \in Escrow |-> job'[e]]
      /\ unsaid' = [e \in Escrow |-> {}]
      /\ process' = "down" /\ todo' = {} /\ crashes' \in 0 .. MaxCrashes
      /\ UNCHANGED <<input, code, draws, status, due, last, rerun, overdue>>
  BY CreationAssumption DEF Crash
<1> QED
  BY <1>1, <1>2, <1>3 DEF JobStates

LEMMA ProcessType ==
  ASSUME TypeInv, Crash \/ Flush \/ StartUp
  PROVE  TypeInv'
<1> USE DEF TypeInv, TypeOK, DrawsLeft, OneAtATime, jobVars
<1>1. CASE Flush
  <2>1. NotificationsTypeOK'
    <3>1. <<>> \in Seq(Notices)
      OBVIOUS
    <3> QED
      BY <1>1, <3>1 DEF Flush, NotificationsFlush, NotificationsTypeOK
  <2> QED
    BY <1>1, <2>1
       DEF Flush, NotificationsFlush, JobStates, requestVars, escrowVars, processVars
<1>2. CASE Restart
  <2>1. NotificationsTypeOK'
    BY <1>2, WorkerKept DEF Restart, NotificationsTypeOK
  <2> QED
    BY <1>2, <2>1 DEF Restart, requestVars, escrowVars, workerVars
<1>3. ASSUME NEW e \in Escrow, Reschedule(e)
      PROVE  TypeInv'
  <2>1. NotificationsTypeOK'
    BY <1>3, WorkerKept DEF Reschedule, NotificationsTypeOK
  <2>2. job' \in [Escrow -> JobStates]
    BY <1>3 DEF Reschedule, AddExpiry, JobStates
  <2> QED
    BY <1>3, <2>1, <2>2 DEF Reschedule, requestVars, escrowVars, workerVars
<1>4. CASE Listen
  <2>1. NotificationsTypeOK'
    BY <1>4, WorkerKept DEF Listen, NotificationsTypeOK
  <2> QED
    BY <1>4, <2>1 DEF Listen, requestVars, escrowVars, workerVars
<1> QED
  BY <1>1, <1>2, <1>3, <1>4, CrashType DEF StartUp

\* The worker starts on the oldest notice.
LEMMA StartType ==
  ASSUME TypeInv, StartNotice
  PROVE  NotificationsTypeOK' /\ OneAtATime'
<1> USE DEF TypeInv, TypeOK, NotificationsTypeOK
<1> DEFINE n == Head(waiting)
           r == [job |-> n, todo |-> Audience(n.kind, people[n.of])]
<1>1. active = {}
  <2>1. ASSUME NEW x \in active, active = {x}
        PROVE  FALSE
    <3>1. Cardinality({x}) = 1 /\ Cardinality(active) < 1
      BY FS_Singleton DEF StartNotice, Concurrency
    <3> QED
      BY <2>1, <3>1
  <2> QED
    BY <2>1, ActiveShape
<1>2. n \in Notices /\ Tail(waiting) \in Seq(Notices)
  BY HeadTailProperties DEF StartNotice
<1>3. n.kind \in EventKinds /\ people[n.of] \in SUBSET Roles
  BY <1>2 DEF Notices
<1>4. r \in [job : Notices, todo : Seq(Roles)]
  BY <1>2, <1>3, AudienceShape
<1>5. active' = {r}
  BY <1>1 DEF StartNotice
<1> HIDE DEF r, n
<1>6. waiting' = Tail(waiting) /\ UNCHANGED <<people, queued, stalled, again, mail>>
  BY DEF StartNotice
<1> QED
  BY <1>2, <1>4, <1>5, <1>6 DEF OneAtATime

LEMMA NoticeType ==
  ASSUME TypeInv, NotificationsNext
  PROVE  NotificationsTypeOK' /\ OneAtATime'
<1> USE DEF TypeInv, TypeOK, NotificationsTypeOK
<1>1. ASSUME NEW run \in active, EndNotice(run) \/ SendFails(run)
      PROVE  NotificationsTypeOK' /\ OneAtATime'
  <2>1. run.job \in Notices
    OBVIOUS
  <2> QED
    BY <1>1, <2>1 DEF EndNotice, SendFails, OneAtATime
<1>2. ASSUME NEW run \in active, SendMail(run)
      PROVE  NotificationsTypeOK' /\ OneAtATime'
  <2> DEFINE next == [run EXCEPT !.todo = Tail(@)]
             m == [kind |-> run.job.kind, to |-> Head(run.todo)]
  <2>1. run \in [job : Notices, todo : Seq(Roles)] /\ run.todo # <<>>
    BY <1>2 DEF SendMail
  <2>2. Head(run.todo) \in Roles /\ Tail(run.todo) \in Seq(Roles)
    BY <2>1, HeadTailProperties
  <2>3. next \in [job : Notices, todo : Seq(Roles)]
    BY <2>1, <2>2
  <2>4. m \in [kind : EventKinds, to : Roles] /\ run.job.of \in Escrow
    BY <2>1, <2>2 DEF Notices
  <2>5. active' = {next}
    BY <1>2 DEF SendMail, OneAtATime
  <2>6. mail' = [mail EXCEPT ![run.job.of] = Append(@, m)]
    BY <1>2 DEF SendMail
  <2>7. UNCHANGED <<people, queued, waiting, stalled, again>>
    BY <1>2 DEF SendMail
  <2> HIDE DEF next, m
  <2>8. mail' \in [Escrow -> Seq([kind : EventKinds, to : Roles])]
    <3>1. Append(mail[run.job.of], m) \in Seq([kind : EventKinds, to : Roles])
      BY <2>4, AppendProperties
    <3> QED
      BY <2>4, <2>6, <3>1
  <2> QED
    BY <2>3, <2>5, <2>7, <2>8 DEF OneAtATime
<1>3. ASSUME NEW n \in stalled, FindStalled(n)
      PROVE  NotificationsTypeOK' /\ OneAtATime'
  <2>1. n \in Notices /\ <<n>> \in Seq(Notices) /\ waiting \in Seq(Notices)
    OBVIOUS
  <2>2. <<n>> \o waiting \in Seq(Notices)
    BY <2>1, ConcatProperties
  <2>3. waiting' \in Seq(Notices)
    BY <1>3, <2>1, <2>2 DEF FindStalled
  <2> QED
    BY <1>3, <2>1, <2>3 DEF FindStalled, OneAtATime
<1> QED
  BY <1>1, <1>2, <1>3, StartType DEF NotificationsNext

LEMMA TypeNext ==
  ASSUME TypeInv, [Next]_vars
  PROVE  TypeInv'
<1>1. CASE UNCHANGED vars
  BY <1>1, WorkerKept
     DEF vars, requestVars, escrowVars, jobVars, processVars, workerVars, TypeInv, TypeOK,
         NotificationsTypeOK, DrawsLeft, OneAtATime
<1>2. CASE NotificationsStep
  <2>1. NotificationsTypeOK' /\ OneAtATime'
    BY <1>2, NoticeType DEF NotificationsStep
  <2> QED
    BY <1>2, <2>1
       DEF NotificationsStep, TypeInv, TypeOK, DrawsLeft, requestVars, escrowVars, jobVars,
           processVars
<1> QED
  BY <1>1, <1>2, RequestType, LifeType, ProcessType DEF Next

\* Every variable keeps to its values: requests draw at most MaxDraws codes, and the
\* queue, the worker and the mails hold what they should.
THEOREM TypeCorrect == Spec => []TypeOK
<1>1. TypeInv => TypeOK
  BY DEF TypeInv
<1> QED
  BY <1>1, TypeInit, TypeNext, PTL DEF Spec

-----------------------------------------------------------------------------
(* Amounts.                                                                 *)

LEMMA StoredRounds ==
  ASSUME NEW a \in Nat
  PROVE  /\ Stored(a) \in Nat
         /\ 10 * Stored(a) - a \in -4 .. 5
BY DEF Stored

LEMMA StoredMonotone ==
  ASSUME NEW a \in Nat, NEW b \in Nat, a <= b
  PROVE  Stored(a) <= Stored(b)
<1>1. /\ Stored(a) \in Nat /\ 10 * Stored(a) - a \in -4 .. 5
      /\ Stored(b) \in Nat /\ 10 * Stored(b) - b \in -4 .. 5
  BY StoredRounds
<1> QED
  BY <1>1 DEF Stored

\* Adding up what was rounded and rounding what was added up: half a cent apart for
\* each amount, at most, and for the sum itself.
LEMMA Rounding ==
  ASSUME NEW q \in Seq(Nat), NEW parts, parts = [n \in DOMAIN q |-> Stored(q[n])]
  PROVE  /\ Total(q) \in Nat
         /\ Total(parts) \in Nat
         /\ 2 * Apart(Total(parts), Stored(Total(q))) <= Len(parts) + 1
<1> DEFINE D == DOMAIN q
<1>1. /\ D = 1 .. Len(q) /\ Len(q) \in Nat /\ IsFiniteSet(D) /\ Cardinality(D) = Len(q)
      /\ \A x \in D : q[x] \in Nat
  <2>1. D = 1 .. Len(q) /\ Len(q) \in Nat /\ \A x \in D : q[x] \in Nat
    OBVIOUS
  <2>2. Len(q) = IF 1 > Len(q) THEN 0 ELSE Len(q) - 1 + 1
    BY <2>1
  <2>3. IsFiniteSet(1 .. Len(q)) /\ Cardinality(1 .. Len(q)) = Len(q)
    BY <2>1, <2>2, FS_Interval
  <2> QED
    BY <2>1, <2>3
<1>2. parts \in Seq(Nat) /\ DOMAIN parts = D /\ Len(parts) = Len(q)
  BY <1>1, StoredRounds
<1>3. PICK f : Adds(f, D, q) /\ Total(q) = f[D]
  BY SequenceSum DEF Total
<1>4. PICK g : Adds(g, D, parts) /\ Total(parts) = g[D]
  BY <1>2, SequenceSum DEF Total
<1>5. \A s \in SUBSET D : f[s] \in Nat /\ g[s] \in Nat
  BY <1>3, <1>4 DEF Adds
<1> DEFINE Near(s) == /\ 10 * g[s] - f[s] <= 5 * Cardinality(s)
                      /\ f[s] - 10 * g[s] <= 4 * Cardinality(s)
           Far == {s \in SUBSET D : ~Near(s)}
<1>6. Far = {}
  <2> SUFFICES ASSUME Far # {} PROVE FALSE
    OBVIOUS
  <2>1. \A s \in Far : IsFiniteSet(s)
    BY <1>1, Parts
  <2> HIDE DEF Far
  <2>2. PICK s \in Far : \A t \in Far : Cardinality(s) <= Cardinality(t)
    BY <2>1, SmallestSet
  <2>3. s \in SUBSET D /\ ~Near(s)
    BY DEF Far
  <2>4. s # {}
    <3>1. f[{}] = 0 /\ g[{}] = 0 /\ Cardinality({}) = 0
      BY <1>3, <1>4, FS_EmptySet DEF Adds
    <3>2. Near({})
      BY <3>1
    <3> QED
      BY <2>3, <3>2
  <2>5. PICK x \in s : TRUE
    BY <2>4
  <2> DEFINE t == s \ {x}
  <2>6. t \in SUBSET D /\ Cardinality(t) = Cardinality(s) - 1 /\ Cardinality(s) \in Nat
    <3>1. IsFiniteSet(D) /\ s \in SUBSET D
      BY <1>1, <2>3
    <3> HIDE DEF D, Far
    <3>2. /\ Cardinality(s) \in Nat
          /\ \A y \in s : s \ {y} \in SUBSET D /\ Cardinality(s \ {y}) = Cardinality(s) - 1
      BY <3>1, Parts
    <3> QED
      BY <2>5, <3>2
  <2>7. Near(t)
    <3>1. t \notin Far
      <4> HIDE DEF t
      <4> QED
        BY <2>2, <2>6
    <3> QED
      BY <2>6, <3>1 DEF Far
  <2>8. f[s] = q[x] + f[t] /\ g[s] = parts[x] + g[t]
    BY <1>3, <1>4, <2>3 DEF Adds
  <2>9. q[x] \in Nat /\ parts[x] \in Nat /\ 10 * parts[x] - q[x] \in -4 .. 5
    BY <1>1, <2>3, StoredRounds
  <2>10. f[t] \in Nat /\ g[t] \in Nat
    BY <1>5, <2>6
  <2>11. 10 * g[t] - f[t] <= 5 * Cardinality(t) /\ f[t] - 10 * g[t] <= 4 * Cardinality(t)
    BY <2>7
  <2> HIDE DEF t
  <2>12. Near(s)
    <3> DEFINE F == f[t]
               G == g[t]
               m == Cardinality(t)
               k == Cardinality(s)
               a == q[x]
               b == parts[x]
    <3>1. /\ F \in Nat /\ G \in Nat /\ k \in Nat /\ m = k - 1
          /\ 10 * G - F <= 5 * m /\ F - 10 * G <= 4 * m
          /\ a \in Nat /\ b \in Nat /\ 10 * b - a \in -4 .. 5
      BY <2>6, <2>9, <2>10, <2>11, Zenon
    <3> HIDE DEF F, G, m, k, a, b
    <3>2. 10 * (b + G) - (a + F) <= 5 * k /\ (a + F) - 10 * (b + G) <= 4 * k
      BY <3>1
    <3> QED
      BY <2>8, <3>2 DEF F, G, k, a, b
  <2> QED
    BY <2>3, <2>12
<1>7. Near(D)
  BY <1>6
<1>8. /\ Stored(Total(q)) \in Nat
      /\ 10 * Stored(Total(q)) - Total(q) \in -4 .. 5
  BY <1>3, <1>5, StoredRounds
<1> DEFINE sum == Total(q)
           rounded == Total(parts)
           one == Stored(sum)
<1>9. /\ sum \in Nat /\ rounded \in Nat /\ one \in Nat
      /\ 10 * rounded - sum <= 5 * Len(q) /\ sum - 10 * rounded <= 4 * Len(q)
      /\ 10 * one - sum \in -4 .. 5
  BY <1>1, <1>3, <1>4, <1>5, <1>7, <1>8
<1> HIDE DEF sum, rounded, one
<1>10. 2 * Apart(rounded, one) <= Len(q) + 1
  BY <1>1, <1>9 DEF Apart
<1> QED
  BY <1>2, <1>9, <1>10 DEF sum, rounded, one

\* What an acceptable request is stored as.
LEMMA AmountsSound ==
  ASSUME NEW i \in Requests, Acceptable(i)
  PROVE  /\ StoredAmount(i) \in Stored(Unit) .. Stored(MaxAmount)
         /\ i.type = "Milestone" =>
              2 * Apart(Total(StoredMilestones(i)), StoredAmount(i))
                <= Len(StoredMilestones(i)) + 1
         /\ i.channel = "quick" /\ i.role = "Payee" =>
              i.account = IF i.currency = "USD" THEN "crypto_wallet" ELSE "bank_account"
<1>1. ASSUME NEW a, InLimits(a)
      PROVE  Stored(a) \in Stored(Unit) .. Stored(MaxAmount)
  <2>1. a \in Nat /\ Unit \in Nat /\ Unit <= a /\ a <= MaxAmount /\ MaxAmount \in Nat
    BY <1>1, EscrowInputAssumption DEF InLimits, Unit
  <2>2. Stored(Unit) <= Stored(a) /\ Stored(a) <= Stored(MaxAmount)
    BY <2>1, StoredMonotone
  <2>3. Stored(a) \in Nat /\ Stored(Unit) \in Nat /\ Stored(MaxAmount) \in Nat
    BY <2>1, StoredRounds
  <2> QED
    BY <2>2, <2>3
<1>2. CASE i.type = "Milestone"
  <2>1. i.channel = "api"
    BY <1>2 DEF Requests
  <2>2. InLimits(Total(i.milestones))
    BY <1>2, <2>1 DEF Acceptable, CreationValid
  <2>3. i.milestones \in Seq(Nat)
    <3>1. i.milestones \in Seq(Int) /\ \A n \in DOMAIN i.milestones : i.milestones[n] \in Nat
      BY <1>2, EscrowInputAssumption DEF Requests, Acceptable, SchemaValid, InLimits, Unit
    <3> QED
      BY <3>1
  <2>4. 2 * Apart(Total(StoredMilestones(i)), Stored(Total(i.milestones)))
          <= Len(StoredMilestones(i)) + 1
    BY <2>3, Rounding DEF StoredMilestones
  <2> QED
    BY <1>1, <1>2, <2>1, <2>2, <2>4 DEF StoredAmount
<1>3. CASE i.type # "Milestone"
  BY <1>1, <1>3 DEF Acceptable, SchemaValid, AccountValid, StoredAmount
<1> QED
  BY <1>2, <1>3

-----------------------------------------------------------------------------
(* Rows and codes.                                                          *)

BeforeRow == {"idle", "refused", "drawing", "drawn", "failed", "conflict"}

\* A request that goes beyond validation was acceptable.
Validated ==
  \A e \in Escrow : pc[e] \notin {"idle", "refused"} => Acceptable(input[e])

\* A creation that has not come to its insert has no row; one that is about to has
\* drawn just one code, and the row keeps it. Nothing expires without a row.
RowsHaveCodes ==
  \A e \in Escrow :
    /\ status[e] # "none" => pc[e] \notin BeforeRow
    /\ status[e] # "none" \/ pc[e] = "drawn" => \E c \in Code : code[e] = {c}
    /\ job[e] = "cancelling" => status[e] # "none"

CodesDiffer == \A e, f \in Rows : code[e] = code[f] => e = f

RowsInv == TypeInv /\ Validated /\ RowsHaveCodes /\ CodesDiffer

LEMMA RowsInit == Init => RowsInv
BY TypeInit DEF Init, RowsInv, Validated, RowsHaveCodes, CodesDiffer, Rows

\* What neither validates, draws nor inserts keeps requests, codes and rows.
LeavesRows ==
  /\ input' = input /\ code' = code
  /\ \A e \in Escrow :
       /\ (status'[e] = "none") <=> (status[e] = "none")
       /\ pc'[e] = pc[e] \/ /\ pc'[e] \in {"announced", "done", "died"}
                            /\ pc[e] \notin {"idle", "refused"}
       /\ job'[e] = "cancelling" => job[e] = "cancelling" \/ status[e] # "none"

LEMMA LeftRows ==
  ASSUME RowsInv, TypeInv', LeavesRows
  PROVE  RowsInv'
<1>1. Validated'
  BY DEF RowsInv, Validated, LeavesRows
<1>2. RowsHaveCodes'
  BY DEF RowsInv, RowsHaveCodes, LeavesRows, BeforeRow
<1>3. CodesDiffer'
  BY DEF RowsInv, CodesDiffer, Rows, LeavesRows
<1> QED
  BY <1>1, <1>2, <1>3 DEF RowsInv

LEMMA LifeLeavesRows ==
  ASSUME RowsInv, NEW e \in Escrow,
         Announce(e) \/ Schedule(e) \/ Joined(e) \/ Funded(e) \/ Happens(e) \/ Dispatch(e)
           \/ TimePasses(e) \/ ExpiryGoesOn(e) \/ ExpireThrows(e)
  PROVE  LeavesRows
<1> USE DEF RowsInv, TypeInv, TypeOK, LeavesRows, requestVars, escrowVars, jobVars
<1>1. CASE Announce(e)
  BY <1>1 DEF Announce, Step
<1>2. CASE Schedule(e)
  BY <1>2 DEF Schedule, Step, AddExpiry
<1>3. CASE Joined(e) \/ Happens(e) \/ Dispatch(e) \/ TimePasses(e)
  BY <1>3 DEF Joined, Happens, Commits, Dispatch, TimePasses
<1>4. CASE Funded(e)
  BY <1>4 DEF Funded, Commits
<1>5. CASE ExpireRead(e)
  BY <1>5 DEF ExpireRead, JobStep, Payable
<1>6. CASE ExpireWrite(e)
  BY <1>6 DEF ExpireWrite, JobStep, RowsHaveCodes
<1>7. CASE FindExpiryStalled(e) \/ ExpireThrows(e)
  BY <1>7 DEF FindExpiryStalled, ExpireThrows, JobStep
<1> QED
  BY <1>1, <1>2, <1>3, <1>4, <1>5, <1>6, <1>7 DEF ExpiryGoesOn

LEMMA ProcessLeavesRows ==
  ASSUME RowsInv, Crash \/ Flush \/ StartUp \/ NotificationsStep \/ UNCHANGED vars
  PROVE  LeavesRows
<1> USE DEF RowsInv, TypeInv, TypeOK, LeavesRows, requestVars, escrowVars, jobVars,
            processVars
<1>1. CASE Crash
  BY <1>1 DEF Crash
<1>2. CASE Flush
  BY <1>2 DEF Flush
<1>3. CASE Restart \/ Listen
  BY <1>3 DEF Restart, Listen
<1>4. ASSUME NEW e \in Escrow, Reschedule(e)
      PROVE  LeavesRows
  BY <1>4 DEF Reschedule, AddExpiry
<1>5. CASE NotificationsStep \/ UNCHANGED vars
  BY <1>5 DEF NotificationsStep, vars
<1> QED
  BY <1>1, <1>2, <1>3, <1>4, <1>5 DEF StartUp

\* The column is unique: the row is not there unless no other row has its code.
LEMMA InsertRows ==
  ASSUME RowsInv, TypeInv', NEW e \in Escrow, Insert(e)
  PROVE  RowsInv'
<1> USE DEF RowsInv, TypeInv, TypeOK
<1>1. /\ pc[e] = "drawn" /\ input' = input /\ code' = code /\ job' = job
      /\ status[e] = "none"
  BY DEF Insert, Step, RowsHaveCodes, BeforeRow, jobVars
<1>2. PICK c \in Code : code[e] = {c}
  BY <1>1 DEF RowsHaveCodes
<1>3. \E to \in {"conflict", "inserted", "announced"} : pc' = [pc EXCEPT ![e] = to]
  BY DEF Insert, Step, AfterInsert
<1>4. Validated'
  BY <1>1, <1>3 DEF Validated
<1>5. CASE CodeClash(e)
  <2>1. status' = status /\ pc' = [pc EXCEPT ![e] = "conflict"]
    BY <1>5 DEF Insert, Step
  <2>2. RowsHaveCodes'
    BY <1>1, <2>1 DEF RowsHaveCodes, BeforeRow
  <2>3. CodesDiffer'
    BY <1>1, <2>1 DEF CodesDiffer, Rows
  <2> QED
    BY <1>4, <2>2, <2>3
<1>6. CASE ~CodeClash(e)
  <2>1. /\ status' = [status EXCEPT ![e] = "Created"]
        /\ \E to \in {"inserted", "announced"} : pc' = [pc EXCEPT ![e] = to]
    BY <1>6 DEF Insert, Step, AfterInsert
  <2>2. RowsHaveCodes'
    BY <1>1, <1>2, <2>1 DEF RowsHaveCodes, BeforeRow
  <2>3. \A f \in Rows : code[f] # code[e]
    BY <1>2, <1>6 DEF CodeClash, Taken, Rows
  <2>4. Rows' = Rows \cup {e}
    BY <2>1 DEF Rows
  <2>5. CodesDiffer'
    BY <1>1, <2>3, <2>4 DEF CodesDiffer
  <2> QED
    BY <1>4, <2>2, <2>5
<1> QED
  BY <1>5, <1>6

LEMMA RowsNext ==
  ASSUME RowsInv, [Next]_vars
  PROVE  RowsInv'
<1>1. TypeInv'
  BY TypeNext DEF RowsInv
<1> USE DEF RowsInv, TypeInv, TypeOK
<1>2. ASSUME NEW e \in Escrow, Begin(e)
      PROVE  RowsInv'
  <2>1. /\ pc[e] = "idle"
        /\ pc' = [pc EXCEPT ![e] = IF Acceptable(input[e]) THEN "drawing" ELSE "refused"]
        /\ UNCHANGED <<input, code, status, job>>
    BY <1>2 DEF Begin, Step, escrowVars, jobVars
  <2>2. Validated' /\ RowsHaveCodes' /\ CodesDiffer'
    BY <2>1 DEF Validated, RowsHaveCodes, BeforeRow, CodesDiffer, Rows
  <2> QED
    BY <1>1, <2>2
<1>3. ASSUME NEW e \in Escrow, Draw(e)
      PROVE  RowsInv'
  <2>1. /\ pc[e] = "drawing" /\ UNCHANGED <<input, status, job>>
        /\ \/ pc' = [pc EXCEPT ![e] = "drawn"]
              /\ \E c \in Code : code' = [code EXCEPT ![e] = {c}]
           \/ code' = code /\ \E to \in {"drawing", "failed"} : pc' = [pc EXCEPT ![e] = to]
    BY <1>3 DEF Draw, Step, escrowVars, jobVars
  <2>2. status[e] = "none"
    BY <2>1 DEF RowsHaveCodes, BeforeRow
  <2>3. Validated'
    BY <2>1 DEF Validated
  <2>4. RowsHaveCodes'
    BY <2>1, <2>2 DEF RowsHaveCodes, BeforeRow
  <2>5. CodesDiffer'
    BY <2>1, <2>2 DEF CodesDiffer, Rows
  <2> QED
    BY <1>1, <2>3, <2>4, <2>5
<1> QED
  BY <1>1, <1>2, <1>3, InsertRows, LifeLeavesRows, ProcessLeavesRows, LeftRows
     DEF Next, RequestGoesOn

\* Whatever is asked for and however many creations draw, insert and die at once:
\* no two rows have one code, amounts are within the limits, milestones add up to
\* theirs but for the rounding, and the payee who made a link has an account.
THEOREM RowsSound == Spec => []RowsAreSound
<1>1. ASSUME RowsInv
      PROVE  RowsAreSound
  <2>1. \A e, f \in Rows : code[e] = code[f] => e = f
    BY <1>1 DEF RowsInv, CodesDiffer
  <2>2. \A e \in Rows : input[e] \in Requests /\ Acceptable(input[e])
    BY <1>1, CreationAssumption
       DEF RowsInv, TypeInv, TypeOK, RowsHaveCodes, BeforeRow, Validated, Rows
  <2> QED
    BY <2>1, <2>2, AmountsSound DEF RowsAreSound
<1> QED
  BY <1>1, RowsInit, RowsNext, PTL DEF Spec

-----------------------------------------------------------------------------
(* Expiry.                                                                  *)

\* Who will cancel an escrow that is not paid for: its job, the process that is down
\* or looks for such escrows as it starts, or the request that is to add the job.
\* What is past its date without any of them is noted in overdue, and a job that
\* failed cancels nothing.
ExpiryArranged ==
  \A e \in Escrow : status[e] = "Created" /\ input[e].days # 0 =>
    \/ job[e] \in {"delayed", "cancelling", "stalled"}
    \/ job[e] = "failed"
    \/ process = "down"
    \/ process = "starting" /\ e \in todo
    \/ pc[e] \in {"inserted", "announced"}
    \/ e \in overdue

\* Jobs, start-up and a request that is past its insert are about escrows that are
\* there; a job that has run has cancelled its escrow or found it settled.
JobsHaveRows ==
  \A e \in Escrow : /\ job[e] # "absent" \/ e \in todo => status[e] # "none"
                    /\ pc[e] \in {"inserted", "announced"} => status[e] # "none"
                    /\ job[e] = "over" => status[e] # "Created"

ArrangedInv == ExpiryArranged /\ JobsHaveRows

LEMMA ArrangedInit == Init => ArrangedInv
BY DEF Init, ArrangedInv, ExpiryArranged, JobsHaveRows

\* What leaves the escrows, their jobs and the process alone.
LEMMA ArrangedKept ==
  ASSUME ArrangedInv, UNCHANGED <<input, status, job, process, todo, overdue>>,
         \A e \in Escrow :
           pc'[e] \in {"inserted", "announced"} <=> pc[e] \in {"inserted", "announced"}
  PROVE  ArrangedInv'
BY DEF ArrangedInv, ExpiryArranged, JobsHaveRows

LEMMA ArrangedRequests ==
  ASSUME RowsInv, ArrangedInv, NEW e \in Escrow, Begin(e) \/ RequestGoesOn(e)
  PROVE  ArrangedInv'
<1> USE DEF RowsInv, TypeInv, TypeOK, JobStates
<1>1. CASE Begin(e) \/ Draw(e)
  <2>1. UNCHANGED <<input, status, job, process, todo, overdue>>
    BY <1>1 DEF Begin, Draw, escrowVars, jobVars, processVars
  <2>2. /\ pc[e] \in {"idle", "drawing"} /\ pc'[e] \notin {"inserted", "announced"}
        /\ \A f \in Escrow : f # e => pc'[f] = pc[f]
    BY <1>1 DEF Begin, Draw, Step
  <2> QED
    BY <2>1, <2>2, ArrangedKept
<1>2. CASE Announce(e)
  <2>1. UNCHANGED <<input, status, job, process, todo, overdue>>
    BY <1>2 DEF Announce, escrowVars, jobVars, processVars
  <2>2. /\ pc[e] = "inserted" /\ pc'[e] = "announced"
        /\ \A f \in Escrow : f # e => pc'[f] = pc[f]
    BY <1>2 DEF Announce, Step
  <2> QED
    BY <2>1, <2>2, ArrangedKept
<1>3. CASE Insert(e)
  <2>1. UNCHANGED <<input, job, process, todo, overdue>> /\ pc[e] = "drawn"
    BY <1>3 DEF Insert, Step, jobVars, processVars
  <2>2. CASE status' = status /\ pc' = [pc EXCEPT ![e] = "conflict"]
    BY <2>1, <2>2, ArrangedKept
  <2>3. CASE /\ status' = [status EXCEPT ![e] = "Created"]
             /\ \E to \in {"inserted", "announced"} : pc' = [pc EXCEPT ![e] = to]
    <3>1. status[e] = "none" /\ job[e] = "absent"
      BY <2>1 DEF RowsHaveCodes, BeforeRow, ArrangedInv, JobsHaveRows
    <3> QED
      BY <2>1, <2>3, <3>1 DEF ArrangedInv, ExpiryArranged, JobsHaveRows
  <2> QED
    BY <1>3, <2>2, <2>3 DEF Insert, Step, AfterInsert
<1>4. CASE Schedule(e)
  <2>1. /\ UNCHANGED <<input, status, process, todo>>
        /\ \A f \in Escrow : f # e => pc'[f] = pc[f] /\ job'[f] = job[f]
        /\ overdue \subseteq overdue'
    BY <1>4 DEF Schedule, Step, AddExpiry, escrowVars
  <2>2. /\ pc[e] = "announced"
        /\ pc'[e] = "done"
        /\ job'[e] = job[e] \/ (job[e] = "absent" /\ job'[e] = "delayed")
        /\ input[e].days # 0 => job'[e] # "absent" \/ e \in overdue'
    BY <1>4 DEF Schedule, Step, AddExpiry
  <2>3. status[e] # "none"
    BY <2>2 DEF ArrangedInv, JobsHaveRows
  <2> QED
    BY <2>1, <2>2, <2>3 DEF ArrangedInv, ExpiryArranged, JobsHaveRows
<1> QED
  BY <1>1, <1>2, <1>3, <1>4 DEF RequestGoesOn

LEMMA ArrangedLife ==
  ASSUME RowsInv, ArrangedInv, NEW e \in Escrow,
         \/ Joined(e) \/ Funded(e) \/ Happens(e) \/ Dispatch(e)
         \/ TimePasses(e) \/ ExpiryGoesOn(e) \/ ExpireThrows(e)
  PROVE  ArrangedInv'
<1> USE DEF RowsInv, TypeInv, TypeOK
<1>1. CASE Joined(e) \/ Happens(e) \/ Dispatch(e) \/ TimePasses(e)
  <2>1. UNCHANGED <<input, pc, status, job, process, todo, overdue>>
    BY <1>1
       DEF Joined, Happens, Commits, Dispatch, TimePasses, requestVars, escrowVars, jobVars,
           processVars
  <2> QED
    BY <2>1, ArrangedKept
<1>2. CASE Funded(e)
  <2>1. /\ UNCHANGED <<input, pc, job, process, todo, overdue>>
        /\ status' = [status EXCEPT ![e] = "Held"]
    BY <1>2 DEF Funded, Commits, requestVars, jobVars, processVars
  <2> QED
    BY <2>1 DEF ArrangedInv, ExpiryArranged, JobsHaveRows
<1>3. CASE ExpireRead(e)
  <2>1. /\ UNCHANGED <<input, pc, status, process, todo, overdue>>
        /\ \A f \in Escrow : f # e => job'[f] = job[f]
        /\ job[e] = "delayed" /\ job'[e] \in {"cancelling", "over"}
        /\ status[e] = "Created" => job'[e] = "cancelling"
    BY <1>3 DEF ExpireRead, JobStep, Payable, requestVars, processVars
  <2> QED
    BY <2>1 DEF ArrangedInv, ExpiryArranged, JobsHaveRows
<1>4. CASE ExpireWrite(e)
  <2>1. /\ UNCHANGED <<input, pc, process, todo, overdue>>
        /\ status' = [status EXCEPT ![e] = "Cancelled"]
        /\ job' = [job EXCEPT ![e] = "over"]
    BY <1>4 DEF ExpireWrite, JobStep, requestVars, processVars
  <2> QED
    BY <2>1 DEF ArrangedInv, ExpiryArranged, JobsHaveRows
<1>5. CASE FindExpiryStalled(e) \/ ExpireThrows(e)
  <2>1. /\ UNCHANGED <<input, pc, status, process, todo, overdue>>
        /\ \A f \in Escrow : f # e => job'[f] = job[f]
        /\ job[e] # "absent" /\ job'[e] \in {"delayed", "failed"}
    BY <1>5 DEF FindExpiryStalled, ExpireThrows, JobStep, requestVars, processVars
  <2> QED
    BY <2>1 DEF ArrangedInv, ExpiryArranged, JobsHaveRows
<1> QED
  BY <1>1, <1>2, <1>3, <1>4, <1>5 DEF ExpiryGoesOn

LEMMA ArrangedProcess ==
  ASSUME RowsInv, ArrangedInv,
         Crash \/ Flush \/ StartUp \/ NotificationsStep \/ UNCHANGED vars
  PROVE  ArrangedInv'
<1> USE DEF RowsInv, TypeInv, TypeOK, jobVars, JobStates
<1>1. CASE Crash
  <2>1. /\ UNCHANGED <<input, status>> /\ process' = "down" /\ todo' = {}
        /\ \A e \in Escrow : pc'[e] \in {pc[e], "died"}
        /\ \A e \in Escrow : job'[e] = job[e] \/ (job[e] = "cancelling" /\ job'[e] = "stalled")
    BY <1>1 DEF Crash
  <2> QED
    BY <2>1 DEF ArrangedInv, ExpiryArranged, JobsHaveRows
<1>2. CASE Flush
  <2>1. /\ UNCHANGED <<input, pc, status, process, todo>> /\ process = "down"
        /\ \A e \in Escrow : job'[e] = "absent"
    BY <1>2 DEF Flush, requestVars, escrowVars, processVars
  <2> QED
    BY <2>1 DEF ArrangedInv, ExpiryArranged, JobsHaveRows
<1>3. CASE Restart
  <2>1. /\ UNCHANGED <<input, pc, status, job>> /\ process' = "starting"
        /\ overdue \subseteq overdue' /\ \A e \in todo' : status[e] # "none"
        /\ \A e \in Escrow : status[e] = "Created" /\ input[e].days # 0 =>
             e \in todo' \/ e \in overdue' \/ job[e] # "absent"
    BY <1>3 DEF Restart, Expiring, Payable, requestVars, escrowVars
  <2> QED
    BY <2>1 DEF ArrangedInv, ExpiryArranged, JobsHaveRows
<1>4. ASSUME NEW e \in Escrow, Reschedule(e)
      PROVE  ArrangedInv'
  <2>1. /\ UNCHANGED <<input, pc, status, process>> /\ overdue \subseteq overdue'
        /\ \A f \in Escrow : f # e => job'[f] = job[f] /\ (f \in todo' <=> f \in todo)
    BY <1>4 DEF Reschedule, AddExpiry, requestVars, escrowVars
  <2>2. /\ job'[e] = job[e] \/ (job[e] = "absent" /\ job'[e] = "delayed")
        /\ job'[e] # "absent" \/ e \in overdue'
    BY <1>4 DEF Reschedule, Reschedulable, AddExpiry
  <2>3. status[e] # "none" /\ todo' \subseteq todo
    BY <1>4 DEF Reschedule, ArrangedInv, JobsHaveRows
  <2> QED
    BY <2>1, <2>2, <2>3 DEF ArrangedInv, ExpiryArranged, JobsHaveRows
<1>5. CASE Listen
  <2>1. UNCHANGED <<input, pc, status, job, todo, overdue>> /\ process = "starting" /\ todo = {}
    BY <1>5 DEF Listen, requestVars, escrowVars
  <2> QED
    BY <2>1 DEF ArrangedInv, ExpiryArranged, JobsHaveRows
<1>6. CASE NotificationsStep \/ UNCHANGED vars
  BY <1>6, ArrangedKept DEF NotificationsStep, vars, requestVars, escrowVars, processVars
<1> QED
  BY <1>1, <1>2, <1>3, <1>4, <1>5, <1>6 DEF StartUp

LEMMA ArrangedNext ==
  ASSUME RowsInv, ArrangedInv, [Next]_vars
  PROVE  ArrangedInv'
BY ArrangedRequests, ArrangedLife, ArrangedProcess DEF Next

\* An escrow that can expire is never forgotten, through any crashes and a cleared
\* Redis, unless it was past its date when the process came up or the job was to be
\* added, or its job failed, having thrown or stalled twice: a state from which
\* ExpiredIsCancelled could not come true any more is not reached.
THEOREM ExpiryIsArranged == Spec => []ExpiryArranged
<1>1. Init => RowsInv /\ ArrangedInv
  BY RowsInit, ArrangedInit
<1>2. RowsInv /\ ArrangedInv /\ [Next]_vars => (RowsInv /\ ArrangedInv)'
  BY RowsNext, ArrangedNext
<1>3. RowsInv /\ ArrangedInv => ExpiryArranged
  BY DEF ArrangedInv
<1> QED
  BY <1>1, <1>2, <1>3, PTL DEF Spec

-----------------------------------------------------------------------------
(* Mails.                                                                   *)

\* The notices that were begun, and those that are there at all.
Begun == {r.job : r \in active} \cup stalled
Pending == ToSet(waiting) \cup Begun

\* A notice is in one place.
OnePlace ==
  /\ \A i, j \in DOMAIN waiting : waiting[i] = waiting[j] => i = j
  /\ \A i \in DOMAIN waiting : waiting[i] \notin Begun
  /\ \A r \in active : r.job \notin stalled

\* An escrow's notices differ, and nothing is handled that was not queued.
Queued ==
  /\ \A e \in Escrow : \A p, q \in DOMAIN queued[e] : queued[e][p] = queued[e][q] => p = q
  /\ \A n \in Pending \cup again : n.kind \in ToSet(queued[n.of])
  /\ \A e \in Escrow : \A j \in DOMAIN mail[e] : mail[e][j].kind \in ToSet(queued[e])

\* Notice m was queued after notice n.
Before(n, m) == n.of = m.of /\ QueuedAfter(n.of, n.kind, m.kind)

\* A notice that has not been found stalled waits behind none that was queued after it,
\* and none that was has been begun.
InQueueOrder ==
  /\ \A i, j \in DOMAIN waiting :
       i < j /\ waiting[j] \notin again => ~Before(waiting[j], waiting[i])
  /\ \A n \in Begun : \A i \in DOMAIN waiting :
       waiting[i] \notin again => ~Before(waiting[i], n)

\* What is still to be mailed has not been overtaken by mails.
MailedBefore ==
  \A n \in (ToSet(waiting) \cup {r.job : r \in active}) \ again : \A j \in DOMAIN mail[n.of] :
    ~QueuedAfter(n.of, n.kind, mail[n.of][j].kind)

Sorted ==
  \A e \in Escrow : \A j \in DOMAIN mail[e] : \A i \in 1 .. j :
    QueuedAfter(e, mail[e][j].kind, mail[e][i].kind) =>
      [of |-> e, kind |-> mail[e][j].kind] \in again

BothHear == {"escrow.funded", "escrow.disputed"}

ToWrite == \A r \in active : \E who \in SUBSET Roles : r.todo = Contacts(who)

\* When only the payee is left to write to, the payer has been written to.
PayerFirst ==
  /\ \A r \in active : r.job.kind \in BothHear /\ r.todo = <<"Payee">> =>
       \E i \in DOMAIN mail[r.job.of] :
         mail[r.job.of][i] = [kind |-> r.job.kind, to |-> "Payer"]
  /\ \A e \in Escrow : \A j \in DOMAIN mail[e] :
       mail[e][j].kind \in BothHear /\ mail[e][j].to = "Payee" =>
         \E i \in 1 .. j : mail[e][i] = [kind |-> mail[e][j].kind, to |-> "Payer"]

Times(n, to) == Cardinality(Told(n.of, [kind |-> n.kind, to |-> to]))

\* Who is still to be written to because of a notice.
Owed(n, to) ==
  n \in ToSet(waiting) \/ \E r \in active : r.job = n /\ to \in ToSet(r.todo)

\* Who is still to be written to has not been, or once if the notice has stalled.
NotTwice ==
  \A n \in Notices, to \in Roles :
    Times(n, to) <= (IF n \in again THEN 1 ELSE 0) + (IF Owed(n, to) THEN 0 ELSE 1)

QueueInv ==
  /\ OnePlace /\ Queued /\ InQueueOrder /\ MailedBefore /\ Sorted
  /\ ToWrite /\ PayerFirst /\ NotTwice

\* Where an event stands in an escrow's life.
Stage ==
  [kind \in EventKinds |->
     CASE kind = "escrow.created" -> 0
       [] kind = "escrow.funded" -> 1
       [] kind = "milestone.submitted" -> 2
       [] kind = "milestone.approved" -> 3
       [] kind = "escrow.disputed" -> 4
       [] kind = "escrow.released" -> 5]

Mute == BeforeRow \cup {"inserted"}

\* No event is dispatched twice, or before it is committed; and who is funded has a
\* payer.
Dispatched ==
  \A e \in Escrow :
    /\ pc[e] \in Mute => "escrow.created" \notin ToSet(queued[e])
    /\ "escrow.created" \notin unsaid[e]
    /\ \A kind \in ToSet(queued[e]) \cup unsaid[e] : Stage[kind] <= Stage[last[e]]
    /\ \A kind \in unsaid[e] : kind \notin ToSet(queued[e])
    /\ status[e] \in {"none", "Created"} => last[e] = "escrow.created"
    /\ last[e] # "escrow.created" => "Payer" \in people[e]

MailInv == RowsInv /\ QueueInv /\ Dispatched

LEMMA Stages ==
  /\ \A kind \in EventKinds : Stage[kind] \in Nat
  /\ Stage["escrow.created"] = 0
  /\ \A kind \in EventKinds : Stage[kind] = 0 => kind = "escrow.created"
BY DEF Stage, EventKinds

LEMMA WorkerTypes ==
  ASSUME TypeInv
  PROVE  /\ waiting \in Seq(Notices) /\ DOMAIN waiting = 1 .. Len(waiting)
         /\ Len(waiting) \in Nat /\ \A i \in DOMAIN waiting : waiting[i] \in Notices
         /\ \A r \in active : r \in [job : Notices, todo : Seq(Roles)]
         /\ again \subseteq Notices /\ stalled \subseteq Notices /\ Pending \subseteq Notices
         /\ \A n \in Notices : n.of \in Escrow /\ n.kind \in EventKinds
                               /\ n = [of |-> n.of, kind |-> n.kind]
         /\ last \in [Escrow -> EventKinds] /\ people \in [Escrow -> SUBSET Roles]
         /\ mail \in [Escrow -> Seq([kind : EventKinds, to : Roles])]
         /\ queued \in [Escrow -> Seq(EventKinds)]
<1>1. NotificationsTypeOK
  BY DEF TypeInv, TypeOK
<1>2. \A i \in DOMAIN waiting : waiting[i] \in Notices
  BY <1>1 DEF NotificationsTypeOK
<1>3. \A r \in active : r \in [job : Notices, todo : Seq(Roles)]
  BY <1>1 DEF NotificationsTypeOK
<1>4. Pending \subseteq Notices
  BY <1>1, <1>2, <1>3 DEF Pending, Begun, ToSet, NotificationsTypeOK
<1>5. \A n \in Notices : /\ n.of \in Escrow /\ n.kind \in EventKinds
                        /\ n = [of |-> n.of, kind |-> n.kind]
  BY DEF Notices
<1>6. waiting \in Seq(Notices) /\ DOMAIN waiting = 1 .. Len(waiting) /\ Len(waiting) \in Nat
  BY <1>1 DEF NotificationsTypeOK
<1>7. /\ again \subseteq Notices /\ stalled \subseteq Notices
      /\ queued \in [Escrow -> Seq(EventKinds)] /\ people \in [Escrow -> SUBSET Roles]
      /\ mail \in [Escrow -> Seq([kind : EventKinds, to : Roles])]
  BY <1>1 DEF NotificationsTypeOK
<1>8. last \in [Escrow -> EventKinds]
  BY DEF TypeInv, TypeOK
<1> QED
  BY <1>2, <1>3, <1>4, <1>5, <1>6, <1>7, <1>8

LEMMA MailTypes ==
  ASSUME TypeInv, NEW e \in Escrow
  PROVE  /\ DOMAIN mail[e] = 1 .. Len(mail[e]) /\ Len(mail[e]) \in Nat
         /\ \A j \in DOMAIN mail[e] :
              /\ mail[e][j].kind \in EventKinds /\ mail[e][j].to \in Roles
              /\ mail[e][j] = [kind |-> mail[e][j].kind, to |-> mail[e][j].to]
         /\ \A m : IsFiniteSet(Told(e, m)) /\ Cardinality(Told(e, m)) \in Nat
<1>1. mail[e] \in Seq([kind : EventKinds, to : Roles])
  BY WorkerTypes
<1>2. DOMAIN mail[e] = 1 .. Len(mail[e]) /\ Len(mail[e]) \in Nat
  BY <1>1
<1>3. ASSUME NEW m
      PROVE  IsFiniteSet(Told(e, m)) /\ Cardinality(Told(e, m)) \in Nat
  <2>1. Told(e, m) \subseteq 1 .. Len(mail[e]) /\ IsFiniteSet(1 .. Len(mail[e]))
    BY <1>2, FS_Interval DEF Told
  <2> QED
    BY <2>1, FS_Subset, FS_CardinalityType
<1>4. \A m \in [kind : EventKinds, to : Roles] :
        m.kind \in EventKinds /\ m.to \in Roles /\ m = [kind |-> m.kind, to |-> m.to]
  OBVIOUS
<1>5. \A j \in DOMAIN mail[e] : mail[e][j] \in [kind : EventKinds, to : Roles]
  BY <1>1, <1>2, ElementOfSeq
<1> QED
  BY <1>2, <1>3, <1>4, <1>5

LEMMA TimesKept ==
  ASSUME TypeInv, mail' = mail
  PROVE  \A n \in Notices, to \in Roles :
           Times(n, to)' = Times(n, to) /\ Times(n, to) \in Nat
<1>1. \A n, to : Times(n, to)' = Times(n, to)
  BY DEF Times, Told
<1>2. \A n \in Notices, to \in Roles : Times(n, to) \in Nat
  BY MailTypes, WorkerTypes DEF Times
<1> QED
  BY <1>1, <1>2

LEMMA MailInit == Init => MailInv
<1> SUFFICES ASSUME Init PROVE MailInv
  OBVIOUS
<1>1. /\ waiting = <<>> /\ active = {} /\ stalled = {} /\ again = {}
      /\ queued = [e \in Escrow |-> <<>>] /\ mail = [e \in Escrow |-> <<>>]
      /\ last = [e \in Escrow |-> "escrow.created"] /\ unsaid = [e \in Escrow |-> {}]
  BY DEF Init, NotificationsInit
<1>2. Pending = {} /\ Begun = {} /\ DOMAIN waiting = {} /\ \A n, to : ~Owed(n, to)
  BY <1>1 DEF Pending, Begun, Owed, ToSet
<1>3. RowsInv
  BY RowsInit
<1>4. \A n \in Notices, to \in Roles : Times(n, to) = 0
  <2>1. \A e \in Escrow : \A m : Told(e, m) = {}
    BY <1>1 DEF Told
  <2> QED
    BY <2>1, FS_EmptySet DEF Times, Notices
<1>5. \A e \in Escrow : DOMAIN queued[e] = {} /\ DOMAIN mail[e] = {} /\ ToSet(queued[e]) = {}
  BY <1>1 DEF ToSet
<1>6. OnePlace /\ Queued /\ InQueueOrder /\ ToWrite
  BY <1>1, <1>2, <1>5 DEF OnePlace, Queued, InQueueOrder, ToWrite
<1>7. MailedBefore /\ Sorted /\ PayerFirst
  <2>1. ToSet(waiting) = {}
    BY <1>2 DEF Pending
  <2> QED
    BY <1>1, <1>5, <2>1 DEF MailedBefore, Sorted, PayerFirst
<1>8. NotTwice
  BY <1>1, <1>2, <1>4 DEF NotTwice
<1>9. Dispatched
  BY <1>1, <1>5 DEF Dispatched
<1> QED
  BY <1>3, <1>6, <1>7, <1>8, <1>9 DEF MailInv, QueueInv

\* A notice of a new kind is queued after all that were.
LEMMA NewOrder ==
  ASSUME TypeInv, NEW e \in Escrow, NEW kind \in EventKinds, Notify(e, kind),
         kind \notin ToSet(queued[e])
  PROVE  /\ ToSet(queued'[e]) = ToSet(queued[e]) \cup {kind}
         /\ \A f \in Escrow : f # e => queued'[f] = queued[f]
         /\ \A f \in Escrow : \A k, l :
              l \in ToSet(queued[f]) /\ QueuedAfter(f, k, l)' => QueuedAfter(f, k, l)
         /\ \A l : ~QueuedAfter(e, kind, l)'
         /\ (\A p, q \in DOMAIN queued[e] : queued[e][p] = queued[e][q] => p = q) =>
              \A p, q \in DOMAIN queued'[e] : queued'[e][p] = queued'[e][q] => p = q
<1> DEFINE L == Len(queued[e])
<1>1. queued \in [Escrow -> Seq(EventKinds)] /\ queued' = [queued EXCEPT ![e] = Append(@, kind)]
  BY WorkerTypes DEF Notify
<1>2. /\ queued[e] \in Seq(EventKinds) /\ queued'[e] = Append(queued[e], kind)
      /\ \A f \in Escrow : f # e => queued'[f] = queued[f]
  BY <1>1
<1>3. /\ L \in Nat /\ DOMAIN queued[e] = 1 .. L /\ DOMAIN queued'[e] = 1 .. (L + 1)
      /\ queued'[e][L + 1] = kind /\ \A i \in 1 .. L : queued'[e][i] = queued[e][i]
  BY <1>2, AppendProperties
<1>4. \A i \in 1 .. L : queued[e][i] # kind
  BY <1>3 DEF ToSet
<1> HIDE DEF L
<1>5. ToSet(queued'[e]) = ToSet(queued[e]) \cup {kind}
  <2>1. ToSet(queued'[e]) \subseteq ToSet(queued[e]) \cup {kind}
    BY <1>3 DEF ToSet
  <2>2. ToSet(queued[e]) \cup {kind} \subseteq ToSet(queued'[e])
    <3>1. L + 1 \in 1 .. (L + 1) /\ \A i \in 1 .. L : i \in 1 .. (L + 1)
      BY <1>3
    <3> QED
      BY <1>3, <3>1 DEF ToSet
  <2> QED
    BY <2>1, <2>2
<1>6. ASSUME NEW k, NEW l, QueuedAfter(e, k, l)'
      PROVE  k # kind /\ (l \in ToSet(queued[e]) => QueuedAfter(e, k, l))
  <2>1. PICK p \in 1 .. (L + 1), q \in 1 .. (L + 1) :
          p < q /\ queued'[e][p] = k /\ queued'[e][q] = l
    BY <1>3, <1>6 DEF QueuedAfter
  <2>2. p \in 1 .. L
    BY <1>3, <2>1
  <2>3. k # kind
    BY <1>3, <1>4, <2>1, <2>2
  <2>4. l \in ToSet(queued[e]) => q \in 1 .. L
    BY <1>3, <2>1
  <2> QED
    BY <1>3, <2>1, <2>2, <2>3, <2>4 DEF QueuedAfter
<1>7. ASSUME NEW f \in Escrow, f # e, NEW k, NEW l, QueuedAfter(f, k, l)'
      PROVE  QueuedAfter(f, k, l)
  BY <1>2, <1>7 DEF QueuedAfter
<1>8. ASSUME \A p, q \in DOMAIN queued[e] : queued[e][p] = queued[e][q] => p = q,
             NEW p \in 1 .. (L + 1), NEW q \in 1 .. (L + 1), queued'[e][p] = queued'[e][q]
      PROVE  p = q
  <2>1. (p \in 1 .. L \/ p = L + 1) /\ (q \in 1 .. L \/ q = L + 1)
    BY <1>3
  <2> QED
    BY <1>3, <1>4, <1>8, <2>1
<1> QED
  BY <1>2, <1>3, <1>5, <1>6, <1>7, <1>8

\* A notice of a new kind goes to the end of the queue.
LEMMA NotifyQueue ==
  ASSUME TypeInv, QueueInv, NEW e \in Escrow, NEW kind \in EventKinds, Notify(e, kind),
         kind \notin ToSet(queued[e])
  PROVE  QueueInv'
<1> DEFINE new == [of |-> e, kind |-> kind]
           L == Len(waiting)
<1>1. new \in Notices /\ new.of = e /\ new.kind = kind
  BY DEF Notices
<1>2. /\ DOMAIN waiting' = 1 .. (L + 1) /\ waiting'[L + 1] = new
      /\ \A i \in 1 .. L : waiting'[i] = waiting[i]
      /\ L \in Nat /\ DOMAIN waiting = 1 .. L
  <2>1. waiting \in Seq(Notices) /\ waiting' = Append(waiting, new)
    BY WorkerTypes DEF Notify
  <2> QED
    BY <1>1, <2>1, AppendProperties
<1>3. UNCHANGED <<people, active, stalled, again, mail>>
  BY DEF Notify
<1>4. Begun' = Begun
  BY <1>3 DEF Begun
<1>5. ToSet(waiting') = ToSet(waiting) \cup {new} /\ \A i \in 1 .. L : waiting[i] \in ToSet(waiting)
  BY <1>2 DEF ToSet
<1>6. Pending' = Pending \cup {new} /\ ToSet(waiting) \subseteq Pending /\ Begun \subseteq Pending
  BY <1>4, <1>5 DEF Pending
<1>7. /\ \A n \in Pending \cup again : n.of \in Escrow /\ n.kind \in ToSet(queued[n.of])
      /\ \A f \in Escrow : \A j \in DOMAIN mail[f] : mail[f][j].kind \in ToSet(queued[f])
  BY WorkerTypes DEF QueueInv, Queued
<1>8. new \notin Pending \cup again
  BY <1>1, <1>7
<1> DEFINE Later(f, k, l) == \E p, q \in DOMAIN queued'[f] :
                               p < q /\ queued'[f][p] = k /\ queued'[f][q] = l
           Behind(n, m) == n.of = m.of /\ Later(n.of, n.kind, m.kind)
<1>9. \A f \in Escrow : \A k, l :
        l \in ToSet(queued[f]) /\ Later(f, k, l) => QueuedAfter(f, k, l)
  BY NewOrder DEF QueuedAfter
<1>10. \A l : ~Later(e, kind, l)
  BY NewOrder DEF QueuedAfter
<1> HIDE DEF Later
<1> HIDE DEF new
<1>11. OnePlace'
  <2>1. ASSUME NEW i \in 1 .. (L + 1), NEW j \in 1 .. (L + 1), waiting'[i] = waiting'[j]
        PROVE  i = j
    <3>1. (i \in 1 .. L \/ i = L + 1) /\ (j \in 1 .. L \/ j = L + 1)
      BY <1>2
    <3>2. \A x \in 1 .. L : waiting[x] # new
      BY <1>5, <1>6, <1>8
    <3> QED
      BY <1>2, <2>1, <3>1, <3>2 DEF QueueInv, OnePlace
  <2>2. ASSUME NEW i \in 1 .. (L + 1)
        PROVE  waiting'[i] \notin Begun
    <3>1. i \in 1 .. L \/ i = L + 1
      BY <1>2
    <3> QED
      BY <1>2, <1>6, <1>8, <3>1 DEF QueueInv, OnePlace
  <2> QED
    BY <1>2, <1>3, <1>4, <2>1, <2>2 DEF QueueInv, OnePlace
<1>12. Queued'
  <2>1. /\ ToSet(queued'[e]) = ToSet(queued[e]) \cup {kind}
        /\ \A f \in Escrow : f # e => queued'[f] = queued[f]
        /\ \A p, q \in DOMAIN queued'[e] : queued'[e][p] = queued'[e][q] => p = q
    BY NewOrder DEF QueueInv, Queued
  <2>2. \A f \in Escrow : ToSet(queued[f]) \subseteq ToSet(queued'[f])
    <3> TAKE f \in Escrow
    <3> QED
      BY <2>1
  <2>3. \A f \in Escrow : \A p, q \in DOMAIN queued'[f] : queued'[f][p] = queued'[f][q] => p = q
    BY <2>1 DEF QueueInv, Queued
  <2>4. \A n \in Pending' \cup again' : n.kind \in ToSet(queued'[n.of])
    BY <1>1, <1>3, <1>6, <1>7, <2>1, <2>2
  <2>5. \A f \in Escrow : \A j \in DOMAIN mail'[f] : mail'[f][j].kind \in ToSet(queued'[f])
    BY <1>3, <1>7, <2>2
  <2> QED
    BY <2>3, <2>4, <2>5 DEF Queued
<1>13. \A n, m : m \in Pending /\ Behind(n, m) => Before(n, m)
  BY <1>7, <1>9 DEF Before
<1>14. \A m : ~Behind(new, m)
  BY <1>1, <1>10
<1> HIDE DEF Behind
<1>15. InQueueOrder'
  <2>1. ASSUME NEW i \in 1 .. (L + 1), NEW j \in 1 .. (L + 1), i < j, waiting'[j] \notin again
        PROVE  ~Behind(waiting'[j], waiting'[i])
    <3>1. i \in 1 .. L /\ (j \in 1 .. L \/ j = L + 1)
      BY <1>2, <2>1
    <3>2. CASE j \in 1 .. L
      <4>1. ~Before(waiting[j], waiting[i]) /\ waiting[i] \in Pending
        BY <1>2, <1>5, <1>6, <2>1, <3>1, <3>2 DEF QueueInv, InQueueOrder
      <4> QED
        BY <1>2, <1>13, <3>1, <3>2, <4>1
    <3>3. CASE j = L + 1
      BY <1>2, <1>14, <3>3
    <3> QED
      BY <3>1, <3>2, <3>3
  <2>2. ASSUME NEW n \in Begun, NEW i \in 1 .. (L + 1), waiting'[i] \notin again
        PROVE  ~Behind(waiting'[i], n)
    <3>1. CASE i \in 1 .. L
      <4>1. ~Before(waiting[i], n) /\ n \in Pending
        BY <1>2, <1>6, <2>2, <3>1 DEF QueueInv, InQueueOrder
      <4> QED
        BY <1>2, <1>13, <3>1, <4>1
    <3>2. CASE i = L + 1
      BY <1>2, <1>14, <3>2
    <3> QED
      BY <1>2, <3>1, <3>2
  <2> QED
    BY <1>2, <1>3, <1>4, <2>1, <2>2 DEF InQueueOrder, Before, QueuedAfter, Behind, Later
<1>16. MailedBefore'
  <2>1. ASSUME NEW n \in (ToSet(waiting) \cup {r.job : r \in active}) \ again,
               NEW j \in DOMAIN mail[n.of]
        PROVE  ~Later(n.of, n.kind, mail[n.of][j].kind)
    <3>1. n \in Pending /\ ~QueuedAfter(n.of, n.kind, mail[n.of][j].kind)
      BY DEF QueueInv, MailedBefore, Pending, Begun
    <3>2. n.of \in Escrow /\ mail[n.of][j].kind \in ToSet(queued[n.of])
      BY <1>7, <3>1
    <3> QED
      BY <1>3, <1>9, <3>1, <3>2
  <2>2. \A j \in DOMAIN mail[e] : ~Later(new.of, new.kind, mail[e][j].kind)
    BY <1>1, <1>10
  <2> QED
    BY <1>1, <1>3, <1>5, <2>1, <2>2 DEF MailedBefore, QueuedAfter, Later
<1>17. Sorted'
  <2>1. ASSUME NEW f \in Escrow, NEW j \in DOMAIN mail[f], NEW i \in 1 .. j,
               Later(f, mail[f][j].kind, mail[f][i].kind)
        PROVE  [of |-> f, kind |-> mail[f][j].kind] \in again
    <3>1. i \in DOMAIN mail[f]
      <4>1. DOMAIN mail[f] = 1 .. Len(mail[f]) /\ Len(mail[f]) \in Nat
        BY MailTypes
      <4> QED
        BY <4>1
    <3>2. QueuedAfter(f, mail[f][j].kind, mail[f][i].kind)
      BY <1>3, <1>7, <1>9, <2>1, <3>1
    <3> QED
      BY <3>2 DEF QueueInv, Sorted
  <2> QED
    BY <1>3, <2>1 DEF Sorted, QueuedAfter, Later
<1>18. ToWrite' /\ PayerFirst'
  BY <1>3 DEF QueueInv, ToWrite, PayerFirst
<1>19. NotTwice'
  <2>1. \A to \in Roles : Times(new, to) = 0
    <3> TAKE to \in Roles
    <3>1. Told(new.of, [kind |-> new.kind, to |-> to]) = {}
      <4>1. \A j \in DOMAIN mail[e] : mail[e][j].kind # kind
        BY <1>7
      <4>2. \A j \in DOMAIN mail[e] : mail[e][j] # [kind |-> kind, to |-> to]
        BY <4>1
      <4> QED
        BY <1>1, <4>2 DEF Told
    <3> QED
      BY <3>1, FS_EmptySet DEF Times
  <2>2. \A n, to : Owed(n, to)' => Owed(n, to) \/ n = new
    BY <1>3, <1>5 DEF Owed
  <2>3. ASSUME NEW n \in Notices, NEW to \in Roles
        PROVE  Times(n, to)' <= (IF n \in again' THEN 1 ELSE 0) + (IF Owed(n, to)' THEN 0 ELSE 1)
    <3>1. Times(n, to)' = Times(n, to) /\ Times(n, to) \in Nat /\ again' = again
      BY <1>3, TimesKept
    <3>2. Times(n, to) <= (IF n \in again THEN 1 ELSE 0) + (IF Owed(n, to) THEN 0 ELSE 1)
      BY DEF QueueInv, NotTwice
    <3>3. CASE n = new
      BY <2>1, <3>1, <3>3
    <3>4. CASE n # new
      BY <2>2, <3>1, <3>2, <3>4
    <3> QED
      BY <3>3, <3>4
  <2> QED
    BY <2>3 DEF NotTwice
<1> QED
  BY <1>11, <1>12, <1>15, <1>16, <1>17, <1>18, <1>19 DEF QueueInv

LEMMA QueueKept ==
  ASSUME QueueInv, UNCHANGED workerVars
  PROVE  QueueInv'
<1> USE DEF workerVars, QueueInv
<1>1. Begun' = Begun /\ Pending' = Pending
  BY DEF Begun, Pending
<1>2. OnePlace' /\ Queued'
  BY <1>1 DEF OnePlace, Queued
<1>3. InQueueOrder' /\ MailedBefore' /\ Sorted'
  BY <1>1 DEF InQueueOrder, MailedBefore, Sorted, Before, QueuedAfter
<1>4. ToWrite' /\ PayerFirst' /\ NotTwice'
  BY DEF ToWrite, PayerFirst, NotTwice, Owed, Times, Told
<1> QED
  BY <1>2, <1>3, <1>4

\* A notice that is over, failed or lost with the queue owes nothing any more, and one
\* whose process died owes nothing yet.
LEMMA QueueShrinks ==
  ASSUME TypeInv, QueueInv, UNCHANGED <<queued, mail, again>>,
         waiting' = waiting \/ waiting' = <<>>, active' \subseteq active,
         stalled' \subseteq Begun, active' = {} \/ stalled' \subseteq stalled
  PROVE  QueueInv'
<1>1. /\ DOMAIN waiting' \subseteq DOMAIN waiting
      /\ \A i \in DOMAIN waiting' : waiting'[i] = waiting[i]
  OBVIOUS
<1>2. Begun' \subseteq Begun
  BY DEF Begun
<1>3. ToSet(waiting') \subseteq ToSet(waiting) /\ Pending' \subseteq Pending
  BY <1>1, <1>2 DEF Pending, ToSet
<1>4. OnePlace' /\ Queued' /\ ToWrite'
  <2>1. OnePlace'
    BY <1>1, <1>2 DEF QueueInv, OnePlace
  <2>2. Queued'
    BY <1>3 DEF QueueInv, Queued
  <2> QED
    BY <2>1, <2>2 DEF QueueInv, ToWrite
<1>5. InQueueOrder' /\ MailedBefore' /\ Sorted' /\ PayerFirst'
  <2>1. \A e, k, l : QueuedAfter(e, k, l)' <=> QueuedAfter(e, k, l)
    BY DEF QueuedAfter
  <2>2. \A n, m : Before(n, m)' <=> Before(n, m)
    BY <2>1 DEF Before
  <2>3. InQueueOrder'
    BY <1>1, <1>2, <2>2 DEF QueueInv, InQueueOrder
  <2>4. MailedBefore'
    BY <1>3, <2>1 DEF QueueInv, MailedBefore
  <2>5. Sorted' /\ PayerFirst'
    BY <2>1 DEF QueueInv, Sorted, PayerFirst
  <2> QED
    BY <2>3, <2>4, <2>5
<1>6. NotTwice'
  <2>1. \A n, to : Owed(n, to)' => Owed(n, to)
    BY <1>3 DEF Owed
  <2>2. ASSUME NEW n \in Notices, NEW to \in Roles
        PROVE  Times(n, to)' <= (IF n \in again THEN 1 ELSE 0) + (IF Owed(n, to)' THEN 0 ELSE 1)
    <3>1. Times(n, to)' = Times(n, to) /\ Times(n, to) \in Nat
      BY TimesKept
    <3>2. Times(n, to) <= (IF n \in again THEN 1 ELSE 0) + (IF Owed(n, to) THEN 0 ELSE 1)
      BY DEF QueueInv, NotTwice
    <3> QED
      BY <2>1, <3>1, <3>2
  <2> QED
    BY <2>2 DEF NotTwice
<1> QED
  BY <1>4, <1>5, <1>6 DEF QueueInv

\* The oldest notice goes from the queue to the worker.
LEMMA StartQueue ==
  ASSUME TypeInv, QueueInv, Dispatched, StartNotice
  PROVE  QueueInv'
<1> DEFINE n == Head(waiting)
           r == [job |-> n, todo |-> Audience(n.kind, people[n.of])]
           L == Len(waiting)
<1>1. /\ L \in Nat /\ L >= 1 /\ DOMAIN waiting = 1 .. L /\ n = waiting[1]
      /\ DOMAIN waiting' = 1 .. (L - 1) /\ \A i \in 1 .. (L - 1) : waiting'[i] = waiting[i + 1]
  <2>1. waiting \in Seq(Notices) /\ waiting # <<>> /\ waiting' = Tail(waiting)
    BY WorkerTypes DEF StartNotice
  <2> QED
    BY <2>1
<1>2. active = {} /\ active' = {r}
  <2>1. Cardinality(active) < 1 /\ active' = active \cup {r}
    BY DEF StartNotice, Concurrency
  <2>2. ASSUME NEW x \in active, active = {x}
        PROVE  FALSE
    <3>1. Cardinality({x}) = 1
      BY FS_Singleton
    <3> QED
      BY <2>1, <2>2, <3>1
  <2>3. active = {}
    BY <2>2, ActiveShape DEF TypeInv
  <2> QED
    BY <2>1, <2>3
<1>3. UNCHANGED <<people, queued, stalled, again, mail>>
  BY DEF StartNotice
<1>4. n \in Notices /\ n.kind \in EventKinds /\ n.of \in Escrow /\ people[n.of] \in SUBSET Roles
  BY <1>1, WorkerTypes
<1>5. r.job = n /\ \E who \in SUBSET Roles : r.todo = Contacts(who)
  BY <1>4, AudienceShape
<1>6. n.kind \in BothHear => r.todo # <<"Payee">>
  <2> SUFFICES ASSUME n.kind \in BothHear PROVE r.todo # <<"Payee">>
    OBVIOUS
  <2>1. n \in Pending
    BY <1>1 DEF Pending, ToSet
  <2>2. Stage[n.kind] <= Stage[last[n.of]] /\ n.kind # "escrow.created"
    <3>1. n.kind \in ToSet(queued[n.of])
      BY <2>1 DEF QueueInv, Queued
    <3> QED
      BY <1>4, <3>1 DEF Dispatched, BothHear
  <2>3. last[n.of] # "escrow.created"
    BY <1>4, <2>2, Stages
  <2>4. "Payer" \in people[n.of]
    BY <1>4, <2>3 DEF Dispatched
  <2>5. "Payer" \in Addressees(n.kind, people[n.of]) \cap people[n.of]
    BY <2>4 DEF Addressees, BothHear, Roles
  <2>6. Head(Contacts(Addressees(n.kind, people[n.of]) \cap people[n.of])) = "Payer"
    <3> DEFINE who == Addressees(n.kind, people[n.of]) \cap people[n.of]
    <3>1. Contacts(who) = <<"Payer">> \o (IF "Payee" \in who THEN <<"Payee">> ELSE <<>>)
      BY <2>5 DEF Contacts
    <3> HIDE DEF who
    <3>2. \A t \in {<<>>, <<"Payee">>} : Head(<<"Payer">> \o t) = "Payer"
      OBVIOUS
    <3> QED
      BY <3>1, <3>2 DEF who
  <2>7. Head(<<"Payee">>) = "Payee"
    OBVIOUS
  <2>8. r.todo = Contacts(Addressees(n.kind, people[n.of]) \cap people[n.of])
    BY DEF Audience
  <2> QED
    BY <2>6, <2>7, <2>8
<1> HIDE DEF r, n
<1>7. ToSet(waiting) = ToSet(waiting') \cup {n}
  <2>1. \A i \in 1 .. L : i = 1 \/ (i - 1 \in 1 .. (L - 1) /\ waiting'[i - 1] = waiting[i])
    BY <1>1
  <2>2. ToSet(waiting) \subseteq ToSet(waiting') \cup {n}
    BY <1>1, <2>1 DEF ToSet
  <2>3. ToSet(waiting') \cup {n} \subseteq ToSet(waiting)
    BY <1>1 DEF ToSet
  <2> QED
    BY <2>2, <2>3
<1>8. /\ Begun = stalled /\ Begun' = Begun \cup {n} /\ Pending' = Pending
      /\ \A e, k, l : QueuedAfter(e, k, l)' <=> QueuedAfter(e, k, l)
      /\ \A x, y : Before(x, y)' <=> Before(x, y)
  <2>1. Begun = stalled /\ Begun' = Begun \cup {n}
    BY <1>2, <1>3, <1>5 DEF Begun
  <2>2. \A e, k, l : QueuedAfter(e, k, l)' <=> QueuedAfter(e, k, l)
    BY <1>3 DEF QueuedAfter
  <2>3. \A x, y : Before(x, y)' <=> Before(x, y)
    BY <2>2 DEF Before
  <2> QED
    BY <1>7, <2>1, <2>2, <2>3 DEF Pending
<1>9. OnePlace' /\ Queued' /\ InQueueOrder' /\ MailedBefore' /\ Sorted'
  <2>1. \A i \in 1 .. (L - 1) :
          /\ i + 1 \in 1 .. L /\ 1 \in 1 .. L /\ 1 < i + 1 /\ waiting'[i] = waiting[i + 1]
          /\ \A j \in 1 .. (L - 1) : (i < j <=> i + 1 < j + 1) /\ (i + 1 = j + 1 => i = j)
    BY <1>1
  <2>2. OnePlace'
    <3>1. \A i, j \in 1 .. (L - 1) : waiting'[i] = waiting'[j] => i = j
      BY <1>1, <2>1 DEF QueueInv, OnePlace
    <3>2. \A i \in 1 .. (L - 1) : waiting'[i] \notin Begun \cup {n}
      <4> TAKE i \in 1 .. (L - 1)
      <4>1. i + 1 \in 1 .. L /\ 1 \in 1 .. L /\ 1 # i + 1 /\ waiting'[i] = waiting[i + 1]
        BY <2>1
      <4>2. waiting[i + 1] # waiting[1] /\ waiting[i + 1] \notin Begun
        BY <1>1, <4>1 DEF QueueInv, OnePlace
      <4> QED
        BY <1>1, <4>1, <4>2
    <3>3. n \notin stalled
      BY <1>1, <1>8 DEF QueueInv, OnePlace
    <3> QED
      BY <1>1, <1>2, <1>3, <1>5, <1>8, <3>1, <3>2, <3>3 DEF OnePlace
  <2>3. Queued'
    BY <1>3, <1>8 DEF QueueInv, Queued
  <2>4. InQueueOrder'
    <3>1. \A i, j \in 1 .. (L - 1) :
            i < j /\ waiting'[j] \notin again => ~Before(waiting'[j], waiting'[i])
      BY <1>1, <2>1 DEF QueueInv, InQueueOrder
    <3>2. \A i \in 1 .. (L - 1) : waiting'[i] \notin again => ~Before(waiting'[i], n)
      BY <1>1, <2>1 DEF QueueInv, InQueueOrder
    <3>3. \A x \in Begun : \A i \in 1 .. (L - 1) :
            waiting'[i] \notin again => ~Before(waiting'[i], x)
      BY <1>1, <2>1 DEF QueueInv, InQueueOrder
    <3> QED
      BY <1>1, <1>3, <1>8, <3>1, <3>2, <3>3 DEF InQueueOrder
  <2>5. MailedBefore'
    <3>1. ToSet(waiting') \cup {x.job : x \in active'} = ToSet(waiting)
      BY <1>2, <1>5, <1>7
    <3> QED
      BY <1>3, <1>8, <3>1 DEF QueueInv, MailedBefore
  <2>6. Sorted'
    BY <1>3, <1>8 DEF QueueInv, Sorted
  <2> QED
    BY <2>2, <2>3, <2>4, <2>5, <2>6
<1>10. ToWrite' /\ PayerFirst'
  BY <1>2, <1>3, <1>5, <1>6 DEF QueueInv, ToWrite, PayerFirst
<1>11. NotTwice'
  <2>1. \A x, to : Owed(x, to)' => Owed(x, to)
    <3>1. ToSet(waiting') \subseteq ToSet(waiting) /\ n \in ToSet(waiting)
      BY <1>1 DEF ToSet
    <3> QED
      BY <1>2, <1>5, <3>1 DEF Owed
  <2>2. ASSUME NEW x \in Notices, NEW to \in Roles
        PROVE  Times(x, to)' <= (IF x \in again' THEN 1 ELSE 0) + (IF Owed(x, to)' THEN 0 ELSE 1)
    <3>1. Times(x, to)' = Times(x, to) /\ Times(x, to) \in Nat /\ again' = again
      BY <1>3, TimesKept
    <3>2. Times(x, to) <= (IF x \in again THEN 1 ELSE 0) + (IF Owed(x, to) THEN 0 ELSE 1)
      BY DEF QueueInv, NotTwice
    <3> QED
      BY <2>1, <3>1, <3>2
  <2> QED
    BY <2>2 DEF NotTwice
<1> QED
  BY <1>9, <1>10, <1>11 DEF QueueInv

\* Writing to the first leaves the others, each once and the payer never.
LEMMA TodoShape ==
  ASSUME NEW who \in SUBSET Roles, NEW t, t = Contacts(who), t # <<>>
  PROVE  /\ \E rest \in SUBSET Roles : Tail(t) = Contacts(rest)
         /\ Head(t) \in Roles /\ Head(t) \in ToSet(t)
         /\ ToSet(Tail(t)) \subseteq ToSet(t) \ {Head(t)}
         /\ Head(t) = "Payee" => t = <<"Payee">>
         /\ Tail(t) = <<"Payee">> => Head(t) = "Payer"
<1>1. Contacts({}) = <<>> /\ Contacts({"Payee"}) = <<"Payee">>
  BY ConcatEmptySeq DEF Contacts
<1>2. {} \in SUBSET Roles /\ {"Payee"} \in SUBSET Roles
  BY DEF Roles
<1>3. CASE t = <<"Payer">>
  <2>1. Head(t) = "Payer" /\ Tail(t) = <<>> /\ ToSet(t) = {"Payer"} /\ ToSet(Tail(t)) = {}
    BY <1>3 DEF ToSet
  <2> QED
    BY <1>1, <1>2, <1>3, <2>1 DEF Roles
<1>4. CASE t = <<"Payee">>
  <2>1. Head(t) = "Payee" /\ Tail(t) = <<>> /\ ToSet(t) = {"Payee"} /\ ToSet(Tail(t)) = {}
    BY <1>4 DEF ToSet
  <2> QED
    BY <1>1, <1>2, <1>4, <2>1 DEF Roles
<1>5. CASE t = <<"Payer", "Payee">>
  <2>1. Head(t) = "Payer" /\ Tail(t) = <<"Payee">>
    BY <1>5
  <2>2. ToSet(t) = {"Payer", "Payee"} /\ ToSet(<<"Payee">>) = {"Payee"}
    BY <1>5 DEF ToSet
  <2> QED
    BY <1>1, <1>2, <1>5, <2>1, <2>2 DEF Roles
<1> QED
  BY <1>3, <1>4, <1>5, ContactsShape

LEMMA SendQueue ==
  ASSUME TypeInv, QueueInv, NEW run \in active, SendMail(run)
  PROVE  QueueInv'
<1> DEFINE notice == run.job
           e == notice.of
           to == Head(run.todo)
           m == [kind |-> notice.kind, to |-> to]
           next == [job |-> notice, todo |-> Tail(run.todo)]
           L == Len(mail[e])
<1>1. /\ run \in [job : Notices, todo : Seq(Roles)] /\ run.todo # <<>>
      /\ notice \in Notices /\ e \in Escrow /\ notice.kind \in EventKinds
      /\ notice = [of |-> e, kind |-> notice.kind]
  BY WorkerTypes DEF SendMail
<1>2. /\ \E rest \in SUBSET Roles : next.todo = Contacts(rest)
      /\ to \in Roles /\ to \in ToSet(run.todo)
      /\ ToSet(next.todo) \subseteq ToSet(run.todo) \ {to}
      /\ to = "Payee" => run.todo = <<"Payee">>
      /\ next.todo = <<"Payee">> => to = "Payer"
  <2>1. PICK who \in SUBSET Roles : run.todo = Contacts(who)
    BY DEF QueueInv, ToWrite
  <2>2. next.todo = Tail(run.todo)
    OBVIOUS
  <2> HIDE DEF next
  <2> QED
    BY <1>1, <2>1, <2>2, TodoShape
<1>3. active = {run} /\ active' = {next} /\ next.job = notice
  BY <1>1 DEF SendMail, TypeInv, OneAtATime
<1>4. UNCHANGED <<people, queued, waiting, stalled, again>>
  BY DEF SendMail
<1>5. m \in [kind : EventKinds, to : Roles] /\ m.kind = notice.kind /\ m.to = to
  BY <1>1, <1>2
<1>6. /\ \A f \in Escrow : f # e => mail'[f] = mail[f]
      /\ L \in Nat /\ DOMAIN mail[e] = 1 .. L /\ DOMAIN mail'[e] = 1 .. (L + 1)
      /\ mail'[e][L + 1] = m /\ \A i \in 1 .. L : mail'[e][i] = mail[e][i]
  <2>1. mail' = [mail EXCEPT ![e] = Append(@, m)]
    BY DEF SendMail
  <2>2. mail[e] \in Seq([kind : EventKinds, to : Roles]) /\ mail \in [Escrow -> Seq([kind : EventKinds, to : Roles])]
    BY <1>1, WorkerTypes
  <2>3. mail'[e] = Append(mail[e], m) /\ \A f \in Escrow : f # e => mail'[f] = mail[f]
    BY <1>1, <2>1, <2>2
  <2> HIDE DEF m
  <2> QED
    BY <1>5, <2>2, <2>3, AppendProperties
<1>7. /\ Begun' = Begun /\ Pending' = Pending /\ notice \in Pending /\ notice \in Begun
      /\ {r.job : r \in active} = {notice} /\ {r.job : r \in active'} = {notice}
      /\ \A f, k, l : QueuedAfter(f, k, l)' <=> QueuedAfter(f, k, l)
      /\ \A x, y : Before(x, y)' <=> Before(x, y)
  <2>1. {r.job : r \in active} = {notice} /\ {r.job : r \in active'} = {notice}
    BY <1>3
  <2>2. \A f, k, l : QueuedAfter(f, k, l)' <=> QueuedAfter(f, k, l)
    BY <1>4 DEF QueuedAfter
  <2>3. \A x, y : Before(x, y)' <=> Before(x, y)
    BY <2>2 DEF Before
  <2> QED
    BY <1>4, <2>1, <2>2, <2>3 DEF Begun, Pending
<1>8. notice \notin again =>
        \A j \in DOMAIN mail[e] : ~QueuedAfter(e, notice.kind, mail[e][j].kind)
  BY <1>7 DEF QueueInv, MailedBefore
<1>9. ~QueuedAfter(e, notice.kind, notice.kind)
  <2>1. \A p, q \in DOMAIN queued[e] : queued[e][p] = queued[e][q] => p = q
    BY <1>1 DEF QueueInv, Queued
  <2>2. DOMAIN queued[e] = 1 .. Len(queued[e]) /\ Len(queued[e]) \in Nat
    <3>1. queued[e] \in Seq(EventKinds)
      BY <1>1, WorkerTypes
    <3> QED
      BY <3>1
  <2>3. \A p, q \in DOMAIN queued[e] : p < q => p # q
    BY <2>2
  <2> QED
    BY <2>1, <2>3 DEF QueuedAfter
<1> HIDE DEF m, next, to, L
<1>10. OnePlace' /\ Queued'
  <2>1. OnePlace'
    BY <1>3, <1>4, <1>7 DEF QueueInv, OnePlace
  <2>2. notice.kind \in ToSet(queued[e])
    BY <1>7 DEF QueueInv, Queued
  <2>3. \A j \in DOMAIN mail'[e] : mail'[e][j].kind \in ToSet(queued[e])
    <3> TAKE j \in DOMAIN mail'[e]
    <3>1. j \in 1 .. L \/ j = L + 1
      BY <1>6
    <3> QED
      BY <1>1, <1>5, <1>6, <2>2, <3>1 DEF QueueInv, Queued
  <2>4. \A f \in Escrow : \A j \in DOMAIN mail'[f] : mail'[f][j].kind \in ToSet(queued[f])
    BY <1>6, <2>3 DEF QueueInv, Queued
  <2> QED
    BY <1>4, <1>7, <2>1, <2>4 DEF QueueInv, Queued
<1>11. ToWrite'
  BY <1>2, <1>3 DEF QueueInv, ToWrite
<1>12. InQueueOrder'
  BY <1>4, <1>7 DEF QueueInv, InQueueOrder
<1>13. MailedBefore'
  <2>1. ASSUME NEW n \in (ToSet(waiting) \cup {notice}) \ again, n.of = e
        PROVE  ~QueuedAfter(e, n.kind, notice.kind)
    <3>1. CASE n = notice
      BY <1>9, <3>1
    <3>2. CASE n # notice
      <4>1. PICK i \in DOMAIN waiting : waiting[i] = n
        BY <2>1, <3>2 DEF ToSet
      <4>2. ~Before(n, notice)
        BY <1>7, <2>1, <4>1 DEF QueueInv, InQueueOrder
      <4> QED
        BY <2>1, <4>2 DEF Before
    <3> QED
      BY <3>1, <3>2
  <2>2. ASSUME NEW n \in (ToSet(waiting) \cup {notice}) \ again, NEW j \in DOMAIN mail'[n.of]
        PROVE  ~QueuedAfter(n.of, n.kind, mail'[n.of][j].kind)
    <3>1. n.of \in Escrow /\ n \in Pending
      BY <1>7, WorkerTypes DEF Pending
    <3>2. \A i \in DOMAIN mail[n.of] : ~QueuedAfter(n.of, n.kind, mail[n.of][i].kind)
      BY <1>7 DEF QueueInv, MailedBefore
    <3>3. CASE n.of # e
      BY <1>6, <2>2, <3>1, <3>2, <3>3
    <3>4. CASE n.of = e
      <4>1. j \in 1 .. L \/ j = L + 1
        BY <1>6, <2>2, <3>4
      <4> QED
        BY <1>5, <1>6, <2>1, <3>2, <3>4, <4>1
    <3> QED
      BY <3>3, <3>4
  <2> QED
    BY <1>4, <1>7, <2>2 DEF MailedBefore
<1>14. Sorted'
  <2>1. ASSUME NEW j \in 1 .. (L + 1), NEW i \in 1 .. j,
               QueuedAfter(e, mail'[e][j].kind, mail'[e][i].kind)
        PROVE  [of |-> e, kind |-> mail'[e][j].kind] \in again
    <3>1. CASE j = L + 1
      <4>1. mail'[e][j].kind = notice.kind /\ (i \in 1 .. L \/ i = L + 1)
        BY <1>5, <1>6, <3>1
      <4>2. notice \in again
        <5>1. CASE i = L + 1
          BY <1>5, <1>6, <1>9, <2>1, <4>1, <5>1
        <5>2. CASE i \in 1 .. L
          BY <1>6, <1>8, <2>1, <4>1, <5>2
        <5> QED
          BY <4>1, <5>1, <5>2
      <4> QED
        BY <1>1, <4>1, <4>2
    <3>2. CASE j \in 1 .. L
      <4>1. i \in 1 .. L /\ mail'[e][i] = mail[e][i] /\ mail'[e][j] = mail[e][j]
        BY <1>6, <3>2
      <4> QED
        BY <1>1, <1>6, <2>1, <3>2, <4>1 DEF QueueInv, Sorted
    <3> QED
      BY <1>6, <3>1, <3>2
  <2>2. ASSUME NEW f \in Escrow, NEW j \in DOMAIN mail'[f], NEW i \in 1 .. j,
               QueuedAfter(f, mail'[f][j].kind, mail'[f][i].kind)
        PROVE  [of |-> f, kind |-> mail'[f][j].kind] \in again
    <3>1. CASE f = e
      BY <1>6, <2>1, <2>2, <3>1
    <3>2. CASE f # e
      BY <1>6, <2>2, <3>2 DEF QueueInv, Sorted
    <3> QED
      BY <3>1, <3>2
  <2> QED
    BY <1>4, <1>7, <2>2 DEF Sorted
<1>15. PayerFirst'
  <2>1. ASSUME notice.kind \in BothHear, to = "Payee"
        PROVE  \E i \in 1 .. L : mail[e][i] = [kind |-> notice.kind, to |-> "Payer"]
    BY <1>2, <1>6, <2>1 DEF QueueInv, PayerFirst
  <2>2. next.todo = <<"Payee">> =>
          \E i \in DOMAIN mail'[e] : mail'[e][i] = [kind |-> notice.kind, to |-> "Payer"]
    <3>1. L + 1 \in DOMAIN mail'[e]
      BY <1>6
    <3> QED
      BY <1>2, <1>6, <3>1 DEF m
  <2>3. \A f \in Escrow : \A j \in DOMAIN mail[f] :
          mail[f][j].kind \in BothHear /\ mail[f][j].to = "Payee" =>
            \E i \in 1 .. j : mail[f][i] = [kind |-> mail[f][j].kind, to |-> "Payer"]
    BY DEF QueueInv, PayerFirst
  <2>4. ASSUME NEW f \in Escrow, NEW j \in DOMAIN mail'[f],
               mail'[f][j].kind \in BothHear, mail'[f][j].to = "Payee"
        PROVE  \E i \in 1 .. j : mail'[f][i] = [kind |-> mail'[f][j].kind, to |-> "Payer"]
    <3>1. CASE f # e
      <4>1. mail'[f] = mail[f]
        BY <1>6, <3>1
      <4>2. j \in DOMAIN mail[f] /\ mail[f][j].kind \in BothHear /\ mail[f][j].to = "Payee"
        BY <2>4, <4>1
      <4> QED
        BY <2>3, <4>1, <4>2
    <3>2. CASE f = e /\ j \in 1 .. L
      <4>1. \E i \in 1 .. j : mail[e][i] = [kind |-> mail[e][j].kind, to |-> "Payer"]
        <5>1. mail'[f][j] = mail[e][j] /\ j \in DOMAIN mail[e]
          BY <1>6, <3>2
        <5> QED
          BY <1>1, <2>3, <2>4, <5>1
      <4>2. \A i \in 1 .. j : i \in 1 .. L
        BY <1>6, <3>2
      <4> QED
        BY <1>6, <3>2, <4>1, <4>2
    <3>3. CASE f = e /\ j = L + 1
      <4>1. notice.kind \in BothHear /\ to = "Payee"
        BY <1>5, <1>6, <2>4, <3>3
      <4>2. PICK i \in 1 .. L : mail[e][i] = [kind |-> notice.kind, to |-> "Payer"]
        BY <2>1, <4>1
      <4>3. i \in 1 .. j
        BY <1>6, <3>3, <4>2
      <4> QED
        BY <1>5, <1>6, <3>3, <4>2, <4>3
    <3> QED
      BY <1>6, <2>4, <3>1, <3>2, <3>3
  <2> QED
    BY <1>3, <2>2, <2>4 DEF PayerFirst
<1>16. NotTwice'
  <2>1. ASSUME NEW n \in Notices, NEW r \in Roles
        PROVE  Times(n, r)' <= (IF n \in again THEN 1 ELSE 0) + (IF Owed(n, r)' THEN 0 ELSE 1)
    <3> DEFINE mm == [kind |-> n.kind, to |-> r]
    <3>1. /\ Times(n, r) <= (IF n \in again THEN 1 ELSE 0) + (IF Owed(n, r) THEN 0 ELSE 1)
          /\ Times(n, r) \in Nat /\ n.of \in Escrow
          /\ IsFiniteSet(Told(n.of, mm)) /\ Cardinality(Told(n.of, mm)) = Times(n, r)
      BY MailTypes, WorkerTypes DEF QueueInv, NotTwice, Times
    <3>2. CASE n = notice /\ r = to
      <4>1. mm = m /\ n.of = e
        BY <3>2 DEF m
      <4>2. Told(n.of, mm)' = Told(n.of, mm) \cup {L + 1} /\ L + 1 \notin Told(n.of, mm)
        <5>1. {i \in DOMAIN mail'[e] : mail'[e][i] = m}
                = {i \in DOMAIN mail[e] : mail[e][i] = m} \cup {L + 1}
          BY <1>6
        <5>2. L + 1 \notin DOMAIN mail[e]
          BY <1>6
        <5> QED
          BY <4>1, <5>1, <5>2 DEF Told
      <4>3. Times(n, r)' = Times(n, r) + 1
        <5>1. Cardinality(Told(n.of, mm) \cup {L + 1}) = Cardinality(Told(n.of, mm)) + 1
          BY <3>1, <4>2, FS_AddElement
        <5> QED
          BY <3>1, <4>2, <5>1 DEF Times
      <4>4. Owed(n, r)
        BY <1>2, <3>2 DEF Owed
      <4>5. ~Owed(n, r)'
        <5>1. n \notin ToSet(waiting)
          BY <1>7, <3>2 DEF QueueInv, OnePlace, ToSet
        <5>2. \A x \in active' : r \notin ToSet(x.todo)
          BY <1>2, <1>3, <3>2
        <5> QED
          BY <1>4, <5>1, <5>2 DEF Owed
      <4> QED
        BY <3>1, <4>3, <4>4, <4>5
    <3>3. CASE ~(n = notice /\ r = to)
      <4>1. n.of = e => mm # m
        <5> SUFFICES ASSUME n.of = e, mm = m PROVE FALSE
          OBVIOUS
        <5>1. n.kind = notice.kind /\ r = to
          BY DEF m
        <5>2. n = notice
          BY <1>1, <5>1, WorkerTypes
        <5> QED
          BY <3>3, <5>1, <5>2
      <4>2. Told(n.of, mm)' = Told(n.of, mm)
        <5>1. CASE n.of # e
          BY <1>6, <3>1, <5>1 DEF Told
        <5>2. CASE n.of = e
          <6>1. {i \in DOMAIN mail'[e] : mail'[e][i] = mm}
                  = {i \in DOMAIN mail[e] : mail[e][i] = mm}
            <7>1. mm # m
              BY <4>1, <5>2
            <7> HIDE DEF mm
            <7> QED
              BY <1>6, <7>1
          <6> QED
            BY <5>2, <6>1 DEF Told
        <5> QED
          BY <5>1, <5>2
      <4>3. Times(n, r)' = Times(n, r)
        BY <4>2 DEF Times
      <4>4. Owed(n, r)' => Owed(n, r)
        BY <1>2, <1>3, <1>4 DEF Owed
      <4> QED
        BY <3>1, <4>3, <4>4
    <3> QED
      BY <3>2, <3>3
  <2> QED
    BY <1>4, <2>1 DEF NotTwice
<1> QED
  BY <1>10, <1>11, <1>12, <1>13, <1>14, <1>15, <1>16 DEF QueueInv

\* A notice that is found stalled is queued again, before the others, or has failed.
LEMMA StalledQueue ==
  ASSUME TypeInv, QueueInv, NEW n \in stalled, FindStalled(n)
  PROVE  QueueInv'
<1>1. /\ UNCHANGED <<people, queued, active, mail>>
      /\ stalled' = stalled \ {n} /\ again' = again \cup {n}
      /\ waiting' = IF n \in again THEN waiting ELSE <<n>> \o waiting
  BY DEF FindStalled
<1>2. CASE n \in again
  <2>1. UNCHANGED <<queued, mail, again>> /\ waiting' = waiting /\ active' = active
        /\ stalled' \subseteq stalled
    BY <1>1, <1>2
  <2> QED
    BY <2>1, QueueShrinks DEF Begun
<1>3. CASE n \notin again
  <2> DEFINE L == Len(waiting)
  <2>1. n \in Notices /\ n \in Begun /\ waiting' = <<n>> \o waiting
    BY <1>1, <1>3, WorkerTypes DEF Begun
  <2>2. /\ L \in Nat /\ DOMAIN waiting = 1 .. L /\ DOMAIN waiting' = 1 .. (L + 1)
        /\ waiting'[1] = n
        /\ \A i \in 1 .. (L + 1) : i # 1 => i - 1 \in 1 .. L /\ waiting'[i] = waiting[i - 1]
    <3>1. waiting \in Seq(Notices) /\ <<n>> \in Seq(Notices) /\ Len(<<n>>) = 1
      BY <2>1, WorkerTypes
    <3>2. /\ waiting' \in Seq(Notices) /\ Len(waiting') = 1 + L
          /\ \A i \in 1 .. 1 + L :
               waiting'[i] = IF i <= 1 THEN <<n>>[i] ELSE waiting[i - 1]
      BY <2>1, <3>1, ConcatProperties
    <3>3. L \in Nat /\ DOMAIN waiting = 1 .. L
      BY <3>1
    <3> HIDE DEF L
    <3> QED
      BY <3>2, <3>3
  <2> HIDE DEF L
  <2>3. ToSet(waiting') = ToSet(waiting) \cup {n}
    <3>1. \A i \in 1 .. L : i + 1 \in 1 .. (L + 1) /\ i + 1 # 1 /\ (i + 1) - 1 = i
      BY <2>2
    <3>2. 1 \in 1 .. (L + 1)
      BY <2>2
    <3>3. ToSet(waiting) \subseteq ToSet(waiting')
      <4>1. \A i \in 1 .. L : waiting'[i + 1] = waiting[i]
        BY <2>2, <3>1
      <4> QED
        BY <2>2, <3>1, <4>1 DEF ToSet
    <3>4. n \in ToSet(waiting')
      BY <2>2, <3>2 DEF ToSet
    <3>5. ToSet(waiting') \subseteq ToSet(waiting) \cup {n}
      BY <2>2 DEF ToSet
    <3> QED
      BY <3>3, <3>4, <3>5
  <2>4. /\ Begun' \subseteq Begun /\ Pending' \cup again' \subseteq Pending \cup again
        /\ n \notin Begun'
    <3>1. \A r \in active : r.job # n
      BY DEF QueueInv, OnePlace
    <3> QED
      BY <1>1, <2>1, <2>3, <3>1 DEF Begun, Pending
  <2>5. /\ \A f, k, l : QueuedAfter(f, k, l)' <=> QueuedAfter(f, k, l)
        /\ \A x, y : Before(x, y)' <=> Before(x, y)
    <3>1. \A f, k, l : QueuedAfter(f, k, l)' <=> QueuedAfter(f, k, l)
      BY <1>1 DEF QueuedAfter
    <3> QED
      BY <3>1 DEF Before
  <2>6. OnePlace'
    <3>1. \A i \in 1 .. L : waiting[i] # n
      BY <2>1, <2>2 DEF QueueInv, OnePlace
    <3>2. ASSUME NEW i \in 1 .. (L + 1), NEW j \in 1 .. (L + 1), waiting'[i] = waiting'[j]
          PROVE  i = j
      <4>1. CASE i = 1 \/ j = 1
        BY <2>2, <3>1, <3>2, <4>1
      <4>2. CASE i # 1 /\ j # 1
        <5>1. i - 1 \in 1 .. L /\ j - 1 \in 1 .. L /\ waiting[i - 1] = waiting[j - 1]
          BY <2>2, <3>2, <4>2
        <5>2. i - 1 = j - 1
          BY <2>2, <5>1 DEF QueueInv, OnePlace
        <5> QED
          BY <2>2, <5>2
      <4> QED
        BY <4>1, <4>2
    <3>3. ASSUME NEW i \in 1 .. (L + 1)
          PROVE  waiting'[i] \notin Begun'
      <4>1. CASE i = 1
        BY <2>2, <2>4, <4>1
      <4>2. CASE i # 1
        <5>1. i - 1 \in 1 .. L /\ waiting'[i] = waiting[i - 1]
          BY <2>2, <4>2
        <5> QED
          BY <2>2, <2>4, <5>1 DEF QueueInv, OnePlace
      <4> QED
        BY <4>1, <4>2
    <3>4. \A r \in active' : r.job \notin stalled'
      BY <1>1 DEF QueueInv, OnePlace
    <3> QED
      BY <2>2, <3>2, <3>3, <3>4 DEF OnePlace
  <2>7. Queued'
    BY <1>1, <2>4 DEF QueueInv, Queued
  <2>8. InQueueOrder'
    <3>1. ASSUME NEW i \in 1 .. (L + 1), NEW j \in 1 .. (L + 1), i < j,
                 waiting'[j] \notin again'
          PROVE  ~Before(waiting'[j], waiting'[i])
      <4>1. j # 1 /\ j - 1 \in 1 .. L /\ waiting'[j] = waiting[j - 1] /\ waiting[j - 1] \notin again
        BY <1>1, <2>2, <3>1
      <4>2. CASE i = 1
        BY <2>1, <2>2, <4>1, <4>2 DEF QueueInv, InQueueOrder
      <4>3. CASE i # 1
        <5>1. i - 1 \in 1 .. L /\ waiting'[i] = waiting[i - 1] /\ i - 1 < j - 1
          BY <2>2, <3>1, <4>1, <4>3
        <5> QED
          BY <2>2, <4>1, <5>1 DEF QueueInv, InQueueOrder
      <4> QED
        BY <4>2, <4>3
    <3>2. ASSUME NEW x \in Begun', NEW i \in 1 .. (L + 1), waiting'[i] \notin again'
          PROVE  ~Before(waiting'[i], x)
      <4>1. i # 1
        BY <1>1, <2>2, <3>2
      <4>2. /\ i - 1 \in 1 .. L /\ waiting'[i] = waiting[i - 1] /\ waiting[i - 1] \notin again
            /\ x \in Begun
        BY <1>1, <2>2, <2>4, <3>2, <4>1
      <4> QED
        BY <2>2, <4>2 DEF QueueInv, InQueueOrder
    <3> QED
      BY <2>2, <2>5, <3>1, <3>2 DEF InQueueOrder
  <2>9. MailedBefore' /\ Sorted'
    <3>1. (ToSet(waiting') \cup {r.job : r \in active'}) \ again'
            \subseteq (ToSet(waiting) \cup {r.job : r \in active}) \ again
      BY <1>1, <2>3
    <3>2. again \subseteq again'
      BY <1>1
    <3>3. MailedBefore'
      BY <1>1, <2>5, <3>1 DEF QueueInv, MailedBefore
    <3>4. Sorted'
      BY <1>1, <2>5, <3>2 DEF QueueInv, Sorted
    <3> QED
      BY <3>3, <3>4
  <2>10. ToWrite' /\ PayerFirst'
    BY <1>1 DEF QueueInv, ToWrite, PayerFirst
  <2>11. NotTwice'
    <3>1. ASSUME NEW x \in Notices, NEW to \in Roles
          PROVE  Times(x, to)' <= (IF x \in again' THEN 1 ELSE 0) + (IF Owed(x, to)' THEN 0 ELSE 1)
      <4>1. Times(x, to)' = Times(x, to) /\ Times(x, to) \in Nat
        BY <1>1, TimesKept
      <4>2. Times(x, to) <= (IF x \in again THEN 1 ELSE 0) + (IF Owed(x, to) THEN 0 ELSE 1)
        BY DEF QueueInv, NotTwice
      <4>3. CASE x = n
        <5>1. x \in again' /\ x \notin again
          BY <1>1, <1>3, <4>3
        <5> QED
          BY <4>1, <4>2, <5>1
      <4>4. CASE x # n
        <5>1. x \in again' <=> x \in again
          BY <1>1, <4>4
        <5>2. Owed(x, to)' => Owed(x, to)
          BY <1>1, <2>3, <4>4 DEF Owed
        <5> QED
          BY <4>1, <4>2, <5>1, <5>2
      <4> QED
        BY <4>3, <4>4
    <3> QED
      BY <3>1 DEF NotTwice
  <2> QED
    BY <2>6, <2>7, <2>8, <2>9, <2>10, <2>11 DEF QueueInv
<1> QED
  BY <1>2, <1>3

\* The worker's steps, the queue's loss and a crash queue nothing.
LEMMA WorkerQueue ==
  ASSUME TypeInv, QueueInv, Dispatched,
         NotificationsNext \/ NotificationsCrash \/ NotificationsFlush
  PROVE  QueueInv' /\ UNCHANGED <<people, queued>>
<1>1. CASE StartNotice
  <2>1. UNCHANGED <<people, queued>>
    BY <1>1 DEF StartNotice
  <2> QED
    BY <1>1, <2>1, StartQueue
<1>2. ASSUME NEW run \in active, SendMail(run)
      PROVE  QueueInv' /\ UNCHANGED <<people, queued>>
  <2>1. UNCHANGED <<people, queued>>
    BY <1>2 DEF SendMail
  <2> QED
    BY <1>2, <2>1, SendQueue
<1>3. ASSUME NEW run \in active, EndNotice(run) \/ SendFails(run)
      PROVE  QueueInv' /\ UNCHANGED <<people, queued>>
  <2>1. UNCHANGED <<people, queued, again, mail, waiting, stalled>> /\ active' \subseteq active
    BY <1>3 DEF EndNotice, SendFails
  <2>2. stalled \subseteq Begun
    BY DEF Begun
  <2> QED
    BY <2>1, <2>2, QueueShrinks
<1>4. CASE NotificationsFlush
  <2>1. UNCHANGED <<people, queued, again, mail, active>> /\ waiting' = <<>> /\ stalled' = {}
    BY <1>4 DEF NotificationsFlush
  <2> QED
    BY <2>1, QueueShrinks
<1>5. CASE NotificationsCrash
  <2>1. UNCHANGED <<people, queued, again, mail, waiting>> /\ active' = {} /\ stalled' = Begun
    BY <1>5 DEF NotificationsCrash, Begun
  <2> QED
    BY <2>1, QueueShrinks
<1>6. ASSUME NEW n \in stalled, FindStalled(n)
      PROVE  QueueInv' /\ UNCHANGED <<people, queued>>
  <2>1. UNCHANGED <<people, queued>>
    BY <1>6 DEF FindStalled
  <2> QED
    BY <1>6, <2>1, StalledQueue
<1> QED
  BY <1>1, <1>2, <1>3, <1>4, <1>5, <1>6 DEF NotificationsNext

-----------------------------------------------------------------------------
(* The other steps, and the theorem about mails.                            *)

\* What queues and commits nothing.
LEMMA QuietStep ==
  ASSUME MailInv, QueueInv', UNCHANGED <<queued, last>>,
         \A e \in Escrow :
           /\ unsaid'[e] \subseteq unsaid[e]
           /\ pc'[e] \in Mute => pc[e] \in Mute
           /\ status'[e] \in {"none", "Created"} => status[e] \in {"none", "Created"}
           /\ people[e] \subseteq people'[e] \/ last[e] = "escrow.created"
  PROVE  QueueInv' /\ Dispatched'
BY DEF MailInv, Dispatched

LEMMA UnheardSteps ==
  ASSUME MailInv, NEW e \in Escrow,
         \/ Begin(e) \/ Draw(e) \/ Schedule(e) \/ Joined(e)
         \/ TimePasses(e) \/ ExpiryGoesOn(e) \/ ExpireThrows(e)
  PROVE  QueueInv' /\ Dispatched'
<1> USE DEF MailInv, RowsInv, TypeInv, TypeOK, escrowVars, requestVars, Mute, BeforeRow
<1>1. people \in [Escrow -> SUBSET Roles]
  BY WorkerTypes
<1>2. CASE Begin(e) \/ Draw(e) \/ Schedule(e)
  <2>1. UNCHANGED <<workerVars, last, unsaid, people, status>>
    BY <1>2 DEF Begin, Draw, Schedule
  <2>2. \A f \in Escrow : pc'[f] \in Mute => pc[f] \in Mute
    BY <1>2 DEF Begin, Draw, Schedule, Step
  <2>3. QueueInv' /\ queued' = queued
    BY <2>1, QueueKept DEF workerVars
  <2> QED
    BY <2>1, <2>2, <2>3, QuietStep
<1>3. CASE Joined(e)
  <2>1. UNCHANGED <<workerVars, last, unsaid, pc, status>> /\ people' = [people EXCEPT ![e] = Roles]
    BY <1>3 DEF Joined
  <2>2. \A f \in Escrow : people[f] \subseteq people'[f]
    BY <1>1, <2>1
  <2>3. QueueInv' /\ queued' = queued
    BY <2>1, QueueKept DEF workerVars
  <2> QED
    BY <2>1, <2>2, <2>3, QuietStep
<1>4. CASE TimePasses(e) \/ ExpiryGoesOn(e) \/ ExpireThrows(e)
  <2>1. UNCHANGED <<workerVars, last, unsaid, people, pc>>
    BY <1>4
       DEF TimePasses, ExpiryGoesOn, ExpireRead, ExpireWrite, ExpireThrows,
           FindExpiryStalled, JobStep
  <2>2. status' = status \/ status' = [status EXCEPT ![e] = "Cancelled"]
    BY <1>4
       DEF TimePasses, ExpiryGoesOn, ExpireRead, ExpireWrite, ExpireThrows,
           FindExpiryStalled
  <2>3. \A f \in Escrow : status'[f] \in {"none", "Created"} => status[f] \in {"none", "Created"}
    BY <2>2
  <2>4. QueueInv' /\ queued' = queued
    BY <2>1, QueueKept DEF workerVars
  <2> QED
    BY <2>1, <2>3, <2>4, QuietStep
<1> QED
  BY <1>2, <1>3, <1>4

LEMMA InsertUnheard ==
  ASSUME MailInv, NEW e \in Escrow, Insert(e)
  PROVE  QueueInv' /\ Dispatched'
<1> USE DEF MailInv, RowsInv, TypeInv, TypeOK, Mute, BeforeRow
<1>1. people \in [Escrow -> SUBSET Roles]
  BY WorkerTypes
<1>2. /\ UNCHANGED <<workerVars, last, unsaid>>
      /\ pc[e] = "drawn" /\ status[e] = "none"
      /\ \E to \in {"conflict", "inserted", "announced"} : pc' = [pc EXCEPT ![e] = to]
      /\ status' = status \/ status' = [status EXCEPT ![e] = "Created"]
      /\ people' = people \/ people' = [people EXCEPT ![e] = {input[e].role}]
  BY DEF Insert, Step, AfterInsert, RowsHaveCodes
<1>3. last[e] = "escrow.created"
  BY <1>2 DEF Dispatched
<1>4. \A f \in Escrow :
        /\ pc'[f] \in Mute => pc[f] \in Mute
        /\ status'[f] \in {"none", "Created"} => status[f] \in {"none", "Created"}
  BY <1>2
<1>5. \A f \in Escrow : people[f] \subseteq people'[f] \/ last[f] = "escrow.created"
  BY <1>1, <1>2, <1>3
<1>6. QueueInv' /\ queued' = queued
  BY <1>2, QueueKept DEF workerVars
<1> QED
  BY <1>2, <1>4, <1>5, <1>6, QuietStep

LEMMA AnnounceHeard ==
  ASSUME MailInv, NEW e \in Escrow, Announce(e)
  PROVE  QueueInv' /\ Dispatched'
<1> USE DEF MailInv, RowsInv, TypeInv, TypeOK, Mute, BeforeRow
<1>1. /\ pc[e] = "inserted" /\ pc' = [pc EXCEPT ![e] = "announced"]
      /\ Notify(e, "escrow.created")
      /\ UNCHANGED <<people, status, last, unsaid>>
  BY DEF Announce, Notify, Step, escrowVars
<1>2. "escrow.created" \in EventKinds /\ "escrow.created" \notin ToSet(queued[e])
  BY <1>1 DEF Dispatched, EventKinds
<1>3. QueueInv'
  BY <1>1, <1>2, NotifyQueue
<1>4. /\ ToSet(queued'[e]) = ToSet(queued[e]) \cup {"escrow.created"}
      /\ \A f \in Escrow : f # e => queued'[f] = queued[f]
  BY <1>1, <1>2, NewOrder
<1>5. Stage["escrow.created"] <= Stage[last[e]]
  <2>1. Stage[last[e]] \in Nat /\ Stage["escrow.created"] = 0
    BY Stages
  <2> QED
    BY <2>1
<1>6. ASSUME NEW f \in Escrow
      PROVE  /\ pc'[f] \in Mute => "escrow.created" \notin ToSet(queued'[f])
             /\ \A kind \in ToSet(queued'[f]) \cup unsaid[f] : Stage[kind] <= Stage[last[f]]
             /\ \A kind \in unsaid[f] : kind \notin ToSet(queued'[f])
  <2>1. CASE f # e
    BY <1>1, <1>4, <2>1 DEF Dispatched
  <2>2. CASE f = e
    BY <1>1, <1>4, <1>5, <2>2 DEF Dispatched
  <2> QED
    BY <2>1, <2>2
<1> QED
  BY <1>1, <1>3, <1>6 DEF Dispatched

LEMMA DispatchHeard ==
  ASSUME MailInv, NEW e \in Escrow, Dispatch(e)
  PROVE  QueueInv' /\ Dispatched'
<1> USE DEF MailInv, RowsInv, TypeInv, TypeOK
<1>1. PICK kind \in unsaid[e] : unsaid' = [unsaid EXCEPT ![e] = @ \ {kind}] /\ Notify(e, kind)
  BY DEF Dispatch
<1>2. kind \in EventKinds /\ kind \notin ToSet(queued[e]) /\ kind # "escrow.created"
  BY <1>1 DEF Dispatched
<1>3. QueueInv'
  BY <1>1, <1>2, NotifyQueue
<1>4. /\ ToSet(queued'[e]) = ToSet(queued[e]) \cup {kind}
      /\ \A f \in Escrow : f # e => queued'[f] = queued[f]
  BY <1>1, <1>2, NewOrder
<1>5. UNCHANGED <<pc, status, last, people>>
  BY <1>1 DEF Dispatch, Notify, requestVars
<1>6. ASSUME NEW f \in Escrow
      PROVE  /\ pc[f] \in Mute => "escrow.created" \notin ToSet(queued'[f])
             /\ "escrow.created" \notin unsaid'[f]
             /\ \A k \in ToSet(queued'[f]) \cup unsaid'[f] : Stage[k] <= Stage[last[f]]
             /\ \A k \in unsaid'[f] : k \notin ToSet(queued'[f])
  <2>1. CASE f # e
    BY <1>1, <1>4, <2>1 DEF Dispatched
  <2>2. CASE f = e
    BY <1>1, <1>2, <1>4, <2>2 DEF Dispatched
  <2> QED
    BY <2>1, <2>2
<1> QED
  BY <1>3, <1>5, <1>6 DEF Dispatched

\* An event is committed once: it is later than those before it.
LEMMA CommitsHeard ==
  ASSUME MailInv, NEW e \in Escrow, NEW kind \in EventKinds, Commits(e, kind),
         Stage[last[e]] < Stage[kind], "Payer" \in people[e],
         \A f \in Escrow : status'[f] \in {"none", "Created"} =>
           status[f] \in {"none", "Created"} /\ f # e
  PROVE  QueueInv' /\ Dispatched'
<1> USE DEF MailInv, RowsInv, TypeInv, TypeOK
<1>1. /\ UNCHANGED <<pc, people, workerVars>>
      /\ last' = [last EXCEPT ![e] = kind]
      /\ unsaid' = [unsaid EXCEPT ![e] = @ \cup {kind}]
  BY DEF Commits, requestVars
<1>2. QueueInv' /\ queued' = queued
  BY <1>1, QueueKept DEF workerVars
<1>3. Stage[kind] \in Nat /\ Stage[last[e]] \in Nat
  BY Stages
<1>4. ToSet(queued[e]) \subseteq EventKinds
  <2>1. queued[e] \in Seq(EventKinds)
    BY WorkerTypes
  <2>2. \A i \in DOMAIN queued[e] : queued[e][i] \in EventKinds
    BY <2>1
  <2> QED
    BY <2>2 DEF ToSet
<1>5. \A k \in ToSet(queued[e]) \cup unsaid[e] : Stage[k] \in Nat /\ Stage[k] <= Stage[last[e]]
  BY <1>4, Stages DEF Dispatched
<1>6. kind \notin ToSet(queued[e])
  BY <1>3, <1>5
<1>7. kind # "escrow.created"
  BY <1>3, Stages
<1>8. \A k \in ToSet(queued[e]) \cup unsaid[e] \cup {kind} : Stage[k] <= Stage[kind]
  BY <1>3, <1>5
<1>9. ASSUME NEW f \in Escrow
      PROVE  /\ pc'[f] \in Mute => "escrow.created" \notin ToSet(queued'[f])
             /\ "escrow.created" \notin unsaid'[f]
             /\ \A k \in ToSet(queued'[f]) \cup unsaid'[f] : Stage[k] <= Stage[last'[f]]
             /\ \A k \in unsaid'[f] : k \notin ToSet(queued'[f])
             /\ status'[f] \in {"none", "Created"} => last'[f] = "escrow.created"
             /\ last'[f] # "escrow.created" => "Payer" \in people'[f]
  <2>1. CASE f # e
    BY <1>1, <1>2, <2>1 DEF Dispatched
  <2>2. CASE f = e
    BY <1>1, <1>2, <1>6, <1>7, <1>8, <2>2 DEF Dispatched
  <2> QED
    BY <2>1, <2>2
<1> QED
  BY <1>2, <1>9 DEF Dispatched

LEMMA LifeHeard ==
  ASSUME MailInv, NEW e \in Escrow, Funded(e) \/ Happens(e)
  PROVE  QueueInv' /\ Dispatched'
<1> USE DEF MailInv, RowsInv, TypeInv, TypeOK
<1>1. CASE Funded(e)
  <2>1. /\ status[e] = "Created" /\ status' = [status EXCEPT ![e] = "Held"]
        /\ "Payer" \in people[e] /\ Commits(e, "escrow.funded")
    BY <1>1 DEF Funded
  <2>2. last[e] = "escrow.created" /\ "escrow.funded" \in EventKinds
    BY <2>1 DEF Dispatched, EventKinds
  <2>3. Stage[last[e]] < Stage["escrow.funded"]
    BY <2>2 DEF Stage, EventKinds
  <2>4. \A f \in Escrow : status'[f] \in {"none", "Created"} =>
          status[f] \in {"none", "Created"} /\ f # e
    BY <2>1
  <2> QED
    BY <2>1, <2>2, <2>3, <2>4, CommitsHeard
<1>2. CASE Happens(e)
  <2>1. PICK kind \in Kinds : Follows(last[e], kind) /\ Commits(e, kind)
    BY <1>2 DEF Happens
  <2>2. status' = status
    BY <1>2 DEF Happens
  <2>3. kind \in EventKinds /\ last[e] # "escrow.created"
    BY <2>1 DEF Follows, EventKinds
  <2>4. Stage[last[e]] < Stage[kind]
    BY <2>1 DEF Follows, Stage, EventKinds
  <2>5. "Payer" \in people[e] /\ status[e] \notin {"none", "Created"}
    BY <2>3 DEF Dispatched
  <2> QED
    BY <2>1, <2>2, <2>3, <2>4, <2>5, CommitsHeard
<1> QED
  BY <1>1, <1>2

LEMMA ProcessHeard ==
  ASSUME MailInv, Crash \/ Flush \/ NotificationsStep
  PROVE  QueueInv' /\ Dispatched'
<1> USE DEF MailInv, RowsInv
<1>1. /\ UNCHANGED <<last, status>>
      /\ NotificationsNext \/ NotificationsCrash \/ NotificationsFlush
      /\ \A e \in Escrow : /\ unsaid'[e] \subseteq unsaid[e]
                           /\ pc'[e] = pc[e] \/ pc'[e] = "died"
  BY DEF Crash, Flush, NotificationsStep, requestVars, escrowVars
<1>2. QueueInv' /\ UNCHANGED <<people, queued>>
  BY <1>1, WorkerQueue
<1>3. \A e \in Escrow : pc'[e] \in Mute => pc[e] \in Mute
  BY <1>1 DEF Mute, BeforeRow
<1> QED
  BY <1>1, <1>2, <1>3, QuietStep

LEMMA StartUpUnheard ==
  ASSUME MailInv, StartUp \/ UNCHANGED vars
  PROVE  QueueInv' /\ Dispatched'
<1>1. UNCHANGED <<workerVars, last, unsaid, pc, status, people>>
  BY DEF StartUp, Restart, Listen, Reschedule, vars, requestVars, escrowVars
<1>2. QueueInv' /\ queued' = queued
  BY <1>1, QueueKept DEF MailInv, workerVars
<1> QED
  BY <1>1, <1>2, QuietStep

LEMMA MailNext ==
  ASSUME MailInv, [Next]_vars
  PROVE  MailInv'
<1>1. RowsInv'
  BY RowsNext DEF MailInv
<1>2. QueueInv' /\ Dispatched'
  BY UnheardSteps, InsertUnheard, AnnounceHeard, DispatchHeard, LifeHeard, ProcessHeard,
     StartUpUnheard
     DEF Next, RequestGoesOn
<1> QED
  BY <1>1, <1>2 DEF MailInv

\* Of any number of escrows, however often the process dies, a send fails or the queue
\* is emptied: a mail comes after one of a notice that was queued later only if its own
\* notice was found stalled, the payee is told after the payer even then, and nobody
\* twice, but of a notice that was found stalled.
THEOREM MailsOrdered == Spec => []MailsInOrder
<1>1. ASSUME MailInv
      PROVE  MailsInOrder
  <2> USE DEF MailInv, RowsInv
  <2> SUFFICES ASSUME NEW e \in Escrow, NEW j \in DOMAIN mail[e]
               PROVE  LET m == mail[e][j]
                          foundStalled == [of |-> e, kind |-> m.kind] \in again IN
                      /\ \A i \in 1 .. j :
                           QueuedAfter(e, m.kind, mail[e][i].kind) => foundStalled
                      /\ m.kind \in {"escrow.funded", "escrow.disputed"} /\ m.to = "Payee" =>
                           \E i \in 1 .. j : mail[e][i] = [m EXCEPT !.to = "Payer"]
                      /\ Cardinality(Told(e, m)) <= IF foundStalled THEN 2 ELSE 1
    BY <1>1 DEF MailsInOrder
  <2> DEFINE m == mail[e][j]
             n == [of |-> e, kind |-> m.kind]
             total == Times(n, m.to)
  <2>1. /\ DOMAIN mail[e] = 1 .. Len(mail[e]) /\ Len(mail[e]) \in Nat
        /\ m.kind \in EventKinds /\ m.to \in Roles /\ m = [kind |-> m.kind, to |-> m.to]
    BY <1>1, MailTypes
  <2>2. n \in Notices /\ n.of = e /\ n.kind = m.kind
    BY <2>1 DEF Notices
  <2>3. \A i \in 1 .. j : QueuedAfter(e, m.kind, mail[e][i].kind) => n \in again
    BY <1>1 DEF QueueInv, Sorted
  <2>4. m.kind \in {"escrow.funded", "escrow.disputed"} /\ m.to = "Payee" =>
          \E i \in 1 .. j : mail[e][i] = [m EXCEPT !.to = "Payer"]
    <3>1. [m EXCEPT !.to = "Payer"] = [kind |-> m.kind, to |-> "Payer"]
      BY <2>1
    <3> QED
      BY <1>1, <3>1 DEF QueueInv, PayerFirst, BothHear
  <2>5. total = Cardinality(Told(e, m)) /\ total \in Nat
    <3>1. Told(n.of, [kind |-> n.kind, to |-> m.to]) = Told(e, m)
      BY <2>1, <2>2
    <3> QED
      BY <1>1, <2>1, <3>1, MailTypes DEF Times
  <2>6. total <= (IF n \in again THEN 1 ELSE 0) + (IF Owed(n, m.to) THEN 0 ELSE 1)
    BY <1>1, <2>1, <2>2 DEF QueueInv, NotTwice
  <2> HIDE DEF total, m
  <2>7. total <= IF n \in again THEN 2 ELSE 1
    BY <2>5, <2>6
  <2> QED
    BY <2>3, <2>4, <2>5, <2>7 DEF m
<1> QED
  BY <1>1, MailInit, MailNext, PTL DEF Spec
=============================================================================
