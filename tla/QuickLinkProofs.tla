-------------------------- MODULE QuickLinkProofs --------------------------
(***************************************************************************)
(* Theorems about QuickLink, for any sets of requests and addresses, any   *)
(* rate limit and either provider.                                         *)
(***************************************************************************)
EXTENDS QuickLink, FiniteSetTheorems, TLAPS

LEMMA TypeInit == Init => TypeOK
<1> SUFFICES ASSUME Init PROVE TypeOK
  OBVIOUS
<1>1. 0 \in 0..JoinRateLimit
  BY QuickLinkAssumption
<1> QED
  BY <1>1 DEF Init, TypeOK, PC, AskPC

LEMMA TypeConfirm ==
  ASSUME TypeOK, NEW c \in Confirms, ConfirmNext(c)
  PROVE  TypeOK'
BY DEF ConfirmNext, ConfirmRead, ConfirmTake, ConfirmCreate, ConfirmSchedule,
       Step, TypeOK, PC, Actors, linkVars, askVars, equipVars

LEMMA TypeAsk ==
  ASSUME TypeOK, NEW q \in Asks, AskNext(q)
  PROVE  TypeOK'
<1> USE DEF TypeOK, AskStep, AskPC, linkVars, equipVars
<1>1. CASE AskCheck(q)
  BY <1>1 DEF AskCheck
<1>2. CASE AskCount(q)
  <2>1. mail[q] \in Emails
    OBVIOUS
  <2>2. rate' \in [Emails -> 0..JoinRateLimit]
    BY <1>2, <2>1, QuickLinkAssumption DEF AskCount, UnderLimit
  <2>3. ask' \in [Asks -> AskPC]
    BY <1>2 DEF AskCount
  <2> QED
    BY <1>2, <2>2, <2>3 DEF AskCount
<1>3. CASE AskSend(q)
  BY <1>3 DEF AskSend
<1>4. CASE AskCrash(q)
  BY <1>4 DEF AskCrash
<1> QED
  BY <1>1, <1>2, <1>3, <1>4 DEF AskNext

LEMMA TypeJoin ==
  ASSUME TypeOK, NEW j \in Joins, JoinNext(j)
  PROVE  TypeOK'
<1> USE DEF TypeOK, Step, PC, linkVars, askVars, equipVars
<1>1. CASE VerifyLoad(j)
  BY <1>1 DEF VerifyLoad
<1>2. CASE VerifyGet(j)
  BY <1>2 DEF VerifyGet
<1>3. CASE VerifyDel(j)
  BY <1>3 DEF VerifyDel
<1>4. CASE JoinRead(j)
  BY <1>4 DEF JoinRead, Members
<1>5. CASE JoinWithoutAccount(j)
  BY <1>5 DEF JoinWithoutAccount
<1>6. CASE JoinCreate(j)
  BY <1>6 DEF JoinCreate, RecipientRole, Roles, Actors
<1> QED
  BY <1>1, <1>2, <1>3, <1>4, <1>5, <1>6 DEF JoinNext

LEMMA TypeEquip ==
  ASSUME TypeOK, NEW a \in Actors, EquipNext(a) \/ RequestCrash(a)
  PROVE  TypeOK'
BY DEF EquipNext, IssueToken, WithToken, AccountCreate, AccountMissing,
       AccountSetup, AccountSetupError, AfterSetupError, AccountStore,
       RequestCrash, Step, TypeOK, PC, linkVars, askVars, equipVars

LEMMA TypeRest ==
  ASSUME TypeOK,
         \/ InitiateQuick \/ IntentExpires \/ LinkExpires \/ LinkCloses
         \/ \E e \in Emails : RateWindowEnds(e) \/ CodeExpires(e)
  PROVE  TypeOK'
<1>1. 0 \in 0..JoinRateLimit
  BY QuickLinkAssumption
<1> QED
  BY <1>1
     DEF InitiateQuick, IntentExpires, LinkExpires, LinkCloses, RateWindowEnds,
         CodeExpires, TypeOK, linkVars, askVars, equipVars

LEMMA TypeStep == TypeOK /\ [Next]_vars => TypeOK'
<1> SUFFICES ASSUME TypeOK, [Next]_vars PROVE TypeOK'
  OBVIOUS
<1>1. CASE UNCHANGED vars
  BY <1>1 DEF TypeOK, vars
<1> QED
  BY <1>1, TypeConfirm, TypeAsk, TypeJoin, TypeEquip, TypeRest DEF Next

\* Type correctness; in particular the rate limit holds for every address.
THEOREM TypeCorrect == Spec => []TypeOK
BY TypeInit, TypeStep, PTL DEF Spec

-----------------------------------------------------------------------------
(* What each group of actions leaves alone.                                 *)

\* The request part of a step: one request moves, or none does.
LEMMA OneMoves ==
  ASSUME TypeOK, [Next]_vars
  PROVE  \/ UNCHANGED <<at, role, saw, presents, equipVars>>
         \/ \E c \in Confirms : ConfirmNext(c)
         \/ \E j \in Joins : JoinNext(j)
         \/ \E a \in Actors : EquipNext(a) \/ RequestCrash(a)
BY DEF Next, vars, equipVars, AskNext, AskCheck, AskCount, AskSend, AskCrash,
       InitiateQuick, IntentExpires, LinkExpires, LinkCloses, RateWindowEnds,
       CodeExpires

-----------------------------------------------------------------------------
(* One escrow per intent.                                                   *)

\* A confirmation has a claim from the DEL that answered 1 to its escrow.
Claims(c) == at[c] = "taken" \/ role[c] # "none"

\* A claim takes the intent out of Redis for good, so there is one.
IntentInv ==
  /\ \A c \in Confirms : Claims(c) => intent = "gone"
  /\ \A c, d \in Confirms : Claims(c) /\ Claims(d) => c = d

LEMMA IntentInit == Init => IntentInv
BY DEF Init, IntentInv, Claims, Actors

\* A claim is made by ConfirmTake, on a stored intent, and nowhere else.
LEMMA ClaimsStep ==
  ASSUME TypeOK, [Next]_vars, NEW c \in Confirms, Claims(c)'
  PROVE  \/ Claims(c)
         \/ /\ intent = "stored" /\ intent' = "gone"
            /\ \A d \in Confirms : d # c => (Claims(d)' <=> Claims(d))
<1> USE DEF Claims, TypeOK, Step, linkVars
<1>1. CASE UNCHANGED <<at, role, saw, presents, equipVars>>
  BY <1>1
<1>2. ASSUME NEW d \in Confirms, ConfirmNext(d)
      PROVE  \/ Claims(c)
             \/ /\ intent = "stored" /\ intent' = "gone"
                /\ \A e \in Confirms : e # c => (Claims(e)' <=> Claims(e))
  <2>1. CASE ConfirmRead(d)
    BY <2>1 DEF ConfirmRead, Actors
  <2>2. CASE ConfirmTake(d)
    BY <2>2 DEF ConfirmTake, IntentTaken, Actors
  <2>3. CASE ConfirmCreate(d)
    BY <2>3 DEF ConfirmCreate, Actors
  <2>4. CASE ConfirmSchedule(d)
    BY <2>4 DEF ConfirmSchedule, Actors
  <2> QED
    BY <1>2, <2>1, <2>2, <2>3, <2>4 DEF ConfirmNext
<1>3. ASSUME NEW j \in Joins, JoinNext(j) PROVE Claims(c)
  <2>1. c # j /\ c \in Actors
    BY QuickLinkAssumption DEF Actors
  <2> QED
    BY <1>3, <2>1 DEF JoinNext, VerifyLoad, VerifyGet, VerifyDel, JoinRead,
                      JoinWithoutAccount, JoinCreate
<1>4. ASSUME NEW a \in Actors, EquipNext(a) \/ RequestCrash(a) PROVE Claims(c)
  BY <1>4 DEF EquipNext, IssueToken, AccountCreate, AccountMissing,
              AccountSetup, AccountSetupError, AfterSetupError, AccountStore,
              RequestCrash, Actors
<1> QED
  BY <1>1, <1>2, <1>3, <1>4, OneMoves

LEMMA IntentStep == TypeOK /\ IntentInv /\ [Next]_vars => IntentInv'
<1> SUFFICES ASSUME TypeOK, IntentInv, [Next]_vars PROVE IntentInv'
  OBVIOUS
<1>1. intent = "gone" => intent' = "gone"
  BY DEF Next, vars, linkVars, InitiateQuick, IntentExpires, LinkExpires,
         LinkCloses, ConfirmNext, ConfirmRead, ConfirmTake, ConfirmCreate,
         ConfirmSchedule, AskNext, AskCheck, AskCount, AskSend, AskCrash,
         RateWindowEnds, CodeExpires, JoinNext, VerifyLoad, VerifyGet,
         VerifyDel,
         JoinRead, JoinWithoutAccount, JoinCreate, EquipNext, IssueToken,
         AccountCreate, AccountMissing, AccountSetup, AccountSetupError,
         AccountStore, RequestCrash
<1>2. ASSUME NEW c \in Confirms, Claims(c)' PROVE intent' = "gone"
  BY <1>1, <1>2, ClaimsStep DEF IntentInv
<1>3. ASSUME NEW c \in Confirms, NEW d \in Confirms,
             Claims(c)', Claims(d)', c # d
      PROVE  FALSE
  <2>1. CASE Claims(c) /\ Claims(d)
    BY <1>3, <2>1 DEF IntentInv
  <2>2. CASE ~Claims(c)
    BY <1>3, <2>2, ClaimsStep DEF IntentInv
  <2>3. CASE ~Claims(d)
    BY <1>3, <2>3, ClaimsStep DEF IntentInv
  <2> QED
    BY <2>1, <2>2, <2>3
<1> QED
  BY <1>2, <1>3 DEF IntentInv

\* However often an intent is confirmed, it makes one escrow.
THEOREM OneEscrow == Spec => []OneEscrowPerIntent
<1>1. IntentInv => OneEscrowPerIntent
  <2> SUFFICES ASSUME IntentInv PROVE OneEscrowPerIntent
    OBVIOUS
  <2>1. PICK S : S = Confirms \cap Members
    OBVIOUS
  <2>2. \A c, d \in S : c = d
    BY <2>1 DEF IntentInv, Claims, Members
  <2>3. Cardinality(S) <= 1
    <3>1. CASE S = {}
      <4>1. Cardinality(S) = 0
        BY <3>1, FS_EmptySet, Zenon
      <4> QED
        BY <4>1
    <3>2. CASE S # {}
      <4>1. PICK c : S = {c}
        BY <2>2, <3>2
      <4>2. Cardinality(S) = 1
        BY <4>1, FS_Singleton, Zenon
      <4> QED
        BY <4>2
    <3> QED
      BY <3>1, <3>2
  <2> QED
    BY <2>1, <2>3 DEF OneEscrowPerIntent
<1> QED
  BY <1>1, TypeInit, TypeStep, IntentInit, IntentStep, PTL DEF Spec

-----------------------------------------------------------------------------
(* The seats of the link.                                                   *)

BeforeRow == {"idle", "loaded", "read", "taken", "choosing"}

\* What a join request knows once it has read the participants: the creator is
\* among them and nobody holds the other role.
Chosen(j) == at[j] = "choosing" \/ role[j] # "none"

Creators == \A c \in Confirms : role[c] \in {"none", creatorRole}

LinkHasCreator == link # "none" => \E c \in Confirms : role[c] # "none"

Joined(j) ==
  /\ at[j] # "idle" => link # "none"
  /\ at[j] \in BeforeRow => role[j] = "none"
  /\ Chosen(j) => saw[j] # {} /\ \A a \in saw[j] : role[a] = creatorRole
  /\ role[j] # creatorRole

SeatInv == Creators /\ LinkHasCreator /\ \A j \in Joins : Joined(j)

LEMMA SeatInit == Init => SeatInv
BY DEF Init, SeatInv, Creators, LinkHasCreator, Joined, Chosen, Actors, Roles

\* The creator's role stays, and a link comes from ConfirmCreate only.
LEMMA LinkStep ==
  ASSUME [Next]_vars
  PROVE  /\ creatorRole' = creatorRole
         /\ link # "none" => link' # "none"
         /\ \/ link = "none" => link' = "none"
            \/ \E c \in Confirms : ConfirmCreate(c)
BY DEF Next, vars, linkVars, InitiateQuick, IntentExpires, LinkExpires,
       LinkCloses, ConfirmNext, ConfirmRead, ConfirmTake, ConfirmCreate,
       ConfirmSchedule, AskNext, AskCheck, AskCount, AskSend, AskCrash,
       RateWindowEnds, CodeExpires, JoinNext, VerifyLoad, VerifyGet, VerifyDel,
       JoinRead, JoinWithoutAccount, JoinCreate, EquipNext, IssueToken,
       AccountCreate, AccountMissing, AccountSetup, AccountSetupError,
       AccountStore, RequestCrash

\* A row is created by ConfirmCreate, with the creator's role, or by JoinCreate;
\* what a join request saw is set by JoinRead.
LEMMA RoleStep ==
  ASSUME TypeOK, SeatInv, [Next]_vars
  PROVE  \/ role' = role
         \/ \E c \in Confirms : role' = [role EXCEPT ![c] = creatorRole]
         \/ \E j \in Joins : JoinCreate(j)
BY DEF Next, vars, linkVars, InitiateQuick, IntentExpires, LinkExpires,
       LinkCloses, ConfirmNext, ConfirmRead, ConfirmTake, ConfirmCreate,
       ConfirmSchedule, AskNext, AskCheck, AskCount, AskSend, AskCrash,
       RateWindowEnds, CodeExpires, JoinNext, VerifyLoad, VerifyGet, VerifyDel,
       JoinRead, JoinWithoutAccount, EquipNext, IssueToken,
       AccountCreate, AccountMissing, AccountSetup, AccountSetupError,
       AccountStore, RequestCrash

\* An escrow that is not full, read by a join request, has the creator's role.
LEMMA NotFull ==
  ASSUME TypeOK, SeatInv, link # "none", ~Full
  PROVE  Members # {} /\ \A a \in Members : role[a] = creatorRole
<1>1. PICK c \in Confirms : role[c] = creatorRole /\ role[c] # "none"
  BY DEF SeatInv, Creators, LinkHasCreator
<1>2. c \in Members
  BY <1>1 DEF Members, Actors
<1>3. ASSUME NEW a \in Members, role[a] # creatorRole PROVE FALSE
  <2>1. role[a] \in Roles /\ role[c] \in Roles
    BY <1>1, <1>3 DEF TypeOK, Members, Actors
  <2>2. {role[a], role[c]} = Roles
    BY <1>1, <1>3, <2>1 DEF Roles
  <2>3. \A m \in Members : role[m] \in Roles
    BY DEF TypeOK, Members
  <2> QED
    BY <1>2, <1>3, <2>2, <2>3 DEF Full, RolesOf
<1> QED
  BY <1>2, <1>3

LEMMA SeatStep == TypeOK /\ SeatInv /\ [Next]_vars => SeatInv'
<1> SUFFICES ASSUME TypeOK, SeatInv, [Next]_vars PROVE SeatInv'
  OBVIOUS
<1>1. TypeOK'
  BY TypeStep
<1>2. Creators'
  <2>1. CASE \E j \in Joins : JoinCreate(j)
    BY <2>1, LinkStep, QuickLinkAssumption
       DEF JoinCreate, SeatInv, Creators, TypeOK, Actors
  <2> QED
    BY <2>1, LinkStep, RoleStep DEF SeatInv, Creators, TypeOK, Actors
<1>3. LinkHasCreator'
  <2>1. CASE \E c \in Confirms : ConfirmCreate(c)
    BY <2>1 DEF ConfirmCreate, TypeOK, LinkHasCreator, Actors, Roles
  <2>2. CASE link = "none" => link' = "none"
    <3>1. SUFFICES ASSUME NEW c \in Confirms, role[c] # "none"
                   PROVE  role'[c] # "none"
      BY <2>2 DEF SeatInv, LinkHasCreator
    <3>2. CASE \E j \in Joins : JoinCreate(j)
      BY <3>1, <3>2, QuickLinkAssumption DEF JoinCreate, TypeOK, Actors
    <3> QED
      BY <3>1, <3>2, RoleStep DEF TypeOK, Actors, Roles
  <2> QED
    BY <2>1, <2>2, LinkStep
<1>4. \A a \in Actors : role[a] = creatorRole => role'[a] = creatorRole
  <2>1. CASE \E k \in Joins : JoinCreate(k)
    BY <2>1 DEF JoinCreate, Step, SeatInv, Joined, BeforeRow, TypeOK, Actors
  <2> QED
    BY <2>1, RoleStep DEF TypeOK
<1>5. \A j \in Joins : saw[j] \subseteq Actors
  BY DEF TypeOK
<1>6. ASSUME NEW j \in Joins PROVE Joined(j)'
  <2>1. j \in Actors /\ j \notin Confirms
    BY QuickLinkAssumption DEF Actors
  <2>2. Joined(j)
    BY DEF SeatInv
  <2>3. (at[j] # "idle" => link # "none")'
    BY <2>1, <2>2, LinkStep, OneMoves
       DEF Joined, JoinNext, VerifyLoad, VerifyGet, VerifyDel, JoinRead,
           JoinWithoutAccount, JoinCreate, ConfirmNext, ConfirmRead,
           ConfirmTake, ConfirmCreate, ConfirmSchedule, EquipNext, IssueToken,
           AccountCreate, AccountMissing, AccountSetup, AccountSetupError,
           AfterSetupError, AccountStore, RequestCrash, Step, TypeOK, Actors
  <2>4. CASE JoinRead(j)
    <3>1. link # "none" /\ role[j] = "none" /\ role[j] # creatorRole
      BY <2>2, <2>4 DEF JoinRead, Step, Joined, BeforeRow
    <3>2. role' = role /\ creatorRole' = creatorRole /\ saw'[j] = Members
      BY <2>4 DEF JoinRead, linkVars, TypeOK
    <3>3. CASE Full
      <4>1. at'[j] = "refused"
        BY <2>1, <2>4, <3>3 DEF JoinRead, Step, TypeOK
      <4> QED
        BY <2>3, <3>1, <3>2, <4>1 DEF Joined, Chosen, BeforeRow
    <3>4. CASE ~Full
      BY <2>3, <3>1, <3>2, <3>4, NotFull DEF Joined, Chosen
    <3> QED
      BY <3>3, <3>4
  <2>5. CASE JoinCreate(j)
    <3>1. saw' = saw /\ creatorRole' = creatorRole /\ at'[j] = "member"
      BY <2>1, <2>5 DEF JoinCreate, Step, TypeOK, linkVars
    <3>2. Chosen(j) /\ at[j] = "choosing"
      BY <2>5 DEF JoinCreate, Step, Chosen
    <3>3. RolesOf(saw[j]) = {creatorRole}
      BY <2>2, <3>2 DEF Joined, RolesOf
    <3>4. role'[j] = RecipientRole({creatorRole})
      BY <2>1, <2>5, <3>3 DEF JoinCreate, TypeOK
    <3>5. creatorRole \in Roles
      BY DEF TypeOK
    <3>6. role'[j] # creatorRole
      BY <3>4, <3>5 DEF RecipientRole, Roles
    <3> QED
      BY <1>4, <1>5, <2>2, <2>3, <3>1, <3>2, <3>6 DEF Joined, BeforeRow
  <2>6. CASE ~JoinRead(j) /\ ~JoinCreate(j)
    <3>1. role'[j] = role[j] /\ saw'[j] = saw[j]
      BY <2>1, <2>6, OneMoves
         DEF JoinNext, VerifyLoad, VerifyGet, VerifyDel, JoinRead,
             JoinWithoutAccount, JoinCreate, ConfirmNext, ConfirmRead,
             ConfirmTake, ConfirmCreate, ConfirmSchedule, EquipNext, IssueToken,
             AccountCreate, AccountMissing, AccountSetup, AccountSetupError,
             AccountStore, RequestCrash, TypeOK, Actors
    <3>2. /\ at'[j] \in BeforeRow => at[j] \in BeforeRow
          /\ at'[j] = "choosing" => at[j] = "choosing"
      BY <2>1, <2>6, OneMoves
         DEF JoinNext, VerifyLoad, VerifyGet, VerifyDel, JoinRead,
             JoinWithoutAccount, JoinCreate, ConfirmNext, ConfirmRead,
             ConfirmTake, ConfirmCreate, ConfirmSchedule, EquipNext,
             IssueToken, AccountCreate,
             AccountMissing, AccountSetup, AccountSetupError, AfterSetupError,
             AccountStore, RequestCrash, Step, BeforeRow, TypeOK, Actors
    <3> QED
      BY <1>4, <1>5, <2>2, <2>3, <3>1, <3>2, LinkStep DEF Joined, Chosen
  <2> QED
    BY <2>4, <2>5, <2>6
<1> QED
  BY <1>2, <1>3, <1>6 DEF SeatInv

\* Whoever joins, the seat the creator holds is not given a second time.
THEOREM CreatorsSeat == Spec => []CreatorsRoleIsNotShared
<1>1. SeatInv => CreatorsRoleIsNotShared
  BY DEF SeatInv, Creators, Joined, CreatorsRoleIsNotShared, Members, Actors
<1> QED
  BY <1>1, TypeInit, TypeStep, SeatInit, SeatStep, PTL DEF Spec

\* A second joiner is admitted only if it read the participants before the first
\* one's row was committed.
THEOREM ExtraJoiners == Spec => []ExtraJoinersOverlapped
<1>1. SeatInv => ExtraJoinersOverlapped
  BY DEF SeatInv, Joined, Chosen, ExtraJoinersOverlapped, Members
<1> QED
  BY <1>1, TypeInit, TypeStep, SeatInit, SeatStep, PTL DEF Spec

-----------------------------------------------------------------------------
(* What a member leaves with.                                               *)

\* Before its request has set its payout account up, a member has none; it is
\* stored next, before the request answers.
Equipped(a) ==
  /\ at[a] \notin {"accountReady", "done", "dead"} => a \notin payable
  /\ at[a] \in {"accountCreated", "accountReady", "unequipped"}
       => role[a] = "Payee"
  /\ at[a] = "accountReady" => a \in payable
  /\ at[a] = "done" => \/ role[a] = "Payer" /\ a \in token
                       \/ role[a] = "Payee" /\ a \in account

EquipInv == AccountsAreComplete /\ \A a \in Actors : Equipped(a)

LEMMA EquipInit == Init => EquipInv
BY DEF Init, EquipInv, Equipped, AccountsAreComplete

LEMMA EquipStep == TypeOK /\ EquipInv /\ [Next]_vars => EquipInv'
<1> SUFFICES ASSUME TypeOK, EquipInv, [Next]_vars PROVE EquipInv'
  OBVIOUS
<1> USE DEF EquipInv, Equipped, AccountsAreComplete, TypeOK, Actors, Step,
            linkVars, equipVars
<1>1. CASE UNCHANGED <<at, role, saw, presents, equipVars>>
  BY <1>1
<1>2. ASSUME NEW c \in Confirms, ConfirmNext(c) PROVE EquipInv'
  BY <1>2 DEF ConfirmNext, ConfirmRead, ConfirmTake, ConfirmCreate,
              ConfirmSchedule
<1>3. ASSUME NEW j \in Joins, JoinNext(j) PROVE EquipInv'
  BY <1>3 DEF JoinNext, VerifyLoad, VerifyGet, VerifyDel, JoinRead,
              JoinWithoutAccount, JoinCreate
<1>4. ASSUME NEW a \in Actors, EquipNext(a) \/ RequestCrash(a) PROVE EquipInv'
  BY <1>4 DEF EquipNext, IssueToken, WithToken, AccountCreate, AccountMissing,
              AccountSetup, AccountSetupError, AfterSetupError, AccountStore,
              RequestCrash
<1> QED
  BY <1>1, <1>2, <1>3, <1>4, OneMoves

\* No payout account is put on record half set up.
THEOREM CompleteAccounts == Spec => []AccountsAreComplete
<1>1. EquipInv => AccountsAreComplete
  BY DEF EquipInv
<1> QED
  BY <1>1, TypeInit, TypeStep, EquipInit, EquipStep, PTL DEF Spec

\* Whoever got an answer has its fund token or, if it is a payee, has its
\* account on record exactly if the provider confirmed the destination.
THEOREM EquippedAnswers == Spec => []AnsweredIsEquipped
<1>1. TypeOK /\ EquipInv => AnsweredIsEquipped
  BY DEF EquipInv, Equipped, AnsweredIsEquipped, Answered, Members,
         AccountsAreComplete, TypeOK, Roles
<1> QED
  BY <1>1, TypeInit, TypeStep, EquipInit, EquipStep, PTL DEF Spec

-----------------------------------------------------------------------------
(* Spent codes.                                                             *)

\* A code that has been consumed is stored nowhere, and it was mailed, so that
\* it is not stored again.
Spent(j) ==
  /\ at[j] # "idle" => presents[j] \in Asks /\ ask[presents[j]] = "sent"
  /\ at[j] \in AfterCode => code[mail[presents[j]]] # presents[j]

CodeInv == \A j \in Joins : Spent(j)

LEMMA CodeInit == Init => CodeInv
BY DEF Init, CodeInv, Spent, AfterCode, Actors

LEMMA CodeStep == TypeOK /\ CodeInv /\ [Next]_vars => CodeInv'
<1> SUFFICES ASSUME TypeOK, CodeInv, [Next]_vars, NEW j \in Joins
             PROVE  Spent(j)'
  BY DEF CodeInv
<1>1. Spent(j) /\ j \in Actors /\ j \notin Confirms
  BY QuickLinkAssumption DEF CodeInv, Actors
<1> USE DEF Spent, AfterCode, PC, TypeOK, Step, linkVars, askVars, equipVars
<1>2. CASE UNCHANGED vars
  BY <1>1, <1>2 DEF vars
<1>3. CASE InitiateQuick \/ IntentExpires \/ LinkExpires \/ LinkCloses
  BY <1>1, <1>3 DEF InitiateQuick, IntentExpires, LinkExpires, LinkCloses
<1>4. ASSUME NEW c \in Confirms, ConfirmNext(c) PROVE Spent(j)'
  BY <1>1, <1>4 DEF ConfirmNext, ConfirmRead, ConfirmTake, ConfirmCreate,
                    ConfirmSchedule
<1>5. ASSUME NEW q \in Asks, AskNext(q) PROVE Spent(j)'
  BY <1>1, <1>5 DEF AskNext, AskCheck, AskCount, AskSend, AskCrash, AskStep
<1>6. ASSUME NEW e \in Emails, RateWindowEnds(e) \/ CodeExpires(e)
      PROVE  Spent(j)'
  BY <1>1, <1>6, QuickLinkAssumption DEF RateWindowEnds, CodeExpires
<1>7. ASSUME NEW k \in Joins, JoinNext(k) PROVE Spent(j)'
  BY <1>1, <1>7, QuickLinkAssumption
     DEF JoinNext, VerifyLoad, VerifyGet, VerifyDel, JoinRead,
         JoinWithoutAccount, JoinCreate, CodeInv
<1>8. ASSUME NEW a \in Actors, EquipNext(a) \/ RequestCrash(a) PROVE Spent(j)'
  BY <1>1, <1>8 DEF EquipNext, IssueToken, AccountCreate, AccountMissing,
                    AccountSetup, AccountSetupError, AfterSetupError,
                    AccountStore, RequestCrash
<1> QED
  BY <1>2, <1>3, <1>4, <1>5, <1>6, <1>7, <1>8 DEF Next

\* A code that a request has consumed is accepted from nobody afterwards.
THEOREM SpentCodes == Spec => SpentCodeAdmitsNobody
<1> DEFINE Admits == \A j, k \in Joins :
             at[j] = "loaded" /\ at'[j] = "read" /\ presents[k] = presents[j]
               => at[k] \notin AfterCode
<1>1. TypeOK /\ CodeInv /\ [Next]_vars => [Admits]_vars
  <2> SUFFICES ASSUME TypeOK, CodeInv, [Next]_vars, NEW j \in Joins,
                      NEW k \in Joins, at[j] = "loaded", at'[j] = "read",
                      presents[k] = presents[j]
               PROVE  at[k] \notin AfterCode
    OBVIOUS
  <2>1. j \in Actors /\ j \notin Confirms
    BY QuickLinkAssumption DEF Actors
  <2>2. VerifyGet(j) /\ CodeMatches(j)
    BY <2>1, OneMoves
       DEF JoinNext, VerifyLoad, VerifyGet, VerifyDel, JoinRead,
           JoinWithoutAccount, JoinCreate, ConfirmNext, ConfirmRead,
           ConfirmTake, ConfirmCreate, ConfirmSchedule, EquipNext, IssueToken,
           AccountCreate, AccountMissing, AccountSetup, AccountSetupError,
           AfterSetupError, AccountStore, RequestCrash, Step, TypeOK, Actors
  <2> QED
    BY <2>2 DEF CodeMatches, CodeInv, Spent
<1>2. Spec => []TypeOK /\ []CodeInv
  BY TypeInit, TypeStep, CodeInit, CodeStep, PTL DEF Spec
<1> QED
  BY <1>1, <1>2, PTL DEF Spec, SpentCodeAdmitsNobody
=============================================================================
