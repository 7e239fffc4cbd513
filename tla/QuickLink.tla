----------------------------- MODULE QuickLink -----------------------------
(***************************************************************************)
(* A quick link from its intent to its participants: initiateQuick and     *)
(* confirmQuick create the escrow, requestJoinOtp mails a code and         *)
(* verifyJoinAndJoin trades the code for a seat.  A payer leaves with a    *)
(* fund token (module Funding), a payee with a payout account.             *)
(*                                                                         *)
(* Redis keeps the intent, the codes and the rate counters; the rows are   *)
(* in Postgres, whose transactions run under READ COMMITTED.  A request    *)
(* that presents a wrong code, or names an unknown or closed link, is      *)
(* answered without a change and is not an action.  Every other await ends *)
(* an action.  One intent makes one escrow (OneEscrowPerIntent), so the    *)
(* join side has no escrow id.                                             *)
(***************************************************************************)
EXTENDS FiniteSets, Naturals

CONSTANTS
  Confirms,       \* confirmQuick requests that present the intent's code
  Joins,          \* verifyJoinAndJoin requests
  Asks,           \* requestJoinOtp requests, and the codes they mail
  Emails,         \* addresses other than the creator's
  NoCode,         \* no code is stored for an address
  JoinRateLimit,  \* requestJoinOtp requests per address and window: 3
  Provider        \* ACTIVE_PAYMENT_PROVIDER

ASSUME QuickLinkAssumption ==
  /\ Confirms \cap Joins = {}
  /\ NoCode \notin Asks
  /\ JoinRateLimit \in Nat \ {0}
  /\ Provider \in {"bachs", "paystack"}

Actors == Confirms \cup Joins
Roles == {"Payer", "Payee"}

PC ==
  {"idle", "loaded", "read", "taken", "choosing", "created", "member",
   "accountCreated", "accountReady",
   "done",
   "denied",      \* no intent or code, or another request was first
   "refused",     \* both seats are taken, or no payout account was given
   "unequipped",  \* answered, but the payee has no payout account
   "dead"}

Answered == {"done", "unequipped"}

Ended == Answered \cup {"denied", "refused", "dead"}

\* Where a join request is once it has consumed its code.
AfterCode == PC \ {"idle", "loaded", "read", "denied", "dead"}

AskPC == {"idle", "checked", "counted", "sent", "refused", "dead"}

VARIABLES
  intent,       \* the intent in Redis
  creatorRole,  \* the role the intent names
  link,         \* the escrow, as far as joining looks at it
  expiryJob,    \* the delayed escrow.expire job
  at,           \* where each confirm and join request is
  role,         \* the participant row each request created
  saw,          \* the participants each join request read
  presents,     \* the code each join request presents
  ask, mail,    \* where each code request is, and for which address
  rate,         \* code requests counted in the current window
  code,         \* the code stored for each address
  token,        \* members that got a fund token
  payable,      \* members whose payout destination the provider confirmed
  account       \* members whose row names a provider account

linkVars == <<intent, creatorRole, link, expiryJob>>
askVars == <<ask, mail, rate>>
equipVars == <<token, payable, account>>
vars == <<intent, creatorRole, link, expiryJob, at, role, saw, presents, ask,
          mail, rate, code, token, payable, account>>

Init ==
  /\ intent = "none"
  /\ creatorRole \in Roles
  /\ link = "none"
  /\ expiryJob = "absent"
  /\ at = [a \in Actors |-> "idle"]
  /\ role = [a \in Actors |-> "none"]
  /\ saw = [j \in Joins |-> {}]
  /\ presents = [j \in Joins |-> NoCode]
  /\ ask = [q \in Asks |-> "idle"]
  /\ mail \in [Asks -> Emails]
  /\ rate = [e \in Emails |-> 0]
  /\ code = [e \in Emails |-> NoCode]
  /\ token = {}
  /\ payable = {}
  /\ account = {}

Members == {a \in Actors : role[a] # "none"}
RolesOf(members) == {role[a] : a \in members}

Step(a, from, to) ==
  /\ at[a] = from
  /\ at' = [at EXCEPT ![a] = to]

-----------------------------------------------------------------------------
(* Creation: the intent, then its confirmation.                             *)

\* setex of the intent; a mail that fails is only logged.
InitiateQuick ==
  /\ intent = "none"
  /\ intent' = "stored"
  /\ UNCHANGED <<creatorRole, link, expiryJob, at, role, saw, presents,
                 askVars, code, equipVars>>

IntentExpires ==
  /\ intent = "stored"
  /\ intent' = "gone"
  /\ UNCHANGED <<creatorRole, link, expiryJob, at, role, saw, presents,
                 askVars, code, equipVars>>

ConfirmRead(c) ==
  /\ intent # "none"
  /\ Step(c, "idle", IF intent = "stored" THEN "read" ELSE "denied")
  /\ UNCHANGED <<linkVars, role, saw, presents, askVars, code, equipVars>>

\* Mutant: the answer of DEL is not looked at.
IntentTakenUnchecked == TRUE

\* DEL answers 0 when another request has claimed the intent.
IntentTaken == intent = "stored"

ConfirmTake(c) ==
  /\ Step(c, "read", IF IntentTaken THEN "taken" ELSE "denied")
  /\ intent' = "gone"
  /\ UNCHANGED <<creatorRole, link, expiryJob, role, saw, presents, askVars,
                 code, equipVars>>

\* The escrow and its creator's row, in one transaction.
ConfirmCreate(c) ==
  /\ Step(c, "taken", "created")
  /\ role' = [role EXCEPT ![c] = creatorRole]
  /\ link' = "open"
  /\ UNCHANGED <<intent, creatorRole, expiryJob, saw, presents, askVars, code,
                 equipVars>>

\* A quick link always has an expiresAt in the future.
ConfirmSchedule(c) ==
  /\ Step(c, "created", "member")
  /\ expiryJob' = "scheduled"
  /\ UNCHANGED <<intent, creatorRole, link, role, saw, presents, askVars, code,
                 equipVars>>

\* expiresAt passes; or the escrow is cancelled, released or refunded.
LinkExpires ==
  /\ link = "open"
  /\ link' = "expired"
  /\ UNCHANGED <<intent, creatorRole, expiryJob, at, role, saw, presents,
                 askVars, code, equipVars>>

LinkCloses ==
  /\ link \in {"open", "expired"}
  /\ link' = "closed"
  /\ UNCHANGED <<intent, creatorRole, expiryJob, at, role, saw, presents,
                 askVars, code, equipVars>>

-----------------------------------------------------------------------------
(* requestJoinOtp.                                                          *)

AskStep(q, from, to) ==
  /\ ask[q] = from
  /\ ask' = [ask EXCEPT ![q] = to]

\* The link is in the answer to the confirmation.
LinkKnown == \E c \in Confirms : at[c] \in Answered

HasJoined(e) == \E j \in Joins \cap Members : mail[presents[j]] = e

AskCheck(q) ==
  /\ LinkKnown
  /\ AskStep(q, "idle",
             IF /\ link = "open"
                /\ RolesOf(Members) # Roles
                /\ ~HasJoined(mail[q])
             THEN "checked" ELSE "refused")
  /\ UNCHANGED <<linkVars, at, role, saw, presents, mail, rate, code,
                 equipVars>>

\* Mutant: one request too many.
UnderLimitOrAtIt(e) == rate[e] <= JoinRateLimit

UnderLimit(e) == rate[e] < JoinRateLimit

\* INCR and EXPIRE: a request over the limit counts too, and renews the window.
\* The counter is kept at the limit, where it decides the same.
AskCount(q) ==
  LET e == mail[q] IN
  /\ AskStep(q, "checked", IF UnderLimit(e) THEN "counted" ELSE "refused")
  /\ rate' = [rate EXCEPT ![e] = IF UnderLimit(e) THEN @ + 1 ELSE @]
  /\ UNCHANGED <<linkVars, at, role, saw, presents, mail, code, equipVars>>

\* createJoinOtp: the new code replaces the one before.
AskSend(q) ==
  /\ AskStep(q, "counted", "sent")
  /\ code' = [code EXCEPT ![mail[q]] = q]
  /\ UNCHANGED <<linkVars, at, role, saw, presents, mail, rate, equipVars>>

AskCrash(q) ==
  /\ ask[q] \in {"checked", "counted"}
  /\ ask' = [ask EXCEPT ![q] = "dead"]
  /\ UNCHANGED <<linkVars, at, role, saw, presents, mail, rate, code,
                 equipVars>>

RateWindowEnds(e) ==
  /\ rate[e] > 0
  /\ rate' = [rate EXCEPT ![e] = 0]
  /\ UNCHANGED <<linkVars, at, role, saw, presents, ask, mail, code, equipVars>>

CodeExpires(e) ==
  /\ code[e] # NoCode
  /\ code' = [code EXCEPT ![e] = NoCode]
  /\ UNCHANGED <<linkVars, at, role, saw, presents, askVars, equipVars>>

-----------------------------------------------------------------------------
(* verifyJoinAndJoin.                                                       *)

\* The escrow is read; its participants are looked at only later.
VerifyLoad(j) ==
  /\ link \in {"open", "expired"}
  /\ Step(j, "idle", "loaded")
  /\ \E q \in Asks : ask[q] = "sent" /\ presents' = [presents EXCEPT ![j] = q]
  /\ UNCHANGED <<linkVars, role, saw, askVars, code, equipVars>>

\* Mutant: the code is compared with what was mailed, not with what is stored.
CodeMailed(j) == TRUE

CodeMatches(j) == code[mail[presents[j]]] = presents[j]

VerifyGet(j) ==
  /\ Step(j, "loaded", IF CodeMatches(j) THEN "read" ELSE "denied")
  /\ UNCHANGED <<linkVars, role, saw, presents, askVars, code, equipVars>>

\* DEL removes whatever code is stored by now, and its answer is not looked at.
VerifyDel(j) ==
  /\ Step(j, "read", "taken")
  /\ code' = [code EXCEPT ![mail[presents[j]]] = NoCode]
  /\ UNCHANGED <<linkVars, role, saw, presents, askVars, equipVars>>

\* Mutant: a full escrow is not noticed.
FullUnchecked == FALSE

Full == RolesOf(Members) = Roles

\* The read inside the transaction: it sees the rows committed so far and takes
\* no lock.
JoinRead(j) ==
  /\ Step(j, "taken", IF Full THEN "refused" ELSE "choosing")
  /\ saw' = [saw EXCEPT ![j] = Members]
  /\ UNCHANGED <<linkVars, role, presents, askVars, code, equipVars>>

\* Mutant: the role that is taken.
TakenRole(seen) == IF "Payer" \in seen THEN "Payer" ELSE "Payee"

RecipientRole(seen) == IF "Payer" \in seen THEN "Payee" ELSE "Payer"

\* A payee must name a payout account that fits the currency.
JoinWithoutAccount(j) ==
  /\ RecipientRole(RolesOf(saw[j])) = "Payee"
  /\ Step(j, "choosing", "refused")
  /\ UNCHANGED <<linkVars, role, saw, presents, askVars, code, equipVars>>

\* The row is created and the transaction commits.
JoinCreate(j) ==
  /\ Step(j, "choosing", "member")
  /\ role' = [role EXCEPT ![j] = RecipientRole(RolesOf(saw[j]))]
  /\ UNCHANGED <<linkVars, saw, presents, askVars, code, equipVars>>

-----------------------------------------------------------------------------
(* What a new member gets: issueActionToken, or initPayeeBachsAccount.      *)

WithToken(a) == token \cup {a}

IssueToken(a) ==
  /\ role[a] = "Payer"
  /\ Step(a, "member", "done")
  /\ token' = WithToken(a)
  /\ UNCHANGED <<linkVars, role, saw, presents, askVars, code, payable, account>>

AccountCreate(a) ==
  /\ role[a] = "Payee" /\ Provider = "bachs"
  /\ Step(a, "member", "accountCreated")
  /\ UNCHANGED <<linkVars, role, saw, presents, askVars, code, equipVars>>

\* Another provider, or createConnectAccount failed: null, and a warning.
AccountMissing(a) ==
  /\ role[a] = "Payee"
  /\ Step(a, "member", "unequipped")
  /\ UNCHANGED <<linkVars, role, saw, presents, askVars, code, equipVars>>

AccountSetup(a) ==
  /\ Step(a, "accountCreated", "accountReady")
  /\ payable' = payable \cup {a}
  /\ UNCHANGED <<linkVars, role, saw, presents, askVars, code, token, account>>

\* An account without a payout destination is left behind, not stored.
AfterSetupError(a) == "unequipped"

AccountSetupError(a) ==
  /\ Step(a, "accountCreated", AfterSetupError(a))
  /\ UNCHANGED <<linkVars, role, saw, presents, askVars, code, equipVars>>

AccountStore(a) ==
  /\ Step(a, "accountReady", "done")
  /\ account' = account \cup {a}
  /\ UNCHANGED <<linkVars, role, saw, presents, askVars, code, token, payable>>

RequestCrash(a) ==
  /\ at[a] \notin Ended \cup {"idle"}
  /\ at' = [at EXCEPT ![a] = "dead"]
  /\ UNCHANGED <<linkVars, role, saw, presents, askVars, code, equipVars>>

-----------------------------------------------------------------------------

ConfirmNext(c) ==
  ConfirmRead(c) \/ ConfirmTake(c) \/ ConfirmCreate(c) \/ ConfirmSchedule(c)

AskNext(q) == AskCheck(q) \/ AskCount(q) \/ AskSend(q) \/ AskCrash(q)

JoinNext(j) ==
  \/ VerifyLoad(j) \/ VerifyGet(j) \/ VerifyDel(j)
  \/ JoinRead(j) \/ JoinWithoutAccount(j) \/ JoinCreate(j)

EquipNext(a) ==
  \/ IssueToken(a) \/ AccountCreate(a) \/ AccountMissing(a) \/ AccountSetup(a)
  \/ AccountSetupError(a) \/ AccountStore(a)

Next ==
  \/ InitiateQuick \/ IntentExpires \/ LinkExpires \/ LinkCloses
  \/ \E c \in Confirms : ConfirmNext(c)
  \/ \E q \in Asks : AskNext(q)
  \/ \E e \in Emails : RateWindowEnds(e) \/ CodeExpires(e)
  \/ \E j \in Joins : JoinNext(j)
  \/ \E a \in Actors : EquipNext(a) \/ RequestCrash(a)

Spec == Init /\ [][Next]_vars
-----------------------------------------------------------------------------
(* Properties.                                                              *)

\* Every variable keeps to its values; in particular an address is never mailed
\* more codes in a window than the limit.
TypeOK ==
  /\ intent \in {"none", "stored", "gone"}
  /\ creatorRole \in Roles
  /\ link \in {"none", "open", "expired", "closed"}
  /\ expiryJob \in {"absent", "scheduled"}
  /\ at \in [Actors -> PC]
  /\ role \in [Actors -> Roles \cup {"none"}]
  /\ saw \in [Joins -> SUBSET Actors]
  /\ presents \in [Joins -> Asks \cup {NoCode}]
  /\ ask \in [Asks -> AskPC]
  /\ mail \in [Asks -> Emails]
  /\ rate \in [Emails -> 0..JoinRateLimit]
  /\ code \in [Emails -> Asks \cup {NoCode}]
  /\ token \subseteq Actors
  /\ payable \subseteq Actors
  /\ account \subseteq Actors

\* One intent makes one escrow, however often its code is sent again and
\* whichever requests overlap or die: DEL decides, not GET.
OneEscrowPerIntent == Cardinality(Confirms \cap Members) <= 1

\* Whoever joins, in whatever race, gets the seat the creator left: the creator
\* never shares a role, and a link whose creator pays has one payer.
CreatorsRoleIsNotShared ==
  \A c \in Confirms \cap Members, j \in Joins \cap Members : role[j] # role[c]

\* Two joiners of one escrow had to overlap: each read the participants before
\* the other's row was committed.  A joiner that comes later is turned away,
\* whatever codes are still out and whether or not the first one used its own.
ExtraJoinersOverlapped ==
  \A j, k \in Joins \cap Members : j \notin saw[k]

\* A code that some request has consumed admits nobody who compares it later,
\* although the comparison and the DEL are two calls, another code may have
\* replaced it in between and the answer of DEL is not looked at.
SpentCodeAdmitsNobody ==
  [][\A j, k \in Joins :
       at[j] = "loaded" /\ at'[j] = "read" /\ presents[k] = presents[j]
         => at[k] \notin AfterCode]_vars

\* A provider account is put on record only once it has a payout destination: a
\* payout is never sent to an account that was half set up.
AccountsAreComplete == account \subseteq payable

\* Every request that answers 200 leaves its payer with a fund token.  A payee
\* may be left without a payout account, but never because one went missing on
\* the way: its row names an account exactly if the provider confirmed a payout
\* destination for it.
AnsweredIsEquipped ==
  \A a \in Members : at[a] \in Answered =>
    IF role[a] = "Payer" THEN a \in token ELSE (a \in account <=> a \in payable)
-----------------------------------------------------------------------------
(* What a comment says and the code does not do.                            *)

\* escrow.service.ts:474 "Re-reading participants inside the transaction
\* prevents the race where two concurrent joiners both see no Payer and both
\* assign themselves Payer role, producing two Payers".
OnePayer == Cardinality({a \in Members : role[a] = "Payer"}) <= 1
=============================================================================
