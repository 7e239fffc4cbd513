# Crove escrow: TLA+ models, checks and proofs

Crove holds a buyer's money until a seller has delivered. Its API (Fastify,
Postgres through Prisma, Redis, BullMQ queues, the payment providers Bachs and
Paystack) is written as request handlers and job handlers that call each of
these in turn. Most of what can go wrong lies between two such calls: another
request, a webhook, a timer or a crash comes in between. This directory models
those handlers with one action per `await` and asks what holds in every order.

All paths below are under `src/apps/api/src/`; `service` is
`modules/escrow/escrow.service.ts`.

## 1. The system

| component | state it keeps | operations | depends on |
|---|---|---|---|
| escrow status machine (`escrow.types.ts`, `escrow.aggregate.ts`) | `escrow.status` | `VALID_TRANSITIONS`, `canTransition` | - |
| fund endpoints (`service` 230-395, 605-755) | `Payment` rows, fund tokens in Redis, the status | `fundEscrow`, `fundEscrowWithToken` | Redis, provider, queues |
| cancellation (`service` 923-967) | the status | `cancelEscrow` | - |
| webhook intake (`webhook.service.ts`) | `InboundWebhook` rows | `processVerifiedPayload` | payment queue |
| payment worker (`payment.worker.ts`) | status, `Payment`, ledger | the confirm job | provider, event dispatcher |
| escrow worker (`escrow.worker.ts`) | status, delayed jobs | expiry, auto-release, review timeout, domain events, rescheduling at start-up | payout queue |
| settlement (`service` 757-919, 971-1160, 1420-1594) | status, `EscrowDispute`, ledger | release, refund, review, dispute, resolve, platform resolve | provider, dispatcher, payout queue |
| payout worker (`payout.worker.ts`) | transfers, events, milestones | the payout job and its retries | provider |
| milestones (`service` 1164-1293) | `Milestone` | submit, approve | escrow and payout workers |
| quick links (`service` 128-226, 399-601, `otp.helper.ts`) | intents, codes and rate counters in Redis, `EscrowParticipant` | initiate, confirm, request code, verify and join | mail, provider |
| creation and validation (`escrow.schema.ts`, `escrow-creators.ts`, `service` 92-126) | `Escrow`, its code | create | dispatcher, escrow queue |
| ledger and money (`ledger.helper.ts`, `escrow.aggregate.ts`) | `LedgerEntry` (append only) | append, balance, remaining balance | - |
| sign-up and its guard (`lib/auth.ts`, `auth.worker.ts`) | `User`, `Account` | the hooks, the orphan cleanup job | Better Auth, auth queue |
| user cache (`auth.plugin.ts`, `users.service.ts`) | Redis copy of a user | read, update, invalidate | Redis |
| notifications (`notifications.worker.ts`) | the queue | one mail after another per event | mail provider |
| start-up (`index.ts`) | - | workers, then rescheduling, then the port | Redis, Postgres |
| provider clients (`third_party/payment_providers`) | sessions, refunds and transfers at the provider | open a session, verify, refund, transfer | Bachs, Paystack |
| HTTP layer, web | none of the escrow's | - | - |

Parts meet in four ways. Requests and workers share rows, and protect a write
either with `updateMany ... where status = <expected>` (a guard) or not at all
(`update ... where id`, a *blind write*). Requests tell workers through BullMQ
jobs, whose ids deduplicate. The provider answers calls and later sends webhooks.
Redis values are used up with GET and then DEL.

**What is hard.**
Two requests interleave between a read and the write it justifies; a provider
call is made before the transaction that may be lost; a job runs twice when its
lock is lost, or never again when it throws (no queue sets `attempts`); webhooks
come twice, late or not at all; a process dies between a commit and the job or
event that should follow it; delayed jobs (expiry, auto-release, payout retries)
act on a state they read before. `hazards` in `PROJECT.json` lists them by line.

**What makes each part correct.**
Funding: an escrow is funded only by a charge, is not credited twice without a
cause, and a token gives the payer one link. Settlement: money leaves once, in one
direction, and only from a status that allows it. Payout: one transfer, and it is
not dropped at the first obstacle. Quick links: one escrow per intent, one seat
per joiner, and a member who can pay or be paid. Milestones: what is marked paid was
paid, the last payout closes the escrow, and no more goes out than came in.
Creation: sound rows, mails in order, and an expiry that is not forgotten.
Accounts: a sign-up that succeeded stays, one that failed goes, and nobody is
served an old profile for ever. The exact statements, and where
the code stops short of them, are below.

## 2. The modules

| module | models | composed with |
|---|---|---|
| `EscrowTypes` | the statuses and the transition table | used by the next four |
| `EscrowLifecycle` | abstract: one escrow, its status and how the ledger settled it | refined by `Settlement` |
| `Funding` | fund endpoints, payer and provider, webhooks, confirm job, cancellation, expiry | `SettlementNext` stands for `Settlement`: its guarded operations and the auto-release timer; `SettlesTo` says how far they may go |
| `Settlement` | release, refund, review, disputes, resolutions, event handlers, auto-release timer | starts in the state a credit leaves, ends with a payout job |
| `Milestones` | submit, approve, review timeout, milestone payouts and auto-close, and the release, refund and resolution of a milestone escrow | its payout runs are `Payout`'s beyond the checks, its closing operations `Settlement`'s |
| `Payout` | the payout job, its retries, the transfer and its webhook | starts with that job |
| `QuickLink` | from intent to participants, with what each gets | its token is a `Token` of `Funding`, its expiry job is `Funding`'s |
| `EscrowInput` | what the schemas and `assertValidCreationInput` accept, and the amounts stored | extended by `Creation` |
| `Notifications` | the notifications queue and its worker | extended by `Creation`, which puts events into it |
| `Creation` | create, its code, row, event and expiry job; expiry; crash, cleared Redis and start-up | the escrow's later life is reduced to the events it dispatches |
| `Accounts` | sign-up and orphan cleanup, the user cache and the writers of the user row | - |
| `MC*` | instances for TLC: which request presents which token, symmetry | |
| `FundingProofs`, `SettlementProofs`, `PayoutProofs`, `QuickLinkProofs`, `MilestonesProofs`, `AccountsProofs`, `CreationProofs` | theorems about the module each extends | |
| `Sums` | lemmas on sums over finite sets and sequences | used by `MilestonesProofs` and `CreationProofs` |

How a module reads:

- A handler is a program counter per request or job run (`fund`, `pc`, `run`,
  `at`). Each `await` that reads or writes shared state ends an action, so
  whatever the code keeps in a local variable over an `await` is a variable here
  (`seen`, `cancelSeen`, `saw`, `target`). A database transaction with its guard
  is one action: the guarded `updateMany` takes the row lock, and the rest of the
  transaction commits or rolls back with it. The exception is the join, whose
  transaction reads without a lock under READ COMMITTED: `JoinRead` and
  `JoinCreate` are two actions.
- A guard of the code is a named operator (`FundGuard`, `ReleaseGuard`,
  `ResolveGuard` ...). Beside it stands, commented `Mutant:`, the plausible bug
  used to show that a property notices when the code is wrong.
- A job id, an idempotency key, a dedup key or a unique reference is an operator
  (`PayoutJobId`, `RefundKey`, `TransferKey`, `DedupKey`), and the queue, the
  provider or the table keeps the *set* of those it has seen.
- Identifiers, amounts, texts and mails are left out. An amount or currency that
  does not match is one refusal; so is a participant check (`FundRefused`,
  `JoinWithoutAccount`), which may always happen.
- Prisma may run the `include`s of one query as several SELECTs; such a query is
  one read here.
- A request that fails its first checks changes nothing and is not an action,
  unless it has already consumed something.
- The provider clients appear as what a call leaves at the provider: a session
  (`SessionOpened`), a refund (`RefundMade`), a transfer (`TransferMade`), and
  Paystack's answer to a verification (`SaysPaid`). A client gives up after 10
  seconds, so a session, a refund or a transfer may exist though the caller was told
  that it failed (`FundProviderError`, `RefundUnanswered`, `RunEnds`). The link to a
  session is in the answer, so nobody pays in one whose answer was lost. A refund that the provider
  answers as processing or failed is taken for made (`service` 1589 only logs it), and
  so it is here.

Per module, what a reader should know:

- `Milestones` starts with a funded escrow some of whose milestones may already be
  approved, with a payee that has an account. The API gives a milestone escrow no
  second participant, so such a state comes from outside it (the database); the
  handlers are written for it and are modelled as written. A handler loads the
  escrow and the milestone side by side; the escrow is read first here, which
  covers the other order, since `Held` is never entered again. The capability and
  balance checks are `Payout`'s: here a job may be put off (`RunsAgain`), and one put
  off again under the id of that retry is dropped (`RunDropped`), as `Payout` shows in
  detail. Amounts are in cents: the escrow's and each milestone's are stored
  rounded on their own, so they are apart by up to half a cent for each of them
  (`RoundingError`), and the run has amounts that are. A milestone
  the timeout approved gets no payout (a TODO at `escrow.worker.ts` 117 says so),
  and a run that starts after another has left its ledger row fails on the row's
  unique reference, so its milestone is never marked. The auto-release timer on a
  milestone escrow is left out: it is a blind write and a full payout, as in
  `Settlement`.
- `EscrowInput` counts in tenths of a cent: nothing limits an amount to cents, and
  the column rounds to them. Sums are exact, so what binary floating point adds to
  the rounding is not shown.
- `Creation` follows two creations. Time is the passing of `expiresAt`, and only
  while the escrow can still be paid. What other modules do to the escrow (a join, a credit, a
  release) appears as the change of status or participants and the event it
  dispatches; of the milestones, those of the first one. A request dispatches after
  its commit (`service` 1265): `Commits` and `Dispatch` are two actions, so two
  that follow each other closely, such as a submission and its approval, may dispatch
  the other way round, and what a process had yet to dispatch dies with it. A job whose
  process died stays locked (`stalled`) while the restarted worker takes the ones
  that wait; a stalled check finds it at some later time and puts it before those
  that wait by then, or fails it if it was found before (`FindStalled`,
  `FindExpiryStalled`). An expiry job that throws fails at once (`ExpireThrows`).
- `Accounts` has Better Auth insert the user, run the hook, then insert the
  account: the library is not part of the code, and the comment at `lib/auth.ts` 85-90
  is what says so. A session outlives its user for as long as its cookie is cached, so a
  request may come from a user whose row is gone. The rows are reduced to the
  number of profile edits and the verified flag.

What is taken from outside the code: BullMQ runs a job whose lock was lost once
more and fails it the second time (`maxStalledCount` 1), ignores an add under an id it knows and keeps a job's
id after the job has finished, and refuses a custom id that contains a colon.
The last is why `Settlement` has the constant `TimerAccepted`: the timer's id is
`auto-release:<escrowId>`, and the module is checked with the timer and without
it. (`Milestones` needs no such constant: nothing in it obliges the event that adds
`review-timeout:<id>` to be handled.) The provider makes one transfer or refund per idempotency key and sends a
webhook until it is acknowledged.

## 3. The runs

Bounds are the sets of requests. Every counter in the modules is bounded by
them; no run uses a state constraint.

| run | instance | what it shows |
|---|---|---|
| `funding_race` | 1 authenticated and 1 token request, stalls, a token that may expire, no settlement, Bachs, fair | credits are bounded by reopenings; every charge is resolved, every credit announced |
| `funding_faults` | 3 requests with one token, cancellation, expiry, settlement with its timer, every fault but the TTL, Paystack | funded only with a charge behind it; one link per token; a token is lost only for a reason; three blind writes are the only way off the table |
| `settlement_race` | any 3 requests, the timer, a worker that dies, fair, Bachs | one ledger outcome, a payout only when released, one dispute; a release is paid out |
| `settlement_lifecycle` | any 3 requests, no timer, dying requests, refunds that fail or whose answer is lost, a late `payment.failed` | `Settlement` implements `EscrowLifecycle`; money goes both ways only after a lost guard |
| `milestones` | 2 milestones, one already approved, a submission, an approval, the timeout, 2 runs per payout, a release, a dispute's refund, amounts a cent off their total, fair | what is marked is paid and entered; the last payout closes; more goes out than came in by the milestones in flight, the rounding, or the full payout |
| `quick_join` | 2 confirmations, 2 code requests, 3 joiners, 2 addresses, limit 1 | one escrow per intent; late joiners are turned away; spent codes admit nobody |
| `payout` | the job and both retries, two runs each, early ends, stalls, webhook | no drop at the first obstacle; transfers end up on record |
| `accounts` | 2 sign-ups with one email, 1 reader, 2 edits, 1 verification, every fault, fair | sign-ups are kept, orphans removed; staleness is bounded and passes |
| `creation` | 2 creations of 4 kinds of input, one with a date, 1 code, 2 draws, 2 crashes, failing sends, fair | rows are sound; mails are out of order or doubled only after a stall; an expired escrow is cancelled, or for what reason it is not |
| `milestones_v_double`, `quick_v_two_payers`, `payout_v_retries` | the smallest instance | a comment of the code that does not hold (section 6) |

Why these bounds: each race needs two requests and whatever intervenes (a
cancellation, a timer, a webhook), and a third request shows the ones that need a
bystander: a token that comes back and is presented again, a resolution that
races another over a dispute a third opened, a joiner that comes after two that
overlapped. `funding_race` leaves
cancellation and settlement to `funding_faults` and the theorems, so that its
liveness can be checked with jobs that run twice: the second run of a job meets the
unique key of the ledger only when another request has reopened the escrow between
the two. The rate limit of a quick link is 3 in the code and 1 in the run, so
that two code requests reach it. `MaxCapabilityRetries` is the code's 24. Two
milestones make a last one and one that is not; one of them is on its way to the
payee from the start, so that the other can be taken from submission on. In
`creation`, one code for two escrows makes the clash certain and lets one row in
at a time; a second row would only run beside the first, which none of the
properties relate but by the code. The limits are scaled: 2 draws for 5, a largest
amount of 3 for 100 million. Two crashes let a job stall
twice and fail, and start-up meet the failed one. The escrow made by quick link
has a date and may get a second participant; the one made by API has neither, and would
only differ by the event that it dispatches before it adds its expiry job. The
theorems of section 5 need no bound.

A run stops where requests and jobs have ended, so `CHECK_DEADLOCK` is off: an
escrow that is settled does nothing more.

**Fairness.** `Funding` assumes that the provider delivers the webhook of a charge
until it is recorded, and that its handler and a confirm job that is queued take
their next step (a Node process does not suspend a handler for ever); of fund
requests, of the clock and of the expiry job it assumes nothing. `Settlement`
assumes that requests that have begun, events and the timer go on, `Milestones` of
requests that have begun and queued payouts (not of the review timeout, nor of
events), `Accounts` of requests, delayed jobs and the TTL of the cache, `Creation`
of the process that is started again, its expiry jobs (those found stalled included)
and the passing of time. Nobody is
assumed to pay, cancel, begin a request, join or settle. Liveness is checked with the
failures under which the code itself gives up left out, and each such failure is
said: a process that dies after recording a webhook loses it, a confirm run that
throws is not repeated, a worker that dies after the commit does not announce.
`ReleasedIsPaid` holds with a worker that dies, not with requests that do.

## 4. The properties

- `FundedIsBacked`, `CreditsBoundedByReopens`: the funding transaction is guarded
  and its ledger row unique, so a second credit needs a fund request that
  committed late and put a funded escrow back to `AwaitingPayment` (`service`
  717-746 writes by id when the status it loaded was `Created`). The property
  counts those commits (`reopens`, a history variable) and bounds the credits.
- `OnlyBlindWritesLeaveTheTable`: an action property. Of all status writes, only
  that commit, the expiry job's update and the auto-release timer's can leave the
  transition table: each is an `update` by id after a read.
- `OneLinkPerToken`, `TokenNotLost`: the two sides of consuming a token before
  the checks and handing it back on some failures. A token that comes back after an
  unanswered call may open a second session; `OneLinkPerToken` says that the first one
  is then of no use: its request answered with the error, so nobody has its link,
  and its payment is Failed.
- `LedgerNotOverdrawn`, `PayoutOnlyWhenReleased`, `FrozenByOneDispute`,
  `RefundedIsBacked`, `BothWaysOnlyAfterLostGuard`: where money may be while any
  operations race. `ImplementsLifecycle` says the same of the whole module at
  once: every step is a legal move, one settlement recorded with it, or a
  stutter.
- `ReleasedIsOnTheBooks`, `AutoClosedIsPaidOut`, `BackOnlyByLateWrite`: milestone
  rows are written by id by three kinds of actor; a status may go back (a slow
  approval or timeout overwrites Released), but never is one Released unpaid, and
  the escrow is never closed over one that is not.
- `OverpaidOnlyInFlight`: the remaining balance is computed from milestones loaded
  before the refund, so a milestone paid in between is paid on top of it. The
  property says by how much. Unless the full payout of a closed milestone escrow is
  made as well, what is refunded and paid out is the escrow's stored amount and
  the milestones in flight when the refund was computed; without a refund it is at most
  the amount and the rounding. The ledger of an escrow that an operation closed is
  overdrawn by just the milestones entered after it was read. It is out by the rounding
  when the last payout closed the escrow, or a release that found the milestones to be
  paid and more, and wrote no row (`service` 810).
- `DroppedOnlyAfterARetry`, `TransferRecorded`: how a
  payout may end. `TypeOK` of `Payout` bounds the retry count by 1.
- `OneEscrowPerIntent`, `CreatorsRoleIsNotShared`, `ExtraJoinersOverlapped`,
  `SpentCodeAdmitsNobody`: what GET, DEL and the unlocked read still guarantee.
- `SignedUpIsKept`, `OrphanIsRemoved`: the cleanup job deletes by id what it found
  without an account. It takes the right users unless it overtakes a slow sign-up.
- `StaleOnlyAfterLateFill`, `CacheConverges`: an answered edit is not served unless
  a reader that had loaded the row before it fills the cache after its DEL; then
  for no longer than the TTL.
- `RowsAreSound`: code, limits, rounding and payee account of every row.
  `MailsInOrder` holds because the worker takes one job at a time; what may come
  behind later mails, or twice, is the mail of a notice that was found stalled, and
  even then the payee does not hear before the payer. The order is that of the queue,
  which may differ from that of the commits. `ExpiredIsCancelled`: start-up makes good
  every lost expiry job, except for an escrow that was past its date by then, and one
  whose job failed (it threw, or stalled twice): its id is known and nothing adds it
  again.
- `ApprovalIsPaid` has as exceptions a run that failed and one that was dropped when it
  was put off a second time.
- `ChargeResolved`, `CreditAnnounced`, `ReleasedIsPaid`, `PaidUpIsClosed`,
  `ApprovalIsPaid`: what must happen.
- Proved but not run, since they hold for simple reasons: `OnePayoutJob`, `OneRefund`,
  `OneTransfer` (ids that make repeated calls harmless), `ConfirmedWasInitiated`,
  `AccountsAreComplete`, `AnsweredIsEquipped` (of every request that answers 200: no
  account goes missing between the provider and the row, though it may never have
  been set up).
- Proved but not run, since they are what the liveness properties rest on:
  `ChargeInHand`, `CreditInHand`, `ReleaseInHand`, `ApprovalInHand`, `LastPayoutLooks`,
  `OrphanArranged`, `ExpiryArranged` (section 5).

## 5. What is proved

For every finite set of payments or milestones, every set of requests, tokens,
cancellations, sign-ups, readers and writers, and every choice of faults:

| theorem | statement | inductive invariant |
|---|---|---|
| `FundingProofs!TypeCorrect` | `TypeOK` | `TypeInv`: `TypeOK`, and only requests with a token hand one back |
| `FundingProofs!Backed` | `FundedIsBacked` | `BackedInv`: a run beyond its read, a queued confirm and a `success` webhook all have a charge behind them; a credited status has a ledger row |
| `FundingProofs!CreditsBounded` | `CreditsBoundedByReopens` | `CreditInv`: with a fundable status the ledger has at most `reopens` rows, otherwise one more. Each credit ends fundability and each return to it is counted |
| `FundingProofs!OnlyBlindWrites` | `OnlyBlindWritesLeaveTheTable` | `CancelInv`: a cancellation that was let through loaded a cancellable status |
| `FundingProofs!OneLink` | `OneLinkPerToken` | `TokenInv`: of the token itself, the request that holds it and the session a request went on with there is at most one; a session whose answer was lost has a Failed payment (`LostSession`) |
| `FundingProofs!TokenKept` | `TokenNotLost` | itself, with the type invariant |
| `FundingProofs!ChargeIsInHand`, `CreditIsInHand` | `ChargeInHand`, `CreditInHand`: the charge or credit is accounted for, or somebody has it in hand, or a named fault took it | `HandInv`, with `BackedInv`: what each webhook and each run of a confirm job leaves behind by the time it ends |
| `SettlementProofs!TypeCorrect` | `TypeOK` | itself; `RequestInv`, the operation each request runs at each step, is proved next to it and used by the rest |
| `SettlementProofs!OnePayout`, `OneRefundMade` | `OnePayoutJob`, `OneRefund` | `TypeOK`: every caller names the same job id and the same idempotency key |
| `SettlementProofs!LedgerSound` | `LedgerNotOverdrawn` | `LedgerInv`: no row while the status is open; a settled status stays |
| `SettlementProofs!PayoutReleased` | `PayoutOnlyWhenReleased` | `PayoutInv`: whoever may add a payout has seen `Released`, which is left by nothing |
| `SettlementProofs!OneDispute` | `FrozenByOneDispute` | `DisputeInv`: the commits that open a row and that close it are guarded by the status |
| `SettlementProofs!BothWays` | `BothWaysOnlyAfterLostGuard` | `RefundInv` |
| `SettlementProofs!RefundBacked` | `RefundedIsBacked`, on Bachs and when no payment is marked Failed afterwards | `RefundFirstInv`: a request that will commit `Refunded` has called the provider |
| `SettlementProofs!Refinement` | `ImplementsLifecycle`, without the timer | step simulation: `LifecycleStep` on top of `LedgerInv` and `SettledValues` |
| `SettlementProofs!ReleaseIsInHand` | `ReleaseInHand`: a release has its payout, or a request or the timer is on its way to adding it | itself, with `TypeOK` |
| `PayoutProofs!TypeCorrect`, `TransferredOnce` | `TypeOK`, `OneTransfer` | `TypeInv`: `TypeOK`, and a job exists before its runs do (`JobInv`) |
| `PayoutProofs!RetriedOnce` | `DroppedOnlyAfterARetry` | `EndInv`: a run that is done has transferred, a run that was requeued has left a retry, and the first job, which carries no count, cannot give up |
| `PayoutProofs!Recorded` | `TransferRecorded` | `RecordInv`: a transfer without a row has a run on its way to the row, or one that failed |
| `PayoutProofs!Confirmed` | `ConfirmedWasInitiated` | itself, with `TypeInv` |
| `QuickLinkProofs!TypeCorrect` | `TypeOK` | itself |
| `QuickLinkProofs!OneEscrow` | `OneEscrowPerIntent` | `IntentInv`: whoever has the answer 1 of DEL, or a row, is the only one and has taken the intent for good |
| `QuickLinkProofs!CreatorsSeat`, `ExtraJoiners` | `CreatorsRoleIsNotShared`, `ExtraJoinersOverlapped` | `SeatInv`: a request on its way into a seat saw the creator and nobody with the other role, and those rows do not change |
| `QuickLinkProofs!CompleteAccounts`, `EquippedAnswers` | `AccountsAreComplete`, `AnsweredIsEquipped` | `EquipInv`: no destination is confirmed before the request's set-up, and an account set up is stored before the request answers; so a payer that is answered has its token, and a payee has its account on record exactly if the provider confirmed a destination |
| `QuickLinkProofs!SpentCodes` | `SpentCodeAdmitsNobody`, an action property | `CodeInv`: the code a request has consumed is not the one stored, and having been mailed it is not stored again |
| `MilestonesProofs!TypeCorrect` | `TypeOK` | `TypeInv`: `TypeOK`, and only refunding operations call the provider |
| `MilestonesProofs!ReleasedWasPaid` | `ReleasedIsOnTheBooks` | `BooksInv`: with `RunsInOrder`, what a run has done by the time it reaches each step |
| `MilestonesProofs!ClosedIsPaidOut` | `AutoClosedIsPaidOut` | `ClosingInv`: a run that will close has seen every milestone Released, hence in the ledger; an escrow an operation has settled is in a final status (`ClosedOnce`) |
| `MilestonesProofs!BackIsLate` | `BackOnlyByLateWrite`, an action property | `ClearedHasSeen`: a request that may write has seen the status that permits it |
| `MilestonesProofs!RefundIsTheRest` | `OverpaidOnlyInFlight` | `MoneyInv`: with `ClosingInv`, what a request has counted as paid is in the ledger and with the payee (`CountedIsPaid`); the sums follow from `SetSumsAdd` |
| `MilestonesProofs!ApprovalIsInHand` | `ApprovalInHand`: the payout of an answered approval waits, was made, failed or was dropped | `HandInv`: a payout once added is not lost (`AddedInHand`); `RunsForward` says of every step that it hands a waiting payout on |
| `MilestonesProofs!LastPayoutIsLooking` | `LastPayoutLooks`: with every milestone Released and the escrow Held, a run is about to look or to close, or has failed | itself, with `TypeInv` and `StatusWrites`: whoever marks the last milestone looks afterwards |
| `AccountsProofs!TypeCorrect` | `TypeOK` | itself |
| `AccountsProofs!SignUpsAreKept` | `SignedUpIsKept` | `KeptInv`: a cleanup exists only once the sign-up is at its last step, and one about to delete has found a failed sign-up or is early |
| `AccountsProofs!ServedStaleIsLate` | `StaleOnlyAfterLateFill` | `StaleInv`: the same of the row a reader is about to cache (`LoadedStaleIsNoted`) |
| `AccountsProofs!OrphanIsArranged` | `OrphanArranged`: what a failed sign-up left has a job that will remove it or that threw | `OrphanInv`: a sign-up on its last step has a job, only a sign-up that is done has an account, a job that is over found an account or left no user (`GuardLeavesJob`) |
| `CreationProofs!TypeCorrect` | `TypeOK` | `TypeInv`: `TypeOK`, an attempt is left while a code is drawn, the worker handles one notice at a time |
| `CreationProofs!RowsSound` | `RowsAreSound` | `RowsInv`: whoever is past the checks asked for something acceptable, whoever has a row has a code, and no two rows have the same. `StoredRounds` and `StoredMonotone` bound the amounts |
| `CreationProofs!MailsOrdered` | `MailsInOrder` | `MailInv`, with `RowsInv`: every notice is in one place (`OnePlace`) and was queued (`Queued`, `Begun`); those that wait and were not found stalled are in queue order (`InQueueOrder`), behind what has been mailed (`MailedBefore`); what a notice has yet to write, and what it has written, start with the payer (`ToWrite`, `PayerFirst`); a mail is sent again only by a notice found stalled (`NotTwice`); an event is dispatched after its commit and once (`Dispatched`) |
| `CreationProofs!ExpiryIsArranged` | `ExpiryArranged`: a Created escrow with a date has its job, or start-up or its request will add it, or it was past its date at start-up, or its job failed | `ArrangedInv`: with `JobsHaveRows`, jobs, start-up and requests are about rows that exist, and a job that is over has cancelled or found the escrow settled |

None of the properties is inductive as it stands: each speaks of rows, and what
keeps it true is what the requests that are under way have read. The invariants
add exactly that. The funding and settlement proofs first prove, per group of actions, what the
group leaves alone (`FundFrame`, `HookFrame`, `ConfirmFrame`, `RestFrame`;
`BeginFrame`, `ContinueFrame`, `WorkerFrame`, `CommitEffect`), as the quick-link
proofs do per variable (`OneMoves`, `LinkStep`, `RoleStep`), and each invariant then
looks only at the groups that can disturb it.

The assumptions are the one each module makes of its constants
(`FundingAssumption`, `SettlementAssumption`, `PayoutAssumption`, `QuickLinkAssumption`,
`MilestonesAssumption`, `AccountsAssumption`, `CreationAssumption`, and
`EscrowInputAssumption` and `NotificationsAssumption`, which `Creation` extends),
which every run of the module evaluates, and the two that `RefundBacked` and `Refinement` state. The last two are
needed: on Paystack `executeRefund` returns without a refund, after a late `payment.failed` it finds no payment, and the timer releases
without a ledger row.

Sums are folds (`MapThenSumSet`, `FoldLeft`), which the provers know only by
the recursive functions that define them, and what those compute cannot be had from the
library's induction theorems. `Sums` takes another way: that < is well founded on the
naturals is a fact without an operator parameter (`NatLessThanWellFounded`), so a least
counterexample can be picked (`LeastNatural`) and refuted. From this come that a
sum exists (`SumsExist`), adds up over a partition (`AddsSplit`, `SetSumsAdd`), grows
with its terms (`AddsMonotone`) and that a sequence's sum is its index set's
(`SequenceSum`).

Every safety invariant and action property of the passing runs is stated by one of
these theorems. Checked by TLC only are the liveness properties (`ChargeResolved`,
`CreditAnnounced`, `ReleasedIsPaid`, `PaidUpIsClosed`, `ApprovalIsPaid`,
`OrphanIsRemoved`, `CacheConverges`, `ExpiredIsCancelled`), since liveness under fairness
and ENABLED are outside what this prover does.

Of seven of these eight the half that is a safety property is proved (the theorems
named `...InHand`, `...IsLooking` and `...IsArranged`): no reachable state is one from which the
promise could only be kept by luck. Whatever is owed is done, or some request, job,
run or webhook that holds it is about to take its step, or a fault the theorem names took it.
What fairness adds, and TLC checks, is that the holder does take it. `CacheConverges` has no such
half: a stale entry is always possible, and it is its expiry alone that ends it.

## 6. Where a comment and the code disagree

Shown by a run:

- `milestones_v_double` (`service` 789-791): releasing a milestone escrow makes "no
  separate transfer", but the handler of its `escrow.released` (and a resolution)
  enqueues a payout of the full amount.
- `quick_v_two_payers` (`service` 474-476): the re-read does not prevent two
  payers.
- `payout_v_retries` (`payout.worker.ts` 33-34): one capability retry, not 24.

Noticed while modelling; where a property is named, it states what holds instead:

- `service` 666: the guard of the payment worker does not prevent double funding
  once a late commit has reopened the escrow (`CreditsBoundedByReopens`).
- `payment.worker.ts` 103 and `notifications.worker.ts` 294: "let BullMQ retry",
  "job will be retried". No queue or job sets `attempts`, so a thrown verification
  leaves a charged payment Pending, and a mail that fails is not sent
  (`MailsInOrder` holds with that).
- `service` 1089: the refund is made before the guards that prevent a double
  resolution, so a payer may be refunded and a payee paid
  (`BothWaysOnlyAfterLostGuard`).
- `service` 887-891: refunding first is meant to keep an escrow from ending
  Refunded without a refund; on Paystack `executeRefund` (1567) returns silently
  and it does.
- `service` 674 asks to wait until a pending payment expires; nothing expires one.
- `payment.worker.ts` 64 and the README's "every status change is validated": the
  blind writes are not.
- `escrow.worker.ts` 88: a disputed escrow is not auto-released, but the write is
  by id and a dispute may come between.
- `escrow.worker.ts` 225 leaves an overdue escrow to "next cron pass or manual
  action"; there is no cron (`ExpiredIsCancelled`).
- `prisma/schema.prisma` 294 calls the ledger the record of every money movement;
  the auto-release writes none.
- `webhook.service.ts` 125 acknowledges as "already processed" a webhook whose
  handler died.
- `otp.helper.ts` 74, "single-use": GET and DEL without looking at the count;
  two overlapping requests both use the code.
- `auth.plugin.ts` 51-52: the next request does not always reflect the latest data
  after an invalidation (`StaleOnlyAfterLateFill`).
- `lib/auth.ts` 101, "check if emailVerified flipped to true": the hook looks only
  at the new value and announces the verification at every later update.
- The mail about a new escrow goes to a participant who is its Payer, so a payee
  who creates one gets none; `recipientEmail` of the creation schemas is read by
  nothing; a quick link's currency is any string.

## 7. What is not modelled, and the plan

Not modelled: signature verification, the encoding of provider requests, the HTTP
layer and the web front end, which hold no state an escrow depends on; of the webhooks, those that
only append a log row (`refund.paid`, `refund.failed`) or are acknowledged; the
welcome and verification mails; sessions and passwords (Better Auth);
floating-point error; `money.vo.ts`, which nothing uses.

The plan, with what is done marked:

1. done - `Funding`, `Settlement`, the lifecycle, their theorems.
2. done - `QuickLink` and `Payout`, with their theorems.
3. done - `Milestones` with its theorems, remaining balance and ledger balance.
4. done - creation, amounts, notifications and start-up (`Creation`), with their
   theorems.
5. done - sign-up, user cache and their theorems (`Accounts`).
6. left - the auto-release timer on a milestone escrow, and one module that
   composes a credit, a settlement and a payout, with the conservation of money as
   its abstract specification; it needs the late commit, the lost guard and the
   timer as its exceptions, which `CreditsBoundedByReopens`,
   `BothWaysOnlyAfterLostGuard` and `LedgerNotOverdrawn` state one by one.
