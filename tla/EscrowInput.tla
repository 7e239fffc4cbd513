---------------------------- MODULE EscrowInput ----------------------------
(***************************************************************************)
(* What may be asked for when an escrow is created, and the amounts that   *)
(* are stored for it.                                                      *)
(*                                                                         *)
(* Amounts are asked for in tenths of a cent, since nothing limits them to *)
(* cents, and stored as Decimal(15, 2), in cents.  The sum of an input's   *)
(* amounts is exact here.                                                  *)
(***************************************************************************)
EXTENDS SequencesExt, Integers

CONSTANTS
  MaxAmount,      \* MAX_ESCROW_AMOUNT, in tenths of a cent
  MaxMilestones   \* the schema's 20

Unit == 1000      \* 1 in tenths of a cent: MIN_ESCROW_AMOUNT

ASSUME EscrowInputAssumption == MaxAmount \in Nat /\ MaxMilestones \in Nat

Total(amounts) == FoldLeft(LAMBDA x, y : x + y, 0, amounts)

InLimits(amount) == amount \in Unit .. MaxAmount

\* expiresInDays: optional for an API escrow, 7 by default for a quick link; 0
\* stands for none.
DaysValid(i) == i.days \in IF i.channel = "api" THEN 0 .. 365 ELSE 1 .. 90

\* superRefine: a payee who makes a quick link says where the money goes.
AccountValid(i) ==
  i.role = "Payee" =>
    i.account = IF i.currency = "USD" THEN "crypto_wallet" ELSE "bank_account"

\* createEscrowSchema and createQuickEscrowSchema.
SchemaValid(i) ==
  /\ DaysValid(i)
  /\ IF i.type = "Milestone"
     THEN /\ Len(i.milestones) \in 1 .. MaxMilestones
          /\ \A n \in DOMAIN i.milestones : InLimits(i.milestones[n])
     ELSE InLimits(i.amount)
  /\ i.channel = "quick" => AccountValid(i)

\* Mutant: the limits of a milestone escrow are its milestones'.
CreationValidPerMilestone(i) ==
  /\ i.currency \in {"NGN", "USD", "GBP", "EUR"}
  /\ i.type = "Milestone" => ~i.deadlinePast

\* assertValidCreationInput.
CreationValid(i) ==
  /\ i.currency \in {"NGN", "USD", "GBP", "EUR"}
  /\ i.type = "Milestone" => InLimits(Total(i.milestones)) /\ ~i.deadlinePast

\* A quick link's currency is any string.
Acceptable(i) == SchemaValid(i) /\ (i.channel = "api" => CreationValid(i))

\* numeric(15, 2) rounds to the nearest cent, halves up.
Stored(amount) == (amount + 5) \div 10

StoredMilestones(i) == [n \in DOMAIN i.milestones |-> Stored(i.milestones[n])]

\* The total is rounded on its own.
StoredAmount(i) == Stored(IF i.type = "Milestone" THEN Total(i.milestones) ELSE i.amount)
=============================================================================
