----------------------------- MODULE MCCreation -----------------------------
(***************************************************************************)
(* Instances of Creation for TLC.                                          *)
(***************************************************************************)
EXTENDS Creation

CONSTANTS e1, e2

Api == [channel |-> "api", type |-> "Milestone", role |-> "Payer", currency |-> "NGN",
        account |-> "none", days |-> 0, amount |-> 0, milestones |-> <<1005, 1005>>,
        deadlinePast |-> FALSE]

Quick ==
  [channel |-> "quick", type |-> "Standard", role |-> "Payee", currency |-> "USD",
   account |-> "crypto_wallet", days |-> 7, amount |-> 2004, milestones |-> <<>>,
   deadlinePast |-> FALSE]

\* The first request asks for a milestone escrow whose total is stored a cent short,
\* for milestones that are over the limit together, or for a quick link by the payee,
\* which has a date; the second is a payee's.
MCInputs ==
  e1 :> {Api, [Api EXCEPT !.milestones = <<2000, 1500>>], Quick} @@
  e2 :> {[Api EXCEPT !.role = "Payee"]}
=============================================================================
