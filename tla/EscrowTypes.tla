---------------------------- MODULE EscrowTypes ----------------------------
(***************************************************************************)
(* The escrow status machine of modules/escrow/escrow.types.ts, shared by  *)
(* every module that reads or writes an escrow's status.                   *)
(***************************************************************************)

EscrowStatus ==
  {"Created", "AwaitingPayment", "Funded", "Held", "AwaitingAction",
   "Released", "Refunded", "Disputed", "Cancelled"}

\* VALID_TRANSITIONS, as the set of its (from, to) pairs.
ValidTransitions ==
  {<<"Created", "AwaitingPayment">>, <<"Created", "Funded">>,
   <<"Created", "Cancelled">>,
   <<"AwaitingPayment", "Funded">>, <<"AwaitingPayment", "Cancelled">>,
   <<"Funded", "Held">>,
   <<"Held", "AwaitingAction">>, <<"Held", "Released">>,
   <<"Held", "Disputed">>,
   <<"AwaitingAction", "Released">>, <<"AwaitingAction", "Refunded">>,
   <<"AwaitingAction", "Disputed">>,
   <<"Disputed", "Released">>, <<"Disputed", "Refunded">>}

CanTransition(from, to) == <<from, to>> \in ValidTransitions

Terminal == {"Released", "Refunded", "Cancelled"}

\* The payment worker passes through Funded inside one transaction, so a reader
\* sees the escrow go from a fundable status to Held in one step.
ObservableTransitions ==
  ValidTransitions \cup {<<"Created", "Held">>, <<"AwaitingPayment", "Held">>}

FundableEscrowStatuses == {"Created", "AwaitingPayment"}

\* The statuses an escrow takes once a payment has been credited to it.
CreditedStatuses ==
  {"Held", "AwaitingAction", "Disputed", "Released", "Refunded"}
=============================================================================
