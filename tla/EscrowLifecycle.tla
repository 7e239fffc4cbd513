-------------------------- MODULE EscrowLifecycle --------------------------
(***************************************************************************)
(* What the service promises about one escrow, without requests, workers   *)
(* or queues: the status moves along the table only, and the moment it     *)
(* becomes Released or Refunded the ledger settles it, once, the same way. *)
(***************************************************************************)
EXTENDS EscrowTypes

CONSTANT Start   \* the status the escrow is observed from

VARIABLES
  status,    \* the escrow's status
  settled    \* what the ledger says became of the money held

lifecycleVars == <<status, settled>>

Init == status = Start /\ settled = "open"

\* A move that leaves the money where it is.
Move ==
  /\ \E s \in EscrowStatus \ {"Released", "Refunded"} :
       /\ <<status, s>> \in ObservableTransitions
       /\ status' = s
  /\ UNCHANGED settled

Release ==
  /\ CanTransition(status, "Released")
  /\ settled = "open"
  /\ status' = "Released"
  /\ settled' = "toPayee"

Refund ==
  /\ CanTransition(status, "Refunded")
  /\ settled = "open"
  /\ status' = "Refunded"
  /\ settled' = "toPayer"

Next == Move \/ Release \/ Refund

Spec == Init /\ [][Next]_lifecycleVars
=============================================================================
