----------------------------- MODULE MCPayout ------------------------------
(***************************************************************************)
(* Instances of Payout for TLC.                                            *)
(***************************************************************************)
EXTENDS Payout, TLC
=============================================================================
