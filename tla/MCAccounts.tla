----------------------------- MODULE MCAccounts -----------------------------
(***************************************************************************)
(* An instance of Accounts for TLC.                                        *)
(***************************************************************************)
EXTENDS Accounts

CONSTANTS u1, u2, r1, e1, e2, v1
=============================================================================
