----------------------------- MODULE MCFunding -----------------------------
(***************************************************************************)
(* Instances of Funding for TLC.                                           *)
(***************************************************************************)
EXTENDS Funding, TLC

CONSTANTS p1, p2, p3, t1

\* Authenticated requests only; requests that all present the same token; one
\* authenticated request and others that present the token.
NoTokens == [p \in Payments |-> NoToken]
SameToken == [p \in Payments |-> t1]
MixedTokens == [p \in Payments |-> IF p = p1 THEN NoToken ELSE t1]

Symmetry == Permutations(Payments)
=============================================================================
