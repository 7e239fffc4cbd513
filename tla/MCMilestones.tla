---------------------------- MODULE MCMilestones ----------------------------
(***************************************************************************)
(* Instances of Milestones for TLC: who asks for what.                     *)
(***************************************************************************)
EXTENDS Milestones, TLC

CONSTANTS m1, m2, s1, a1

\* 1.005 and 2.005 are stored as 1.01 and 2.01, and their sum as 3.01.
MCAmount == m1 :> 101 @@ m2 :> 201

\* A milestone is submitted and approved beside one that is on its way to the
\* payee.
MCOp == s1 :> "submit" @@ a1 :> "approve"

MCTarget == [r \in {s1, a1} |-> m1]
=============================================================================
