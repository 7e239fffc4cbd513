---------------------------- MODULE MCQuickLink ----------------------------
(***************************************************************************)
(* Instances of QuickLink for TLC.                                         *)
(***************************************************************************)
EXTENDS QuickLink, TLC

Symmetry ==
  Permutations(Confirms) \cup Permutations(Joins) \cup Permutations(Asks)
    \cup Permutations(Emails)
=============================================================================
