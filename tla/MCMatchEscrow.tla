---------------------------- MODULE MCMatchEscrow ----------------------------
(* MatchEscrow for TLC: players are alike, and session keys are. *)
EXTENDS MatchEscrow, TLC

Symmetry ==
  Permutations(Users) \cup Permutations(Keys)
=============================================================================
