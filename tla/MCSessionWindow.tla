-------------------------- MODULE MCSessionWindow --------------------------
(* Small instances of SessionWindow for TLC. *)
EXTENDS SessionWindow, TLC

StarterSymmetry == Permutations(Starters)

=============================================================================
