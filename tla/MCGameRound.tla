---------------------------- MODULE MCGameRound ----------------------------
(* Instance of GameRound for TLC.  Nothing tells one buzzer from another. *)
EXTENDS GameRound, TLC
Symmetry == Permutations(Buzzers)
=============================================================================
