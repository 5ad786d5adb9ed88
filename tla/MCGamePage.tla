----------------------------- MODULE MCGamePage -----------------------------
(* Instance of GamePage for TLC. *)
EXTENDS GamePage
=============================================================================
