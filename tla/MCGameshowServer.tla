-------------------------- MODULE MCGameshowServer --------------------------
(* Instance of GameshowServer for TLC. *)
EXTENDS GameshowServer
=============================================================================
