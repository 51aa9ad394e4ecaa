-------------------------- MODULE MCSocketManager --------------------------
(* Instances of SocketManager for TLC: descriptors are numbers because the
   loop visits them in order. *)
EXTENDS SocketManager
=============================================================================
