-------------------------- MODULE MCWebsocketStream --------------------------
(* The requests and frames of MCWebsocket for the run on octets. *)
EXTENDS WebsocketStream, MCWebsocket
==============================================================================
