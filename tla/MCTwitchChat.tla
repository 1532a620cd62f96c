---------------------------- MODULE MCTwitchChat ----------------------------
(* Two channels and two modules that share the client.                      *)
EXTENDS TwitchChat
=============================================================================
