---------------------------- MODULE MCBroadcast ----------------------------
(* Two clients, and a picture of three pixels sent in three pieces, of which *)
(* two are the picture and the client's.                                     *)
EXTENDS FrameBroadcast
=============================================================================
