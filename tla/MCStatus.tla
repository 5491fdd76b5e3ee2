------------------------------ MODULE MCStatus ------------------------------
(* The status server with the two sockets of main.cc. *)
EXTENDS StatusServer
=============================================================================
