------------------------------- MODULE MCTcp -------------------------------
(* Values for TLC: two blocks and one listening block. *)
EXTENDS TcpPcb

BlocksAreAlike == Permutations(Pcb)
=============================================================================
