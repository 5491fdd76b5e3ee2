------------------------------- MODULE MCAxi -------------------------------
(* Both register files with a configuration register, the sampled register, *)
(* and an address of no register.                                           *)
EXTENDS AxiLiteSlave

MCDefault == [r \in Register |-> 0]

=============================================================================
