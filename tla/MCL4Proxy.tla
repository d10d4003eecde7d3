----------------------------- MODULE MCL4Proxy -----------------------------
(* TLC model of L4Proxy. *)
EXTENDS L4Proxy, TLC

Symmetry == Permutations(Dialers) \cup Permutations(Conns)

=============================================================================
