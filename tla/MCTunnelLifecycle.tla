------------------------- MODULE MCTunnelLifecycle -------------------------
(* Model values and symmetry for the runs of TunnelLifecycle. *)
EXTENDS TunnelLifecycle, TLC

\* Client connections are interchangeable (safety runs only).
ConnSymmetry == Permutations(Conns)

=============================================================================
