-------------------------- MODULE MCUDPAssociation --------------------------
(* TLC model of UDPAssociation. *)
EXTENDS UDPAssociation, TLC

\* Associations, destinations and socket objects are interchangeable.
Symmetry == Permutations(Assocs) \cup Permutations(Dsts) \cup Permutations(Ups)

=============================================================================
