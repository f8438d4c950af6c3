------------------------------ MODULE MCListings ------------------------------
(* A small instance of Listings.                                             *)
EXTENDS Listings

Symmetry == Permutations(Writers)

\* What a client that has finished has seen does not change any more.
ClientActive ==
    /\ walk # Null => ~walk.ended
    /\ detail # Null => detail.results = Null
=============================================================================
