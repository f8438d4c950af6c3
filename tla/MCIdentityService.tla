-------------------------- MODULE MCIdentityService --------------------------
(* Small instances of IdentityService.                                      *)
EXTENDS IdentityService, TLC

MCVeteranEmail    == [v \in Veterans |-> "e1"]
MCVeteranPassword == [v \in Veterans |-> "p1"]

Symmetry == Permutations(Calls)
=============================================================================
