----------------------------- MODULE MCWebSession -----------------------------
(* A small instance of WebSession: an account that exists and one that       *)
(* registers, and two tabs.                                                  *)
EXTENDS WebSession, TLC

MCVeteranEmail    == [v \in Veterans |-> "e1"]
MCVeteranPassword == [v \in Veterans |-> "p1"]

Symmetry == {p @@ q : p \in Permutations(Calls), q \in Permutations(Tabs)}
=============================================================================
