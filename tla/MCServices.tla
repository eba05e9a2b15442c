----------------------------- MODULE MCServices -----------------------------
EXTENDS Services, TLC

(* The service commands are interchangeable.                               *)
Symmetry == Permutations(Clients)
=============================================================================
