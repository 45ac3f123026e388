------------------------------- MODULE MCAccess -------------------------------
(***************************************************************************)
(* Access on small instances; requests and users are interchangeable.      *)
(***************************************************************************)
EXTENDS Access, TLC

Symmetry == Permutations(Req) \cup Permutations(User)
=============================================================================
