----------------------------- MODULE MCProposals -----------------------------
(***************************************************************************)
(* Proposals on small instances: the request goroutines are model values   *)
(* and interchangeable.                                                    *)
(***************************************************************************)
EXTENDS Proposals, TLC

ReqSymmetry == Permutations(Req)
=============================================================================
