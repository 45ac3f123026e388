----------------------------- MODULE MCPostings -----------------------------
(***************************************************************************)
(* Postings on small instances: the request goroutines are model values    *)
(* and interchangeable.                                                    *)
(***************************************************************************)
EXTENDS Postings, TLC

ReqSymmetry == Permutations(Req)
=============================================================================
