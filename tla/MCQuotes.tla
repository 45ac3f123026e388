------------------------------ MODULE MCQuotes ------------------------------
(***************************************************************************)
(* Quotes on small instances: the request goroutines are model values and  *)
(* interchangeable.                                                        *)
(***************************************************************************)
EXTENDS Quotes, TLC

ReqSymmetry == Permutations(Req)
=============================================================================
