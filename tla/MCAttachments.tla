---------------------------- MODULE MCAttachments ----------------------------
(***************************************************************************)
(* Attachments on small instances: the request goroutines are model values *)
(* and interchangeable.                                                    *)
(***************************************************************************)
EXTENDS Attachments, TLC

ReqSymmetry == Permutations(Req)
=============================================================================
