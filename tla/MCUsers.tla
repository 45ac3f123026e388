------------------------------ MODULE MCUsers -------------------------------
(***************************************************************************)
(* Users on small instances: an owner demotes and disables somebody with   *)
(* one form, and enables with another one.  The instances that look for a  *)
(* counterexample use more forms, and request goroutines that are          *)
(* interchangeable.                                                        *)
(***************************************************************************)
EXTENDS Users, TLC

F(role, active, password) == [role |-> role, active |-> active, password |-> password]

TwoForms == {F("viewer", "off", FALSE), F("keep", "on", FALSE)}

ManyForms ==
  {F("owner", "keep", FALSE), F("viewer", "off", TRUE), F("keep", "on", FALSE),
   F("other", "keep", TRUE)}

ReqSymmetry == Permutations(Req)
=============================================================================
