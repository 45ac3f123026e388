------------------------------ MODULE MCJournal ------------------------------
(***************************************************************************)
(* The journal on small instances.  The forms are an income, an expense of *)
(* an earlier year, a transfer, an income whose date has no such month,    *)
(* and a line that moves money from an account to itself.  A category that *)
(* becomes one of expenses turns an income into a refund.                  *)
(***************************************************************************)
EXTENDS Journal, TLC

F(from, to, cat, cents, date) ==
  [from |-> from, to |-> to, cat |-> cat, cents |-> cents, date |-> date]

SomeForms ==
  {F(0, 1, 1, 2, 202602), F(1, 0, 2, 1, 202512), F(1, 2, 0, 1, 202602),
   F(0, 2, 1, 1, 202613), F(1, 1, 0, 1, 202601)}

Symmetry == Permutations(Req) \cup Permutations(Name)
=============================================================================
