------------------------------ MODULE LifeCycle ------------------------------
(***************************************************************************)
(* What both kinds of quotes promise of a version, whatever requests       *)
(* overlap.  A version is written as a draft; a revision sends the draft   *)
(* it revises; an acceptance is final, and is the one step that can give a *)
(* version a project.  Every change of a version happens at once: nobody   *)
(* sees a version half revised, or accepted without its project.           *)
(*                                                                         *)
(* Quotes and Proposals implement it with policies of their own, and map   *)
(* their tables to the variables.                                          *)
(***************************************************************************)
EXTENDS Naturals

CONSTANTS
  MayAccept,   \* stages that an acceptance may start from
  MayDelete,   \* stages that a version may be deleted in
  Owned        \* TRUE if versions are deleted with a project

VARIABLES
  born,        \* how many versions were ever made; they are numbered from 1
  versions,    \* what exists: [id, stage, before], where before is the version
               \* that it was made from, or 0
  made         \* pairs of an accepted version and the live project it made

lifeVars == <<born, versions, made>>

LifeInit == born = 0 /\ versions = {} /\ made = {}

Version(stage, before) == [id |-> born + 1, stage |-> stage, before |-> before]

Write ==
  /\ born' = born + 1
  /\ versions' = versions \cup {Version("draft", 0)}
  /\ UNCHANGED made

\* The version that is revised can no longer be edited.
Revise(v) ==
  /\ born' = born + 1
  /\ versions' = (versions \ {v})
       \cup {[v EXCEPT !.stage = IF @ = "draft" THEN "sent" ELSE @], Version("draft", v.id)}
  /\ UNCHANGED made

Accepted(v) == (versions \ {v}) \cup {[v EXCEPT !.stage = "accepted"]}

\* Version v makes a project.  A copy may record there what was accepted.
AcceptInto(v) ==
  /\ v.stage \in MayAccept
  /\ \A m \in made : m[1] # v.id
  /\ \E m \in made' : m[1] = v.id /\ made' \ {m} = made /\ \A n \in made : n[2] # m[2]
  /\ \/ born' = born /\ versions' = Accepted(v)
     \/ born' = born + 1 /\ versions' = Accepted(v) \cup {Version("accepted", v.id)}

\* Version v joins the project that another accepted version made.
AcceptAgain(v) ==
  /\ v.stage \in MayAccept
  /\ \E w \in versions : w.stage = "accepted" /\ \E m \in made : m[1] = w.id
  /\ versions' = Accepted(v)
  /\ UNCHANGED <<born, made>>

Without(vs) ==
  LET ids == {v.id : v \in vs} IN
    {IF v.before \in ids THEN [v EXCEPT !.before = 0] ELSE v : v \in versions \ vs}

Delete(v) ==
  /\ v.stage \in MayDelete
  /\ versions' = Without({v})
  /\ UNCHANGED <<born, made>>

\* A project is deleted, and with it the versions that belong to it.
Drop ==
  /\ \E vs \in IF Owned THEN SUBSET versions ELSE {{}} : versions' = Without(vs)
  /\ \E p \in {0} \cup {m[2] : m \in made} : made' = {m \in made : m[2] # p}
  /\ UNCHANGED born

LifeNext ==
  /\ lifeVars' # lifeVars
  /\ \/ Write
     \/ \E v \in versions : Revise(v) \/ AcceptInto(v) \/ AcceptAgain(v) \/ Delete(v)
     \/ Drop

LifeSpec == LifeInit /\ [][LifeNext]_lifeVars
=============================================================================
