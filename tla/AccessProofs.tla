---------------------------- MODULE AccessProofs ----------------------------
(***************************************************************************)
(* Theorems about Access, for any number of requests, users, projects,     *)
(* transactions, codes, tokens and calls.                                  *)
(***************************************************************************)
EXTENDS Access, FiniteSetTheorems, TLAPS

\* A request that is not idle acts for a user.
Known == {q \in Request : q.pc # "idle" => q.user \in User}

\* The answer to a request, or the audit of its call.
LEMMA FinishFacts ==
  ASSUME NEW q \in Known, q.pc # "idle"
  PROVE  /\ Finish(q) \in Known /\ Finish(q).pc \in {"idle", "audit"}
         /\ Finish(q).call = q.call /\ (q.call # 0 => Finish(q).pc = "audit")
         /\ AfterError(q) = Finish(q)
BY DEF Finish, AfterError, Idle, Request, Known

LEMMA IdleRequest == Idle \in Known /\ Idle.pc = "idle" /\ Idle.call = 0
BY DEF Idle, Request, Known

\* The next step of a request that is not over.
LEMMA BusyFacts ==
  ASSUME NEW q \in Known, q.pc # "idle", NEW n \in Nat
  PROVE  /\ q \in Request /\ q.user \in User /\ q.call \in Nat /\ q.project \in Nat
         /\ \A pc \in Checking : /\ [q EXCEPT !.tx = n, !.pc = pc] \in Known
                                 /\ [q EXCEPT !.project = n, !.pc = pc] \in Known
         /\ [q EXCEPT !.pc = "grant", !.project = n] \in Known
         /\ [q EXCEPT !.pc = "token"] \in Known
<1>1. q \in Request /\ q.user \in User
  BY DEF Known
<1> QED BY <1>1 DEF Known, Request, Checking

\* Overtaking changes a history and nothing else.
SameButOvertaken(q, n) ==
  /\ q.pc = n.pc /\ q.user = n.user /\ q.call = n.call
  /\ q.tx = n.tx /\ q.project = n.project /\ q.code = n.code
  /\ q.overtaken => n.overtaken

LEMMA OvertakenFacts ==
  ASSUME req \in [Req -> Known], NEW R
  PROVE  /\ Overtaken(R) \in [Req -> Known]
         /\ \A x \in Req :
              /\ SameButOvertaken(req[x], Overtaken(R)[x])
              /\ x \notin R => Overtaken(R)[x] = req[x]
              /\ x \in R /\ req[x].pc \in Checking => Overtaken(R)[x].overtaken
<1>1. \A x \in Req : [req[x] EXCEPT !.overtaken = TRUE] \in Known
  BY DEF Request, Known
<1>2. \A x \in Req : /\ [req[x] EXCEPT !.overtaken = TRUE].overtaken
                     /\ SameButOvertaken(req[x], [req[x] EXCEPT !.overtaken = TRUE])
  BY DEF Request, Known, SameButOvertaken
<1>3. \A x \in Req : SameButOvertaken(req[x], req[x])
  BY DEF SameButOvertaken
<1> QED BY <1>1, <1>2, <1>3 DEF Overtaken

-----------------------------------------------------------------------------
(* Types and references.                                                   *)

Rows ==
  /\ standing \in [User -> {"active", "barred", "deleted"}]
  /\ projects \subseteq ProjectRow
  /\ grants \subseteq GrantRow
  /\ txs \subseteq TxRow
  /\ codes \subseteq CodeRow
  /\ tokens \subseteq TokenRow
  /\ audit \subseteq Nat /\ unlogged \subseteq Nat
  /\ taken \subseteq Nat \X User
  /\ seq \in [project: Nat, tx: Nat, code: Nat, token: Nat, call: Nat]

References ==
  /\ \A t \in txs : /\ t.project \in Id(projects) \cup {0}
                    /\ t.posted \subseteq Id(projects)
  /\ \A g \in grants : /\ g.project \in Id(projects) /\ g.user \in Existing
                       /\ \A h \in grants :
                            (g.project = h.project /\ g.user = h.user) => g = h
  /\ \A row \in codes \cup tokens : row.user \in Existing

\* The inductive strengthening of TypeOK: whoever makes a project, or misses a grant,
\* is the user of a request.
TypeInv == Rows /\ References /\ req \in [Req -> Known]

LEMMA TypeParts == TypeInv => TypeOK
BY DEF TypeInv, TypeOK, RowsOK, Rows, References, Known

LEMMA InitTypes == Init => TypeInv
BY IdleRequest DEF Init, TypeInv, Rows, References

\* A step that only a request sees.
LEMMA TablesStutter ==
  ASSUME Rows, References, UNCHANGED tables
  PROVE  Rows' /\ References'
BY DEF tables, Rows, References, Existing

\* Requests keep their type, whatever they do.
LEMMA RequestsTyped ==
  ASSUME TypeInv, [Next]_vars
  PROVE  req' \in [Req -> Known]
<1>1. Rows /\ req \in [Req -> Known]
  BY DEF TypeInv
<1>2. ASSUME NEW R PROVE Overtaken(R) \in [Req -> Known]
  BY <1>1, OvertakenFacts
<1>3. /\ Idle \in Known
      /\ \A r \in Req : /\ req[r] \in Known
                        /\ req[r].pc # "idle" => Finish(req[r]) \in Known
  BY <1>1, IdleRequest, FinishFacts
<1>4. ASSUME NEW r \in Req, NEW n \in Known, Become(r, n)
      PROVE  req' \in [Req -> Known]
  BY <1>1, <1>4 DEF Become
<1>5. ASSUME NEW r \in Req, ArriveAtWeb(r) PROVE req' \in [Req -> Known]
  BY <1>4, <1>5 DEF ArriveAtWeb, Idle, Request, Known, FirstPc
<1>6. ASSUME NEW r \in Req, ArriveAtMcp(r) PROVE req' \in [Req -> Known]
  <2>1. PICK t \in tokens, pc \in FirstPc :
          Become(r, [Idle EXCEPT !.pc = pc, !.user = t.user, !.call = seq.call + 1])
    BY <1>6 DEF ArriveAtMcp
  <2>2. t.user \in User /\ seq.call + 1 \in Nat
    BY <1>1 DEF Rows, TokenRow
  <2>3. [Idle EXCEPT !.pc = pc, !.user = t.user, !.call = seq.call + 1] \in Known
    BY <2>2 DEF Idle, Request, Known, FirstPc
  <2> QED BY <1>4, <2>1, <2>3
<1>7. ASSUME NEW r \in Req, CheckTransaction(r) PROVE req' \in [Req -> Known]
  <2>1. PICK t \in txs, pc \in Checking : Become(r, [req[r] EXCEPT !.tx = t.id, !.pc = pc])
    BY <1>7 DEF CheckTransaction, Checking
  <2>2. [req[r] EXCEPT !.tx = t.id, !.pc = pc] \in Known
    <3>1. t.id \in Nat /\ req[r].pc # "idle"
      BY <1>1, <1>7 DEF CheckTransaction, Rows, TxRow
    <3> QED BY <1>3, <3>1, BusyFacts
  <2> QED BY <1>4, <2>1, <2>2
<1>8. ASSUME NEW r \in Req, CheckProject(r) \/ ChooseAllocation(r) PROVE req' \in [Req -> Known]
  <2>1. PICK p \in Id(projects) \cup {0}, pc \in Checking :
          Become(r, [req[r] EXCEPT !.project = p, !.pc = pc])
    BY <1>8 DEF CheckProject, ChooseAllocation, Checking, Id
  <2>2. p \in Nat
    BY <1>1 DEF Rows, ProjectRow, Id
  <2>3. req[r].pc # "idle"
    BY <1>8 DEF CheckProject, ChooseAllocation
  <2>4. [req[r] EXCEPT !.project = p, !.pc = pc] \in Known
    BY <1>3, <2>2, <2>3, BusyFacts
  <2> QED BY <1>4, <2>1, <2>4
<1>9. ASSUME NEW r \in Req,
             \/ CreateTransaction(r) \/ Charge(r) \/ UpdateProject(r) \/ GrantCreator(r)
             \/ StatementFails(r) \/ Audit(r) \/ RequestFails(r) \/ IssueToken(r)
      PROVE  req' \in [Req -> Known]
  <2>1. CASE Become(r, Idle)
    BY <1>3, <1>4, <2>1
  <2>2. CASE Become(r, Finish(req[r])) /\ req[r].pc # "idle"
    BY <1>3, <1>4, <2>2
  <2> QED BY <1>9, <2>1, <2>2
          DEF CreateTransaction, Charge, UpdateProject, GrantCreator, StatementFails, Audit,
              RequestFails, IssueToken, AfterError, Checking
<1>10. ASSUME NEW r \in Req, MoveTransaction(r) \/ Uncharge(r) \/ DeleteProject(r)
       PROVE  req' \in [Req -> Known]
  <2>1. CASE Become(r, Finish(req[r])) /\ req[r].pc # "idle"
    BY <1>3, <1>4, <2>1
  <2>2. ASSUME NEW R, NEW n \in Known, req' = [Overtaken(R) EXCEPT ![r] = n]
        PROVE  req' \in [Req -> Known]
    BY <1>2, <2>2
  <2> QED BY <1>3, <1>10, <2>1, <2>2 DEF MoveTransaction, Uncharge, DeleteProject
<1>11. ASSUME NEW r \in Req, CreateProject(r) PROVE req' \in [Req -> Known]
  <2>1. seq.project + 1 \in Nat
    BY <1>1 DEF Rows
  <2>2. [req[r] EXCEPT !.pc = "grant", !.project = seq.project + 1] \in Known
    BY <1>3, <1>11, <2>1, BusyFacts DEF CreateProject
  <2> QED BY <1>4, <1>11, <2>2 DEF CreateProject
<1>12. ASSUME NEW r \in Req, ReadCode(r) PROVE req' \in [Req -> Known]
  <2>1. PICK c \in codes :
          Become(r, [Idle EXCEPT !.pc = "mark", !.user = c.user, !.code = c.id])
    BY <1>12 DEF ReadCode
  <2>2. [Idle EXCEPT !.pc = "mark", !.user = c.user, !.code = c.id] \in Known
    BY <1>1 DEF Idle, Request, Known, Rows, CodeRow
  <2> QED BY <1>4, <2>1, <2>2
<1>13. ASSUME NEW r \in Req, MarkCode(r) PROVE req' \in [Req -> Known]
  <2>1. [req[r] EXCEPT !.pc = "token"] \in Known
    BY <1>3, <1>13, BusyFacts DEF MarkCode
  <2> QED BY <1>4, <1>13, <2>1 DEF MarkCode
<1>14. ASSUME OwnerDeletesProject \/ OwnerMovesTransaction \/ SaveGrant \/ DeleteGrant
              \/ SetStanding \/ DeleteUser
       PROVE  req' \in [Req -> Known]
  BY <1>1, <1>2, <1>14
     DEF OwnerDeletesProject, OwnerMovesTransaction, SaveGrant, DeleteGrant, SetStanding,
         DeleteUser
<1>15. ASSUME UNCHANGED vars \/ Approve \/ OwnerCreatesProject \/ OwnerCreatesTransaction
              \/ OwnerCharges
       PROVE  req' \in [Req -> Known]
  BY <1>1, <1>15 DEF vars, Approve, OwnerCreatesProject, OwnerCreatesTransaction, OwnerCharges
<1> QED BY <1>5, <1>6, <1>7, <1>8, <1>9, <1>10, <1>11, <1>12, <1>13, <1>14, <1>15 DEF Next

\* Deleting a project leaves nothing that refers to it.
LEMMA RemoveProjectTyped ==
  ASSUME Rows, References, NEW p, RemoveProject(p),
         UNCHANGED <<standing, codes, tokens, audit, seq, unlogged>>
  PROVE  Rows' /\ References'
<1>1. /\ projects' = {row \in projects : row.id # p} /\ Id(projects') = Id(projects) \ {p}
      /\ grants' = {g \in grants : g.project # p} /\ taken' \subseteq taken
  BY DEF RemoveProject, Id
<1>2. ASSUME NEW t \in txs'
      PROVE  t \in TxRow /\ t.project \in Id(projects') \cup {0} /\ t.posted \subseteq Id(projects')
  <2>1. PICK u \in txs : t = [u EXCEPT !.project = IF @ = p THEN 0 ELSE @, !.posted = @ \ {p}]
    BY DEF RemoveProject, Leave
  <2>2. u \in TxRow /\ u.project \in Id(projects) \cup {0} /\ u.posted \subseteq Id(projects)
    BY DEF Rows, References
  <2> QED BY <1>1, <2>1, <2>2 DEF TxRow
<1>3. Rows'
  BY <1>1, <1>2 DEF Rows
<1> QED BY <1>1, <1>2, <1>3 DEF References, Existing

\* A grant replaces the one of the same project and user.
LEMMA GrantedTyped ==
  ASSUME Rows, References, NEW p \in Id(projects), NEW u \in Existing, NEW level \in Level
  PROVE  /\ Granted(p, u, level) \subseteq GrantRow
         /\ \A g \in Granted(p, u, level) :
              /\ g.project \in Id(projects) /\ g.user \in Existing
              /\ \A h \in Granted(p, u, level) :
                   (g.project = h.project /\ g.user = h.user) => g = h
<1>1. p \in Nat /\ u \in User
  BY DEF Id, Rows, ProjectRow, Existing
<1>2. [project |-> p, user |-> u, level |-> level] \in GrantRow
  BY <1>1 DEF GrantRow
<1> QED BY <1>2 DEF Granted, Rows, References

\* The tables keep types and references, whatever a request or an owner does.
LEMMA TablesTyped ==
  ASSUME TypeInv, Next
  PROVE  Rows' /\ References'
<1>1. Rows /\ References /\ req \in [Req -> Known]
  BY DEF TypeInv
<1>2. ASSUME NEW r \in Req,
             ArriveAtWeb(r) \/ CheckTransaction(r) \/ CheckProject(r) \/ ChooseAllocation(r)
      PROVE  Rows' /\ References'
  BY <1>1, <1>2, TablesStutter DEF ArriveAtWeb, CheckTransaction, CheckProject, ChooseAllocation
<1>3. ASSUME NEW r \in Req, ArriveAtMcp(r) PROVE Rows' /\ References'
  BY <1>1, <1>3 DEF ArriveAtMcp, Rows, References, Existing
<1>4. ASSUME txs' \subseteq TxRow,
             \A t \in txs' : /\ t.project \in Id(projects) \cup {0}
                             /\ t.posted \subseteq Id(projects),
             UNCHANGED <<standing, projects, grants, codes, tokens, audit, unlogged, taken>>,
             seq' \in [project: Nat, tx: Nat, code: Nat, token: Nat, call: Nat]
      PROVE  Rows' /\ References'
  BY <1>1, <1>4 DEF Rows, References, Existing, Id
<1>5. ASSUME NEW t \in txs, NEW row \in TxRow, Replace(t, row),
             row.project \in Id(projects) \cup {0}, row.posted \subseteq Id(projects),
             UNCHANGED <<standing, projects, grants, codes, tokens, audit, seq, unlogged, taken>>
      PROVE  Rows' /\ References'
  <2>1. txs' \subseteq TxRow
    BY <1>1, <1>5 DEF Replace, Rows
  <2>2. \A x \in txs' : x.project \in Id(projects) \cup {0} /\ x.posted \subseteq Id(projects)
    BY <1>1, <1>5 DEF Replace, References
  <2> QED BY <1>1, <1>4, <1>5, <2>1, <2>2 DEF Rows
<1>6. ASSUME NEW t \in txs, NEW p, NEW k \in Nat
      PROVE  /\ [t EXCEPT !.posted = @ \ {p}] \in TxRow
             /\ [t EXCEPT !.posted = @ \ {p}].project \in Id(projects) \cup {0}
             /\ [t EXCEPT !.posted = @ \ {p}].posted \subseteq Id(projects)
             /\ p \in Id(projects) \cup {0} =>
                  /\ [t EXCEPT !.project = p, !.call = k] \in TxRow
                  /\ [t EXCEPT !.project = p, !.call = k].project \in Id(projects) \cup {0}
                  /\ [t EXCEPT !.project = p, !.call = k].posted \subseteq Id(projects)
                  /\ [t EXCEPT !.posted = @ \cup ({p} \ {0}), !.call = k] \in TxRow
                  /\ [t EXCEPT !.posted = @ \cup ({p} \ {0}), !.call = k].project
                       \in Id(projects) \cup {0}
                  /\ [t EXCEPT !.posted = @ \cup ({p} \ {0}), !.call = k].posted
                       \subseteq Id(projects)
             /\ p \in Id(projects) =>
                  /\ [t EXCEPT !.posted = @ \cup {p}] \in TxRow
                  /\ [t EXCEPT !.posted = @ \cup {p}].project \in Id(projects) \cup {0}
                  /\ [t EXCEPT !.posted = @ \cup {p}].posted \subseteq Id(projects)
  <2>1. /\ t \in TxRow /\ t.project \in Id(projects) \cup {0} /\ t.posted \subseteq Id(projects)
        /\ Id(projects) \subseteq Nat
    BY <1>1 DEF Rows, References, Id, ProjectRow
  <2>2. [t EXCEPT !.posted = @ \ {p}] \in TxRow
    BY <2>1 DEF TxRow
  <2>3. /\ [t EXCEPT !.posted = @ \ {p}].project \in Id(projects) \cup {0}
        /\ [t EXCEPT !.posted = @ \ {p}].posted \subseteq Id(projects)
    BY <2>1 DEF TxRow
  <2>4. ASSUME p \in Id(projects) \cup {0}
        PROVE  /\ [t EXCEPT !.project = p, !.call = k] \in TxRow
               /\ [t EXCEPT !.project = p, !.call = k].project = p
               /\ [t EXCEPT !.project = p, !.call = k].posted = t.posted
    <3>1. p \in Nat
      BY <2>1, <2>4
    <3> QED BY <2>1, <3>1 DEF TxRow
  <2>5. ASSUME NEW s \in SUBSET Id(projects)
        PROVE  /\ [t EXCEPT !.posted = @ \cup s, !.call = k] \in TxRow
               /\ [t EXCEPT !.posted = @ \cup s, !.call = k].project = t.project
               /\ [t EXCEPT !.posted = @ \cup s, !.call = k].posted \subseteq Id(projects)
               /\ [t EXCEPT !.posted = @ \cup s] \in TxRow
               /\ [t EXCEPT !.posted = @ \cup s].project = t.project
               /\ [t EXCEPT !.posted = @ \cup s].posted \subseteq Id(projects)
    <3>1. t.posted \cup s \subseteq Id(projects) /\ t.posted \cup s \in SUBSET Nat
      BY <2>1
    <3> QED BY <2>1, <3>1 DEF TxRow
  <2>6. /\ p \in Id(projects) \cup {0} => {p} \ {0} \in SUBSET Id(projects)
        /\ p \in Id(projects) => {p} \in SUBSET Id(projects)
    OBVIOUS
  <2> QED BY <2>1, <2>2, <2>3, <2>4, <2>5, <2>6
<1>7. ASSUME NEW r \in Req, Charge(r) PROVE Rows' /\ References'
  <2>1. PICK t \in txs :
          Replace(t, [t EXCEPT !.posted = @ \cup ({req[r].project} \ {0}),
                               !.call = IF req[r].call = 0 THEN @ ELSE req[r].call])
    BY <1>7 DEF Charge
  <2>2. PICK k : k = IF req[r].call = 0 THEN t.call ELSE req[r].call
    OBVIOUS
  <2>3. k \in Nat
    BY <1>1, <2>2 DEF Rows, TxRow, Request, Known
  <2>4. Replace(t, [t EXCEPT !.posted = @ \cup ({req[r].project} \ {0}), !.call = k])
    BY <2>1, <2>2
  <2> QED BY <1>5, <1>6, <1>7, <2>3, <2>4 DEF Charge
<1>8. ASSUME NEW r \in Req, Uncharge(r) PROVE Rows' /\ References'
  <2>1. CASE UNCHANGED txs
    BY <1>1, <1>8, <2>1 DEF Uncharge, Rows, References, Existing
  <2>2. CASE \E t \in txs : \E p \in t.posted : Replace(t, [t EXCEPT !.posted = @ \ {p}])
    BY <1>5, <1>6, <1>8, <2>2 DEF Uncharge
  <2> QED BY <1>8, <2>1, <2>2 DEF Uncharge
<1>9. ASSUME OwnerCharges PROVE Rows' /\ References'
  <2>1. PICK t \in txs, p \in Id(projects) : Replace(t, [t EXCEPT !.posted = @ \cup {p}])
    BY <1>9 DEF OwnerCharges
  <2> QED BY <1>5, <1>6, <1>9, <2>1 DEF OwnerCharges
<1>10. ASSUME NEW r \in Req, CreateTransaction(r) PROVE Rows' /\ References'
  <2> DEFINE row == [id |-> seq.tx + 1, project |-> req[r].project, posted |-> {},
                     call |-> req[r].call]
  <2>1. req[r].project \in Nat /\ req[r].call \in Nat /\ seq.tx + 1 \in Nat
    BY <1>1 DEF Rows, Request, Known
  <2>2. row \in TxRow /\ row.project = req[r].project /\ row.posted = {}
    BY <2>1 DEF TxRow
  <2>3. txs' = IF req[r].project \in Id(projects) THEN txs \cup {row} ELSE txs
    BY <1>10 DEF CreateTransaction
  <2>4. txs' \subseteq TxRow
    BY <1>1, <2>2, <2>3 DEF Rows
  <2>5. \A t \in txs' : t.project \in Id(projects) \cup {0} /\ t.posted \subseteq Id(projects)
    <3> HIDE DEF row
    <3> QED BY <1>1, <2>2, <2>3 DEF References
  <2>6. seq' \in [project: Nat, tx: Nat, code: Nat, token: Nat, call: Nat]
    BY <1>1, <1>10, <2>1 DEF CreateTransaction, Rows
  <2> QED BY <1>4, <1>10, <2>4, <2>5, <2>6 DEF CreateTransaction
<1>11. ASSUME NEW r \in Req, MoveTransaction(r) PROVE Rows' /\ References'
  <2>1. req[r].project \in Nat /\ req[r].call \in Nat
    BY <1>1 DEF Request, Known
  <2>2. ASSUME NEW t \in txs', req[r].project \in Id(projects)
        PROVE  t \in TxRow /\ t.project \in Id(projects) \cup {0}
                 /\ t.posted \subseteq Id(projects)
    <3>1. CASE t \in txs
      BY <1>1, <3>1 DEF Rows, References
    <3>2. CASE t \notin txs
      <4>1. PICK u \in txs : t = [u EXCEPT !.project = req[r].project, !.call = req[r].call]
        BY <1>11, <2>2, <3>2 DEF MoveTransaction
      <4>2. u \in TxRow /\ u.posted \subseteq Id(projects)
        BY <1>1 DEF Rows, References
      <4> QED BY <2>1, <2>2, <4>1, <4>2 DEF TxRow
    <3> QED BY <3>1, <3>2
  <2>3. CASE txs' \subseteq txs
    BY <1>1, <1>4, <1>11, <2>3 DEF MoveTransaction, Rows, References
  <2>4. req[r].project \in Id(projects) \/ txs' \subseteq txs
    BY <1>11 DEF MoveTransaction
  <2>5. CASE req[r].project \in Id(projects)
    <3>1. txs' \subseteq TxRow
      BY <2>2, <2>5
    <3>2. seq' \in [project: Nat, tx: Nat, code: Nat, token: Nat, call: Nat]
      BY <1>1, <1>11 DEF MoveTransaction, Rows
    <3> QED BY <1>4, <1>11, <2>2, <2>5, <3>1, <3>2 DEF MoveTransaction
  <2> QED BY <2>3, <2>4, <2>5
<1>12. ASSUME NEW r \in Req, UpdateProject(r) PROVE Rows' /\ References'
  <2>1. \A p \in projects : /\ [p EXCEPT !.call = req[r].call] \in ProjectRow
                            /\ [p EXCEPT !.call = req[r].call].id = p.id
    BY <1>1 DEF Rows, ProjectRow, Request, Known
  <2>2. projects' \subseteq ProjectRow
    BY <1>1, <1>12, <2>1 DEF UpdateProject, Rows
  <2>3. Id(projects') = Id(projects)
    <3>1. \A p \in projects : \E q \in projects' : q.id = p.id
      BY <1>12, <2>1 DEF UpdateProject
    <3>2. \A q \in projects' : \E p \in projects : q.id = p.id
      BY <1>12, <2>1 DEF UpdateProject
    <3> QED BY <3>1, <3>2 DEF Id
  <2> QED BY <1>1, <1>12, <2>2, <2>3 DEF UpdateProject, Rows, References, Existing
<1>13. ASSUME NEW r \in Req, DeleteProject(r) PROVE Rows' /\ References'
  BY <1>1, <1>13, RemoveProjectTyped DEF DeleteProject
<1>14. ASSUME NEW m \in User \cup {"owner"}, NEW k \in Nat,
              projects' = projects \cup {[id |-> seq.project + 1, maker |-> m, call |-> k]},
              seq' = [seq EXCEPT !.project = @ + 1],
              UNCHANGED <<standing, grants, txs, codes, tokens, audit, unlogged, taken>>
       PROVE  Rows' /\ References'
  <2>1. seq.project + 1 \in Nat
    BY <1>1 DEF Rows
  <2>2. [id |-> seq.project + 1, maker |-> m, call |-> k] \in ProjectRow
    BY <2>1 DEF ProjectRow
  <2>3. projects' \subseteq ProjectRow /\ Id(projects) \subseteq Id(projects')
    BY <1>1, <1>14, <2>2 DEF Rows, Id
  <2>4. Rows'
    BY <1>1, <1>14, <2>1, <2>3 DEF Rows
  <2> QED BY <1>1, <1>14, <2>3, <2>4 DEF References, Existing
<1>15. ASSUME NEW r \in Req, CreateProject(r) PROVE Rows' /\ References'
  <2>1. req[r].user \in User /\ req[r].call \in Nat
    BY <1>1, <1>15 DEF CreateProject, Request, Known
  <2> QED BY <1>14, <1>15, <2>1 DEF CreateProject
<1>16. ASSUME OwnerCreatesProject PROVE Rows' /\ References'
  BY <1>14, <1>16 DEF OwnerCreatesProject
<1>17. ASSUME grants' \subseteq GrantRow,
              \A g \in grants' : /\ g.project \in Id(projects) /\ g.user \in Existing
                                 /\ \A h \in grants' :
                                      (g.project = h.project /\ g.user = h.user) => g = h,
              taken' \subseteq Nat \X User,
              UNCHANGED <<standing, projects, txs, codes, tokens, audit, seq, unlogged>>
       PROVE  Rows' /\ References'
  BY <1>1, <1>17 DEF Rows, References, Existing, Id
<1>18. ASSUME grants' \subseteq grants, taken' \subseteq Nat \X User,
              UNCHANGED <<standing, projects, txs, codes, tokens, audit, seq, unlogged>>
       PROVE  Rows' /\ References'
  BY <1>1, <1>17, <1>18 DEF Rows, References
<1>19. ASSUME NEW r \in Req, GrantCreator(r) PROVE Rows' /\ References'
  <2>1. CASE req[r].project \in Id(projects) /\ req[r].user \in Existing
    <3>1. "write" \in Level /\ grants' = Granted(req[r].project, req[r].user, "write")
      BY <1>19, <2>1 DEF GrantCreator, Level
    <3>2. taken' \subseteq Nat \X User
      BY <1>1, <1>19 DEF GrantCreator, Rows
    <3> QED BY <1>1, <1>17, <1>19, <2>1, <3>1, <3>2, GrantedTyped DEF GrantCreator
  <2>2. CASE ~(req[r].project \in Id(projects) /\ req[r].user \in Existing)
    BY <1>1, <1>18, <1>19, <2>2 DEF GrantCreator, Rows
  <2> QED BY <2>1, <2>2
<1>20. ASSUME NEW q \in Known, q.pc # "idle", LeaveUndone(q)
       PROVE  taken' \subseteq Nat \X User
  <2>1. <<q.project, q.user>> \in Nat \X User
    BY <1>20 DEF Known, Request
  <2> QED BY <1>1, <1>20, <2>1 DEF LeaveUndone, Rows
<1>21. ASSUME NEW r \in Req, Audit(r) PROVE Rows' /\ References'
  <2>1. req[r].call \in Nat
    BY <1>1 DEF Request, Known
  <2>2. audit' \subseteq Nat /\ unlogged' \subseteq Nat
    BY <1>1, <1>21, <2>1 DEF Audit, Rows
  <2> QED BY <1>1, <1>21, <2>2 DEF Audit, Rows, References, Existing
<1>22. ASSUME NEW r \in Req, StatementFails(r) PROVE Rows' /\ References'
  <2>1. taken' \subseteq Nat \X User
    <3>1. req[r] \in Known /\ req[r].pc # "idle" /\ LeaveUndone(req[r])
      BY <1>1, <1>22 DEF StatementFails, Checking
    <3> QED BY <1>20, <3>1
  <2> QED BY <1>18, <1>22, <2>1 DEF StatementFails
<1>23. ASSUME NEW r \in Req, RequestFails(r) PROVE Rows' /\ References'
  <2>1. CASE req[r].pc = "idle"
    BY <1>1, <1>23, <2>1 DEF RequestFails, LeaveUndone, Rows, References, Existing, Request,
                             Known
  <2>2. CASE req[r].pc # "idle"
    <3>1. taken' \subseteq Nat \X User
      BY <1>1, <1>20, <1>23, <2>2 DEF RequestFails
    <3>2. unlogged' \subseteq Nat
      <4>1. req[r].call \in Nat
        BY <1>1 DEF Request, Known
      <4> QED BY <1>1, <1>23, <4>1 DEF RequestFails, Rows
    <3> QED BY <1>1, <1>23, <3>1, <3>2 DEF RequestFails, Rows, References, Existing
  <2> QED BY <2>1, <2>2
<1>24. ASSUME codes' \subseteq CodeRow, tokens' \subseteq TokenRow,
              \A row \in codes' \cup tokens' : row.user \in Existing,
              seq' \in [project: Nat, tx: Nat, code: Nat, token: Nat, call: Nat],
              UNCHANGED <<standing, projects, grants, txs, audit, unlogged, taken>>
       PROVE  Rows' /\ References'
  BY <1>1, <1>24 DEF Rows, References, Existing, Id
<1>25. ASSUME Approve PROVE Rows' /\ References'
  <2>1. PICK u \in Existing :
          codes' = codes \cup {[id |-> seq.code + 1, user |-> u, used |-> FALSE,
                               excused |-> FALSE]}
    BY <1>25 DEF Approve
  <2>2. u \in User /\ seq.code + 1 \in Nat
    BY <1>1 DEF Existing, Rows
  <2>3. [id |-> seq.code + 1, user |-> u, used |-> FALSE, excused |-> FALSE] \in CodeRow
    BY <2>2 DEF CodeRow
  <2>4. seq' \in [project: Nat, tx: Nat, code: Nat, token: Nat, call: Nat]
    BY <1>1, <1>25, <2>2 DEF Approve, Rows
  <2> DEFINE code == [id |-> seq.code + 1, user |-> u, used |-> FALSE, excused |-> FALSE]
  <2>5. codes' = codes \cup {code} /\ code \in CodeRow /\ code.user \in Existing
    BY <2>1, <2>3
  <2>6. /\ codes' \subseteq CodeRow /\ tokens' \subseteq TokenRow
        /\ \A row \in codes' \cup tokens' : row.user \in Existing
    <3> HIDE DEF code
    <3> QED BY <1>1, <1>25, <2>5 DEF Approve, Rows, References
  <2> QED BY <1>24, <1>25, <2>4, <2>6 DEF Approve
<1>26. ASSUME NEW r \in Req, ReadCode(r) PROVE Rows' /\ References'
  <2>1. PICK c \in codes, e \in BOOLEAN :
          codes' = (codes \ {c}) \cup {[c EXCEPT !.excused = @ \/ e]}
    BY <1>26 DEF ReadCode
  <2>2. c \in CodeRow /\ c.user \in Existing
    BY <1>1 DEF Rows, References
  <2>3. [c EXCEPT !.excused = @ \/ e] \in CodeRow /\ [c EXCEPT !.excused = @ \/ e].user = c.user
    BY <2>2 DEF CodeRow
  <2> QED BY <1>1, <1>24, <1>26, <2>1, <2>2, <2>3 DEF ReadCode, Rows, References
<1>27. ASSUME NEW r \in Req, MarkCode(r) PROVE Rows' /\ References'
  <2>1. ASSUME NEW c \in codes'
        PROVE  c \in CodeRow /\ c.user \in Existing
    <3>1. PICK d \in codes : \/ c = d \/ c = [d EXCEPT !.used = TRUE]
                             \/ c = [d EXCEPT !.excused = TRUE]
      BY <1>27, <2>1 DEF MarkCode
    <3>2. d \in CodeRow /\ d.user \in Existing
      BY <1>1 DEF Rows, References
    <3> QED BY <3>1, <3>2 DEF CodeRow
  <2> QED BY <1>1, <1>24, <1>27, <2>1 DEF MarkCode, Rows, References
<1>28. ASSUME NEW r \in Req, IssueToken(r) PROVE Rows' /\ References'
  <2> DEFINE token == [id |-> seq.token + 1, code |-> req[r].code, user |-> req[r].user]
  <2>1. req[r].code \in Nat /\ req[r].user \in Existing /\ seq.token + 1 \in Nat
    BY <1>1, <1>28 DEF IssueToken, Known, Request, Rows
  <2>2. token \in TokenRow /\ token.user \in Existing
    BY <2>1 DEF TokenRow, Existing
  <2>3. seq' \in [project: Nat, tx: Nat, code: Nat, token: Nat, call: Nat]
    BY <1>1, <1>28, <2>1 DEF IssueToken, Rows
  <2> QED BY <1>1, <1>24, <1>28, <2>2, <2>3 DEF IssueToken, Rows, References
<1>29. ASSUME OwnerDeletesProject PROVE Rows' /\ References'
  BY <1>1, <1>29, RemoveProjectTyped DEF OwnerDeletesProject
<1>30. ASSUME OwnerCreatesTransaction PROVE Rows' /\ References'
  <2>1. PICK p \in Id(projects) \cup {0} :
          txs' = txs \cup {[id |-> seq.tx + 1, project |-> p, posted |-> {}, call |-> 0]}
    BY <1>30 DEF OwnerCreatesTransaction
  <2>2. p \in Nat /\ seq.tx + 1 \in Nat
    BY <1>1 DEF Rows, Id, ProjectRow
  <2>3. [id |-> seq.tx + 1, project |-> p, posted |-> {}, call |-> 0] \in TxRow
    BY <2>2 DEF TxRow
  <2>4. txs' \subseteq TxRow
    BY <1>1, <2>1, <2>3 DEF Rows
  <2>5. seq' \in [project: Nat, tx: Nat, code: Nat, token: Nat, call: Nat]
    BY <1>1, <1>30, <2>2 DEF OwnerCreatesTransaction, Rows
  <2> QED BY <1>1, <1>4, <1>30, <2>1, <2>4, <2>5 DEF OwnerCreatesTransaction, References
<1>31. ASSUME OwnerMovesTransaction PROVE Rows' /\ References'
  <2>1. PICK t \in txs :
          \/ txs' = txs \ {t}
          \/ \E p \in Id(projects) \cup {0} : Replace(t, [t EXCEPT !.project = p, !.call = 0])
          \/ \E p \in t.posted : Replace(t, [t EXCEPT !.posted = @ \ {p}])
    BY <1>31 DEF OwnerMovesTransaction
  <2>2. CASE txs' = txs \ {t}
    BY <1>1, <1>4, <1>31, <2>2 DEF OwnerMovesTransaction, Rows, References
  <2> QED BY <1>31, <1>5, <1>6, <2>1, <2>2 DEF OwnerMovesTransaction
<1>32. ASSUME SaveGrant PROVE Rows' /\ References'
  <2>1. PICK p \in Id(projects), u \in Existing, level \in Level :
          /\ grants' = Granted(p, u, level)
          /\ taken' = taken \/ taken' = taken \cup {<<p, u>>}
    BY <1>32 DEF SaveGrant
  <2>2. <<p, u>> \in Nat \X User
    BY <1>1 DEF Rows, Id, ProjectRow, Existing
  <2>3. taken' \subseteq Nat \X User
    BY <1>1, <2>1, <2>2 DEF Rows
  <2> QED BY <1>1, <1>17, <1>32, <2>1, <2>3, GrantedTyped DEF SaveGrant
<1>33. ASSUME DeleteGrant PROVE Rows' /\ References'
  <2>1. PICK g \in grants : grants' = grants \ {g} /\ taken' = taken \cup {<<g.project, g.user>>}
    BY <1>33 DEF DeleteGrant
  <2>2. <<g.project, g.user>> \in Nat \X User
    BY <1>1 DEF Rows, GrantRow
  <2> QED BY <1>1, <1>18, <1>33, <2>1, <2>2 DEF DeleteGrant, Rows
<1>34. ASSUME SetStanding PROVE Rows' /\ References'
  <2>1. PICK u \in Existing, s \in {"active", "barred"} : standing' = [standing EXCEPT ![u] = s]
    BY <1>34 DEF SetStanding
  <2>2. /\ standing' \in [User -> {"active", "barred", "deleted"}]
        /\ Existing \subseteq Existing'
    BY <1>1, <2>1 DEF Rows, Existing
  <2> QED BY <1>1, <1>34, <2>2 DEF SetStanding, Rows, References, Id
<1>35. ASSUME DeleteUser PROVE Rows' /\ References'
  <2>1. PICK u \in Existing :
          /\ standing' = [standing EXCEPT ![u] = "deleted"]
          /\ grants' = {g \in grants : g.user # u}
          /\ codes' = {c \in codes : c.user # u}
          /\ tokens' = {t \in tokens : t.user # u}
    BY <1>35 DEF DeleteUser
  <2>2. /\ standing' \in [User -> {"active", "barred", "deleted"}]
        /\ Existing \ {u} \subseteq Existing'
    BY <1>1, <2>1 DEF Rows, Existing
  <2> QED BY <1>1, <1>35, <2>1, <2>2 DEF DeleteUser, Rows, References, Id
<1> QED BY <1>2, <1>3, <1>10, <1>11, <1>12, <1>13, <1>15, <1>16, <1>19, <1>21, <1>22, <1>23,
           <1>25,
           <1>26, <1>27, <1>28, <1>29, <1>30, <1>31, <1>32, <1>33, <1>34, <1>35, <1>7, <1>8,
           <1>9 DEF Next

LEMMA TypeStep == TypeInv /\ [Next]_vars => TypeInv'
<1> SUFFICES ASSUME TypeInv, [Next]_vars PROVE TypeInv'
  OBVIOUS
<1>1. req' \in [Req -> Known]
  BY RequestsTyped
<1>2. CASE Next
  BY <1>1, <1>2, TablesTyped DEF TypeInv
<1>3. CASE UNCHANGED vars
  BY <1>3, TablesStutter DEF TypeInv, vars, tables
<1> QED BY <1>2, <1>3

\* The rows of every table keep their types, keys and references while requests and
\* owners interleave: no transaction, posting or grant refers to a project that was
\* deleted, no grant, code or token to a user who was, and a user has one grant per
\* project (schema.sql:36-48, 199-210).
THEOREM TypeCorrect == Spec => []TypeOK
BY InitTypes, TypeStep, TypeParts, PTL DEF Spec

-----------------------------------------------------------------------------
(* One token per code.                                                     *)

Exchanging(q) == q.pc \in {"mark", "token"}

\* As long as nothing excuses a second token for c: one request at most exchanges it,
\* before there is a token, and the code is marked before the token is issued.
ExchangedOnce(c) ==
  /\ \A q, r \in Req :
       (Exchanging(req[q]) /\ req[q].code = c.id /\ Exchanging(req[r]) /\ req[r].code = c.id)
         => q = r
  /\ \A r \in Req : Exchanging(req[r]) /\ req[r].code = c.id =>
       /\ req[r].pc = "token" => c.used
       /\ \A t \in tokens : t.code # c.id
  /\ \A t \in tokens : t.code = c.id => c.used
  /\ \A t, u \in tokens : t.code = c.id /\ u.code = c.id => t = u

\* The ids of codes come from the sequence, also those that tokens and requests name.
CodeKeys ==
  /\ \A c \in codes : c.id <= seq.code
  /\ \A c, d \in codes : c.id = d.id => c = d
  /\ \A t \in tokens : t.code <= seq.code
  /\ \A r \in Req : Exchanging(req[r]) => req[r].code <= seq.code

ExchangeInv == CodeKeys /\ \A c \in codes : c.excused \/ ExchangedOnce(c)

\* Steps of requests that are not about codes leave those that are alone.
ExchangesKept ==
  \A r \in Req : Exchanging(req'[r]) =>
    req'[r].pc = req[r].pc /\ req'[r].code = req[r].code /\ req'[r].call = req[r].call

LEMMA BecomeKeeps ==
  ASSUME req \in [Req -> Known], NEW r \in Req, NEW n, Become(r, n), ~Exchanging(n)
  PROVE  ExchangesKept
BY DEF Become, ExchangesKept, Exchanging

LEMMA OvertakenKeeps ==
  ASSUME req \in [Req -> Known], NEW R, NEW r \in Req, NEW n, ~Exchanging(n),
         req' = Overtaken(R) \/ req' = [Overtaken(R) EXCEPT ![r] = n]
  PROVE  ExchangesKept
BY OvertakenFacts DEF SameButOvertaken, ExchangesKept, Exchanging

CodeSteps == Approve \/ \E r \in Req : ReadCode(r) \/ MarkCode(r) \/ IssueToken(r)

LEMMA OtherStepsKeep ==
  ASSUME TypeInv, [Next]_vars, ~CodeSteps
  PROVE  ExchangesKept /\ codes' \subseteq codes /\ tokens' \subseteq tokens /\ seq'.code = seq.code
<1>1. /\ req \in [Req -> Known]
      /\ seq \in [project: Nat, tx: Nat, code: Nat, token: Nat, call: Nat]
  BY DEF TypeInv, Rows
<1>2. ~Exchanging(Idle) /\ \A r \in Req : ~Exchanging(Finish(req[r]))
  BY DEF Exchanging, Idle, Finish
<1>3. ASSUME NEW r \in Req, ArriveAtWeb(r) \/ ArriveAtMcp(r)
      PROVE  ExchangesKept
  <2>1. PICK pc, u, k :
          /\ pc \in FirstPc
          /\ \/ Become(r, [Idle EXCEPT !.pc = pc, !.user = u])
             \/ Become(r, [Idle EXCEPT !.pc = pc, !.user = u, !.call = k])
    BY <1>3 DEF ArriveAtWeb, ArriveAtMcp
  <2>2. /\ ~Exchanging([Idle EXCEPT !.pc = pc, !.user = u])
        /\ ~Exchanging([Idle EXCEPT !.pc = pc, !.user = u, !.call = k])
    BY <2>1 DEF Exchanging, FirstPc, Idle
  <2> QED BY <1>1, <2>1, <2>2, BecomeKeeps
<1>4. ASSUME NEW r \in Req,
             CheckTransaction(r) \/ CheckProject(r) \/ ChooseAllocation(r) \/ CreateProject(r)
      PROVE  ExchangesKept
  <2>1. req[r] \in Request
    BY <1>1 DEF Known
  <2>2. PICK pc \in Checking \cup {"grant"} : \E n :
          \/ Become(r, [req[r] EXCEPT !.tx = n, !.pc = pc])
          \/ Become(r, [req[r] EXCEPT !.project = n, !.pc = pc])
          \/ Become(r, [req[r] EXCEPT !.pc = pc, !.project = n])
    BY <1>4 DEF CheckTransaction, CheckProject, ChooseAllocation, CreateProject, Checking
  <2>3. PICK n :
          \/ Become(r, [req[r] EXCEPT !.tx = n, !.pc = pc])
          \/ Become(r, [req[r] EXCEPT !.project = n, !.pc = pc])
          \/ Become(r, [req[r] EXCEPT !.pc = pc, !.project = n])
    BY <2>2
  <2>4. /\ ~Exchanging([req[r] EXCEPT !.tx = n, !.pc = pc])
        /\ ~Exchanging([req[r] EXCEPT !.project = n, !.pc = pc])
        /\ ~Exchanging([req[r] EXCEPT !.pc = pc, !.project = n])
    BY <2>1 DEF Exchanging, Request, Checking
  <2> QED BY <1>1, <2>3, <2>4, BecomeKeeps
<1>5. ASSUME NEW r \in Req,
             \/ CreateTransaction(r) \/ Charge(r) \/ UpdateProject(r) \/ GrantCreator(r)
             \/ StatementFails(r) \/ Audit(r) \/ RequestFails(r)
      PROVE  ExchangesKept
  BY <1>1, <1>2, <1>5, BecomeKeeps
     DEF CreateTransaction, Charge, UpdateProject, GrantCreator, StatementFails, Audit,
         RequestFails, AfterError
<1>6. ASSUME NEW r \in Req, MoveTransaction(r) \/ Uncharge(r) \/ DeleteProject(r)
      PROVE  ExchangesKept
  BY <1>1, <1>2, <1>6, BecomeKeeps, OvertakenKeeps DEF MoveTransaction, Uncharge, DeleteProject
<1>7. ASSUME NEW R, req' = Overtaken(R)
      PROVE  ExchangesKept
  BY <1>1, <1>7, OvertakenFacts DEF SameButOvertaken, ExchangesKept, Exchanging
<1>8. ASSUME req' = req
      PROVE  ExchangesKept
  BY <1>8 DEF ExchangesKept
<1>9. ExchangesKept
  BY <1>3, <1>4, <1>5, <1>6, <1>7, <1>8
     DEF Next, vars, CodeSteps, OwnerCreatesProject, OwnerDeletesProject,
         OwnerCreatesTransaction,
         OwnerMovesTransaction, OwnerCharges, SaveGrant, DeleteGrant, SetStanding, DeleteUser
<1>10. codes' \subseteq codes /\ tokens' \subseteq tokens
  BY DEF Next, vars, CodeSteps, OwnerCreatesProject, OwnerDeletesProject,
         OwnerCreatesTransaction,
         OwnerMovesTransaction, OwnerCharges, SaveGrant, DeleteGrant, SetStanding, DeleteUser,
         ArriveAtWeb, ArriveAtMcp, CheckTransaction, CheckProject, ChooseAllocation,
         CreateTransaction, MoveTransaction, Charge, Uncharge, UpdateProject, DeleteProject,
         CreateProject, GrantCreator, Audit, StatementFails, RequestFails, tables
<1>11. seq'.code = seq.code
  BY <1>1
     DEF Next, vars, CodeSteps, OwnerCreatesProject, OwnerDeletesProject,
         OwnerCreatesTransaction,
         OwnerMovesTransaction, OwnerCharges, SaveGrant, DeleteGrant, SetStanding, DeleteUser,
         ArriveAtWeb, ArriveAtMcp, CheckTransaction, CheckProject, ChooseAllocation,
         CreateTransaction, MoveTransaction, Charge, Uncharge, UpdateProject, DeleteProject,
         CreateProject, GrantCreator, Audit, StatementFails, RequestFails, tables
<1> QED BY <1>9, <1>10, <1>11

LEMMA OtherStepsExchange ==
  ASSUME TypeInv, ExchangeInv, [Next]_vars, ~CodeSteps
  PROVE  ExchangeInv'
<1>1. ExchangesKept /\ codes' \subseteq codes /\ tokens' \subseteq tokens /\ seq'.code = seq.code
  BY OtherStepsKeep
<1>2. CodeKeys'
  BY <1>1 DEF ExchangeInv, CodeKeys, ExchangesKept, Exchanging
<1>3. ASSUME NEW c \in codes', ~c.excused PROVE ExchangedOnce(c)'
  <2>1. ExchangedOnce(c)
    BY <1>1, <1>3 DEF ExchangeInv
  <2> QED BY <1>1, <2>1 DEF ExchangedOnce, ExchangesKept, Exchanging
<1> QED BY <1>2, <1>3 DEF ExchangeInv

\* The steps of the exchange.
LEMMA CodeStepsExchange ==
  ASSUME TypeInv, ExchangeInv, CodeSteps
  PROVE  ExchangeInv'
<1>1. /\ req \in [Req -> Known] /\ codes \subseteq CodeRow /\ tokens \subseteq TokenRow
      /\ seq \in [project: Nat, tx: Nat, code: Nat, token: Nat, call: Nat]
  BY DEF TypeInv, Rows
<1>2. ASSUME Approve PROVE ExchangeInv'
  <2>1. PICK u : codes' = codes \cup {[id |-> seq.code + 1, user |-> u, used |-> FALSE,
                                      excused |-> FALSE]}
    BY <1>2 DEF Approve
  <2> PICK new : new = [id |-> seq.code + 1, user |-> u, used |-> FALSE, excused |-> FALSE]
    OBVIOUS
  <2>2. /\ codes' = codes \cup {new} /\ new.id = seq.code + 1 /\ seq'.code = seq.code + 1
        /\ seq.code \in Nat /\ UNCHANGED <<req, tokens>>
    BY <1>1, <1>2, <2>1 DEF Approve
  <2>3. /\ \A c \in codes : c.id \in Nat
        /\ \A t \in tokens : t.code \in Nat
        /\ \A r \in Req : req[r].code \in Nat
    BY <1>1 DEF CodeRow, TokenRow, Known, Request
  <2>4. CodeKeys'
    <3>1. CodeKeys
      BY DEF ExchangeInv
    <3>2. \A c \in codes' : c.id <= seq'.code
      BY <2>2, <2>3, <3>1 DEF CodeKeys
    <3>3. \A c \in codes : c.id # new.id
      BY <2>2, <2>3, <3>1 DEF CodeKeys
    <3>4. \A c, d \in codes' : c.id = d.id => c = d
      BY <2>2, <3>1, <3>3 DEF CodeKeys
    <3>5. /\ \A t \in tokens' : t.code <= seq'.code
          /\ \A r \in Req : Exchanging(req'[r]) => req'[r].code <= seq'.code
      BY <2>2, <2>3, <3>1 DEF CodeKeys
    <3> QED BY <3>2, <3>4, <3>5 DEF CodeKeys
  <2>5. ASSUME NEW c \in codes PROVE c.excused \/ ExchangedOnce(c)'
    BY <2>2 DEF ExchangeInv, ExchangedOnce
  <2>6. /\ \A t \in tokens : t.code # seq.code + 1
        /\ \A r \in Req : Exchanging(req[r]) => req[r].code # seq.code + 1
    BY <2>2, <2>3 DEF ExchangeInv, CodeKeys
  <2>7. ExchangedOnce(new)'
    BY <2>2, <2>6 DEF ExchangedOnce
  <2> QED BY <2>2, <2>4, <2>5, <2>7 DEF ExchangeInv
<1>3. ASSUME NEW r \in Req, ReadCode(r) PROVE ExchangeInv'
  <2> DEFINE Raced(c) == \E q \in Req : req[q].pc = "mark" /\ req[q].code = c.id
  <2>1. PICK c \in codes :
          /\ ~c.used
          /\ Become(r, [Idle EXCEPT !.pc = "mark", !.user = c.user, !.code = c.id])
          /\ codes' = (codes \ {c}) \cup {[c EXCEPT !.excused = @ \/ Raced(c)]}
    BY <1>3 DEF ReadCode, Fresh
  <2> PICK new : new = [c EXCEPT !.excused = @ \/ Raced(c)]
    OBVIOUS
  <2>2. /\ req'[r].pc = "mark" /\ req'[r].code = c.id /\ req[r].pc = "idle"
        /\ \A q \in Req : q # r => req'[q] = req[q]
    BY <1>1, <1>3, <2>1 DEF Become, Idle, ReadCode, Busy
  <2>3. /\ new.id = c.id /\ new.used = c.used
        /\ ~new.excused => ~c.excused /\ ~Raced(c)
    BY <1>1 DEF CodeRow
  <2>4. codes' = (codes \ {c}) \cup {new} /\ tokens' = tokens /\ seq' = seq
    BY <1>3, <2>1 DEF ReadCode
  <2>5. CodeKeys'
    <3>1. CodeKeys
      BY DEF ExchangeInv
    <3>2. /\ \A d \in codes' : d.id <= seq'.code
          /\ \A d, e \in codes' : d.id = e.id => d = e
      <4>1. new.id = c.id
        BY <2>3
      <4>2. \A d \in codes \ {c} : d.id # c.id
        BY <3>1 DEF CodeKeys
      <4>3. \A d \in codes' : d = new \/ d \in codes \ {c}
        BY <2>4
      <4>4. /\ \A d \in codes : d.id <= seq'.code
            /\ \A d, e \in codes : d.id = e.id => d = e
        BY <2>4, <3>1 DEF CodeKeys
      <4> QED BY <4>1, <4>2, <4>3, <4>4
    <3>3. \A q \in Req : Exchanging(req'[q]) => req'[q].code <= seq'.code
      BY <2>2, <2>4, <3>1 DEF CodeKeys
    <3> QED BY <2>4, <3>1, <3>2, <3>3 DEF CodeKeys
  <2>6. ASSUME NEW d \in codes, d # c, ~d.excused PROVE ExchangedOnce(d)'
    <3>1. ExchangedOnce(d) /\ d.id # c.id
      BY <2>6 DEF ExchangeInv, CodeKeys
    <3> QED BY <2>2, <2>4, <3>1 DEF ExchangedOnce, Exchanging
  <2>7. ASSUME ~new.excused PROVE ExchangedOnce(new)'
    <3>1. ExchangedOnce(c)
      BY <2>3, <2>7 DEF ExchangeInv
    <3>2. /\ \A q \in Req : Exchanging(req[q]) => req[q].code # c.id
          /\ \A t \in tokens : t.code # c.id
      BY <2>1, <2>3, <2>7, <3>1 DEF ExchangedOnce, Exchanging
    <3> QED BY <2>2, <2>3, <2>4, <3>2 DEF ExchangedOnce, Exchanging
  <2> QED BY <2>4, <2>5, <2>6, <2>7 DEF ExchangeInv
<1>4. ASSUME NEW r \in Req, MarkCode(r) PROVE ExchangeInv'
  <2>1. req[r] \in Request /\ req[r].pc = "mark"
    BY <1>1, <1>4 DEF MarkCode, Known
  <2>2. /\ req'[r].pc = "token" /\ req'[r].code = req[r].code
        /\ \A q \in Req : q # r => req'[q] = req[q]
        /\ tokens' = tokens /\ seq' = seq
    BY <1>1, <1>4, <2>1 DEF MarkCode, Become, Request
  <2>3. PICK done \in BOOLEAN :
          codes' = {IF c.id # req[r].code THEN c
                    ELSE IF done THEN [c EXCEPT !.used = TRUE]
                    ELSE [c EXCEPT !.excused = TRUE] : c \in codes}
    BY <1>4 DEF MarkCode
  <2>4. ASSUME NEW c \in codes'
        PROVE  \E d \in codes : /\ c.id = d.id
                                /\ c.id # req[r].code => c = d
                                /\ c.id = req[r].code => c.used \/ c.excused
                                /\ ~c.excused => ~d.excused
                                /\ d.used => c.used
    <3>1. PICK d \in codes : c = IF d.id # req[r].code THEN d
                                ELSE IF done THEN [d EXCEPT !.used = TRUE]
                                ELSE [d EXCEPT !.excused = TRUE]
      BY <2>3, <2>4
    <3>2. d \in CodeRow
      BY <1>1
    <3> QED BY <3>1, <3>2 DEF CodeRow
  <2>5. CodeKeys'
    <3>1. ASSUME NEW c1 \in codes', NEW c2 \in codes', c1.id = c2.id PROVE c1 = c2
      <4>1. PICK d1 \in codes : /\ c1.id = d1.id
                                /\ c1 = IF d1.id # req[r].code THEN d1
                                        ELSE IF done THEN [d1 EXCEPT !.used = TRUE]
                                        ELSE [d1 EXCEPT !.excused = TRUE]
        BY <1>1, <2>3 DEF CodeRow
      <4>2. PICK d2 \in codes : /\ c2.id = d2.id
                                /\ c2 = IF d2.id # req[r].code THEN d2
                                        ELSE IF done THEN [d2 EXCEPT !.used = TRUE]
                                        ELSE [d2 EXCEPT !.excused = TRUE]
        BY <1>1, <2>3 DEF CodeRow
      <4>3. d1 = d2
        BY <3>1, <4>1, <4>2 DEF ExchangeInv, CodeKeys
      <4> QED BY <4>1, <4>2, <4>3
    <3> QED BY <2>1, <2>2, <2>4, <3>1 DEF ExchangeInv, CodeKeys, Exchanging
  <2>6. ASSUME NEW c \in codes', ~c.excused PROVE ExchangedOnce(c)'
    <3>1. PICK d \in codes : /\ c.id = d.id
                             /\ c.id = req[r].code => c.used \/ c.excused
                             /\ ~c.excused => ~d.excused
                             /\ d.used => c.used
      BY <2>4, <2>6
    <3>2. ~d.excused /\ c.id = d.id
      BY <2>6, <3>1
    <3>3. ExchangedOnce(d)
      BY <3>2 DEF ExchangeInv
    <3>4. (c.id = req[r].code => c.used) /\ (d.used => c.used)
      BY <2>6, <3>1
    <3>5. \A q, x \in Req :
            (Exchanging(req'[q]) /\ req'[q].code = c.id /\ Exchanging(req'[x])
               /\ req'[x].code = c.id) => q = x
      BY <2>1, <2>2, <3>2, <3>3 DEF ExchangedOnce, Exchanging
    <3>6. \A q \in Req : Exchanging(req'[q]) /\ req'[q].code = c.id => \A t \in tokens : t.code # c.id
      BY <2>1, <2>2, <3>2, <3>3 DEF ExchangedOnce, Exchanging
    <3>7. \A q \in Req : Exchanging(req'[q]) /\ req'[q].code = c.id =>
                        (req'[q].pc = "token" => c.used)
      BY <2>1, <2>2, <3>2, <3>3, <3>4 DEF ExchangedOnce, Exchanging
    <3>8. \A t \in tokens : t.code = c.id => c.used
      BY <3>2, <3>3, <3>4 DEF ExchangedOnce
    <3>9. \A t, u \in tokens : t.code = c.id /\ u.code = c.id => t = u
      BY <3>2, <3>3 DEF ExchangedOnce
    <3> QED BY <2>2, <3>5, <3>6, <3>7, <3>8, <3>9 DEF ExchangedOnce
  <2> QED BY <2>5, <2>6 DEF ExchangeInv
<1>5. ASSUME NEW r \in Req, IssueToken(r) PROVE ExchangeInv'
  <2> DEFINE new == [id |-> seq.token + 1, code |-> req[r].code, user |-> req[r].user]
  <2>1. /\ req[r].pc = "token" /\ req'[r].pc = "idle"
        /\ \A q \in Req : q # r => req'[q] = req[q]
        /\ codes' = codes /\ seq'.code = seq.code
    BY <1>1, <1>5 DEF IssueToken, Become, Idle
  <2>2. tokens' = tokens \cup {new} /\ new.code = req[r].code
    BY <1>5 DEF IssueToken
  <2> HIDE DEF new
  <2>3. CodeKeys'
    BY <2>1, <2>2 DEF ExchangeInv, CodeKeys, Exchanging
  <2>4. ASSUME NEW c \in codes, ~c.excused PROVE ExchangedOnce(c)'
    <3>1. ExchangedOnce(c)
      BY <2>4 DEF ExchangeInv
    <3> QED BY <2>1, <2>2, <3>1 DEF ExchangedOnce, Exchanging
  <2> QED BY <2>1, <2>3, <2>4 DEF ExchangeInv
<1> QED BY <1>2, <1>3, <1>4, <1>5 DEF CodeSteps

\* A code gets a second token only if two requests read it before one of them marked
\* it, or if the UPDATE that marks it failed (oauth.go:169): no interleaving of other
\* requests, and no deletion of users, tokens or projects in between, yields one.
THEOREM OneToken == Spec => []OneTokenPerCode
<1>1. Init => ExchangeInv
  BY DEF Init, ExchangeInv, CodeKeys, Exchanging, Idle
<1>2. TypeInv /\ ExchangeInv /\ [Next]_vars => ExchangeInv'
  BY OtherStepsExchange, CodeStepsExchange
<1>3. ExchangeInv => OneTokenPerCode
  <2> SUFFICES ASSUME ExchangeInv, NEW c \in codes, ~c.excused,
                      Cardinality({t \in tokens : t.code = c.id}) > 1
               PROVE  FALSE
    BY DEF OneTokenPerCode
  <2>1. \A t, u \in {t \in tokens : t.code = c.id} : t = u
    BY DEF ExchangeInv, ExchangedOnce
  <2>2. CASE {t \in tokens : t.code = c.id} = {}
    BY <2>2, FS_EmptySet
  <2>3. CASE \E u : {t \in tokens : t.code = c.id} = {u}
    BY <2>3, FS_Singleton
  <2> QED BY <2>1, <2>2, <2>3
<1> QED BY <1>1, <1>2, <1>3, InitTypes, TypeStep, PTL DEF Spec

-----------------------------------------------------------------------------
(* Writers are logged.                                                     *)

\* The call is in the log, or somebody will account for it.
Accounted(k) ==
  \/ k \in audit \cup unlogged \cup {0}
  \/ \E r \in Req : Busy(req[r]) /\ req[r].call = k

\* An exchange of a code is no call.
ExchangesAreNoCalls == \A r \in Req : Exchanging(req[r]) => req[r].call = 0

LogInv == WritersAreLogged /\ ExchangesAreNoCalls

\* A request that goes on keeps its call.
LEMMA BecomeAccounts ==
  ASSUME req \in [Req -> Known], NEW r \in Req, NEW n, Become(r, n),
         audit \subseteq audit', unlogged \subseteq unlogged',
         Busy(req[r]) /\ req[r].call # 0 =>
           \/ n.pc # "idle" /\ n.call = req[r].call
           \/ req[r].call \in audit' \cup unlogged',
         NEW k, Accounted(k)
  PROVE  Accounted(k)'
<1>1. req'[r] = n /\ \A q \in Req : q # r => req'[q] = req[q]
  BY DEF Become
<1>2. CASE k \in audit \cup unlogged \cup {0}
  BY <1>2 DEF Accounted
<1>3. CASE k # 0 /\ \E q \in Req : Busy(req[q]) /\ req[q].call = k
  <2>1. PICK q \in Req : Busy(req[q]) /\ req[q].call = k
    BY <1>3
  <2>2. CASE q # r
    BY <1>1, <2>1, <2>2 DEF Accounted, Busy
  <2>3. CASE q = r
    BY <1>1, <1>3, <2>1, <2>3 DEF Accounted, Busy
  <2> QED BY <2>2, <2>3
<1> QED BY <1>2, <1>3 DEF Accounted

LEMMA OvertakenAccounts ==
  ASSUME req \in [Req -> Known], NEW R, NEW r \in Req, NEW n,
         \/ req' = Overtaken(R)
         \/ /\ req' = [Overtaken(R) EXCEPT ![r] = n]
            /\ Busy(req[r]) /\ req[r].call # 0 => n.pc # "idle" /\ n.call = req[r].call,
         UNCHANGED <<audit, unlogged>>, NEW k, Accounted(k)
  PROVE  Accounted(k)'
<1>1. \A q \in Req : \/ req'[q].pc = req[q].pc /\ req'[q].call = req[q].call
                     \/ /\ q = r /\ req'[q] = n
                        /\ Busy(req[q]) /\ req[q].call # 0 => n.pc # "idle" /\ n.call = req[q].call
  BY OvertakenFacts DEF SameButOvertaken
<1> QED BY <1>1 DEF Accounted, Busy

\* Once a call is accounted for it stays so.
LEMMA StaysAccounted ==
  ASSUME TypeInv, ExchangesAreNoCalls, [Next]_vars, NEW k, Accounted(k)
  PROVE  Accounted(k)'
<1>1. req \in [Req -> Known]
  BY DEF TypeInv
<1>2. \A r \in Req : Busy(req[r]) => /\ Finish(req[r]).call = req[r].call
                                     /\ req[r].call # 0 => Finish(req[r]).pc = "audit"
  BY <1>1, FinishFacts DEF Busy
<1>3. ASSUME NEW r \in Req, ArriveAtWeb(r) \/ ArriveAtMcp(r) \/ ReadCode(r)
      PROVE  Accounted(k)'
  <2>1. PICK n : Become(r, n) /\ UNCHANGED <<audit, unlogged>>
    BY <1>3 DEF ArriveAtWeb, ArriveAtMcp, ReadCode, tables
  <2>2. ~Busy(req[r])
    BY <1>3 DEF ArriveAtWeb, ArriveAtMcp, ReadCode
  <2> QED BY <1>1, <2>1, <2>2, BecomeAccounts
<1>4. ASSUME NEW r \in Req,
             \/ CheckTransaction(r) \/ CheckProject(r) \/ ChooseAllocation(r) \/ CreateProject(r)
             \/ MarkCode(r)
      PROVE  Accounted(k)'
  <2>1. req[r] \in Request /\ UNCHANGED <<audit, unlogged>>
    BY <1>1, <1>4 DEF Known, CheckTransaction, CheckProject, ChooseAllocation, CreateProject,
                      MarkCode, tables
  <2>2. PICK pc \in Checking \cup {"grant", "token"} : \E n :
          \/ Become(r, [req[r] EXCEPT !.tx = n, !.pc = pc])
          \/ Become(r, [req[r] EXCEPT !.project = n, !.pc = pc])
          \/ Become(r, [req[r] EXCEPT !.pc = pc, !.project = n])
          \/ Become(r, [req[r] EXCEPT !.pc = pc])
    BY <1>4 DEF CheckTransaction, CheckProject, ChooseAllocation, CreateProject, MarkCode,
                Checking
  <2>3. PICK n :
          \/ Become(r, [req[r] EXCEPT !.tx = n, !.pc = pc])
          \/ Become(r, [req[r] EXCEPT !.project = n, !.pc = pc])
          \/ Become(r, [req[r] EXCEPT !.pc = pc, !.project = n])
          \/ Become(r, [req[r] EXCEPT !.pc = pc])
    BY <2>2
  <2>4. ASSUME NEW m, \/ m = [req[r] EXCEPT !.tx = n, !.pc = pc]
                      \/ m = [req[r] EXCEPT !.project = n, !.pc = pc]
                      \/ m = [req[r] EXCEPT !.pc = pc, !.project = n]
                      \/ m = [req[r] EXCEPT !.pc = pc]
        PROVE  m.pc # "idle" /\ m.call = req[r].call
    BY <2>1, <2>4 DEF Request, Checking
  <2>5. PICK m : Become(r, m) /\ m.pc # "idle" /\ m.call = req[r].call
    BY <2>3, <2>4
  <2> QED BY <1>1, <2>1, <2>5, BecomeAccounts
<1>5. ASSUME NEW r \in Req,
             \/ CreateTransaction(r) \/ Charge(r) \/ UpdateProject(r) \/ GrantCreator(r)
             \/ StatementFails(r)
      PROVE  Accounted(k)'
  <2>1. Become(r, Finish(req[r])) /\ UNCHANGED <<audit, unlogged>>
    BY <1>5
       DEF CreateTransaction, Charge, UpdateProject, GrantCreator, StatementFails, AfterError
  <2>2. Busy(req[r]) /\ req[r].call # 0 =>
          Finish(req[r]).pc # "idle" /\ Finish(req[r]).call = req[r].call
    BY <1>2
  <2> QED BY <1>1, <2>1, <2>2, BecomeAccounts
<1>6. ASSUME NEW r \in Req, Audit(r) \/ RequestFails(r) \/ IssueToken(r)
      PROVE  Accounted(k)'
  <2>1. Become(r, Idle) /\ audit \subseteq audit' /\ unlogged \subseteq unlogged'
    BY <1>6 DEF Audit, RequestFails, IssueToken
  <2>2. req[r].call # 0 => req[r].call \in audit' \cup unlogged'
    BY <1>6 DEF Audit, RequestFails, IssueToken, ExchangesAreNoCalls, Exchanging
  <2> QED BY <1>1, <2>1, <2>2, BecomeAccounts
<1>7. ASSUME NEW r \in Req, MoveTransaction(r) \/ Uncharge(r) \/ DeleteProject(r)
      PROVE  Accounted(k)'
  <2>1. UNCHANGED <<audit, unlogged>>
    BY <1>7 DEF MoveTransaction, Uncharge, DeleteProject
  <2>2. Busy(req[r]) /\ req[r].call # 0 =>
          Finish(req[r]).pc # "idle" /\ Finish(req[r]).call = req[r].call
    BY <1>2
  <2>3. CASE Become(r, Finish(req[r]))
    BY <1>1, <2>1, <2>2, <2>3, BecomeAccounts
  <2>4. ASSUME NEW R, NEW n, req' = [Overtaken(R) EXCEPT ![r] = n],
               n = Finish(req[r]) \/ req[r].call = 0
        PROVE  Accounted(k)'
    BY <1>1, <2>1, <2>2, <2>4, OvertakenAccounts
  <2> QED BY <1>7, <2>3, <2>4 DEF MoveTransaction, Uncharge, DeleteProject
<1>8. ASSUME NEW R, req' = Overtaken(R), UNCHANGED <<audit, unlogged>>
      PROVE  Accounted(k)'
  BY <1>1, <1>8, OvertakenFacts DEF SameButOvertaken, Accounted, Busy
<1>9. ASSUME UNCHANGED <<req, audit, unlogged>>
      PROVE  Accounted(k)'
  BY <1>9 DEF Accounted
<1> QED BY <1>3, <1>4, <1>5, <1>6, <1>7, <1>8, <1>9
        DEF Next, vars, Approve, OwnerCreatesProject, OwnerDeletesProject,
            OwnerCreatesTransaction,
            OwnerMovesTransaction, OwnerCharges, SaveGrant, DeleteGrant, SetStanding, DeleteUser

\* A row carries the call of a row that was there, none, or that of a request that is
\* accounted for.
LEMMA RowsCarryCalls ==
  ASSUME TypeInv, LogInv, [Next]_vars, NEW row \in projects' \cup txs'
  PROVE  Accounted(row.call)
<1>1. /\ req \in [Req -> Known] /\ projects \subseteq ProjectRow /\ txs \subseteq TxRow
      /\ \A old \in projects \cup txs : Accounted(old.call)
      /\ Accounted(0)
      /\ \A r \in Req : Busy(req[r]) => Accounted(req[r].call)
  BY DEF TypeInv, Rows, LogInv, WritersAreLogged, Accounted
<1>2. ASSUME projects' \subseteq projects, txs' \subseteq txs PROVE Accounted(row.call)
  BY <1>1, <1>2
<1>3. ASSUME NEW r \in Req, CreateTransaction(r) PROVE Accounted(row.call)
  <2>1. row \in projects \cup txs \/ row.call = req[r].call
    BY <1>3 DEF CreateTransaction
  <2> QED BY <1>1, <1>3, <2>1 DEF CreateTransaction, Busy
<1>4. ASSUME NEW r \in Req, MoveTransaction(r) PROVE Accounted(row.call)
  <2>1. \/ row \in projects \cup txs
        \/ \E t \in txs : row = [t EXCEPT !.project = req[r].project, !.call = req[r].call]
    BY <1>4 DEF MoveTransaction
  <2>2. \A t \in txs : [t EXCEPT !.project = req[r].project, !.call = req[r].call].call = req[r].call
    BY <1>1 DEF TxRow
  <2>3. Accounted(req[r].call)
    BY <1>1, <1>4 DEF MoveTransaction, Busy
  <2> QED BY <1>1, <2>1, <2>2, <2>3
<1>5. ASSUME NEW t \in txs, NEW k, Accounted(k), projects' = projects,
             \/ \E p : \/ Replace(t, [t EXCEPT !.posted = @ \ {p}])
                       \/ Replace(t, [t EXCEPT !.posted = @ \cup {p}])
                       \/ Replace(t, [t EXCEPT !.project = p, !.call = k])
                       \/ Replace(t, [t EXCEPT !.posted = @ \cup ({p} \ {0}), !.call = k])
      PROVE  Accounted(row.call)
  <2>1. PICK p : \/ row \in projects \cup txs
                 \/ row = [t EXCEPT !.posted = @ \ {p}]
                 \/ row = [t EXCEPT !.posted = @ \cup {p}]
                 \/ row = [t EXCEPT !.project = p, !.call = k]
                 \/ row = [t EXCEPT !.posted = @ \cup ({p} \ {0}), !.call = k]
    BY <1>5 DEF Replace
  <2>2. t \in TxRow
    BY <1>1
  <2>3. row \in projects \cup txs \/ row.call = t.call \/ row.call = k
    BY <2>1, <2>2 DEF TxRow
  <2> QED BY <1>1, <1>5, <2>3
<1>6. ASSUME NEW r \in Req, Charge(r) PROVE Accounted(row.call)
  <2>1. PICK t \in txs :
          Replace(t, [t EXCEPT !.posted = @ \cup ({req[r].project} \ {0}),
                               !.call = IF req[r].call = 0 THEN @ ELSE req[r].call])
    BY <1>6 DEF Charge
  <2>2. PICK k : k = IF req[r].call = 0 THEN t.call ELSE req[r].call
    OBVIOUS
  <2>3. Accounted(k)
    BY <1>1, <1>6, <2>2 DEF Charge, Busy
  <2>4. Replace(t, [t EXCEPT !.posted = @ \cup ({req[r].project} \ {0}), !.call = k])
    BY <2>1, <2>2
  <2> QED BY <1>5, <1>6, <2>3, <2>4 DEF Charge
<1>7. ASSUME NEW r \in Req, Uncharge(r) PROVE Accounted(row.call)
  BY <1>1, <1>5, <1>7 DEF Uncharge
<1>8. ASSUME OwnerCharges PROVE Accounted(row.call)
  BY <1>1, <1>5, <1>8 DEF OwnerCharges
<1>9. ASSUME NEW r \in Req, UpdateProject(r) PROVE Accounted(row.call)
  <2>1. row \in projects \cup txs \/ \E p \in projects : row = [p EXCEPT !.call = req[r].call]
    BY <1>9 DEF UpdateProject
  <2>2. \A p \in projects : [p EXCEPT !.call = req[r].call].call = req[r].call
    BY <1>1 DEF ProjectRow
  <2>3. Accounted(req[r].call)
    BY <1>1, <1>9 DEF UpdateProject, Busy
  <2> QED BY <1>1, <2>1, <2>2, <2>3
<1>10. ASSUME NEW p, RemoveProject(p) PROVE Accounted(row.call)
  <2>1. row \in projects \/ \E t \in txs : row = [t EXCEPT !.project = IF @ = p THEN 0 ELSE @,
                                                      !.posted = @ \ {p}]
    BY <1>10 DEF RemoveProject, Leave
  <2>2. \A t \in txs : [t EXCEPT !.project = IF @ = p THEN 0 ELSE @,
                                 !.posted = @ \ {p}].call = t.call
    BY <1>1 DEF TxRow
  <2> QED BY <1>1, <2>1, <2>2
<1>11. ASSUME NEW r \in Req, CreateProject(r) PROVE Accounted(row.call)
  <2>1. row \in projects \cup txs \/ row.call = req[r].call
    BY <1>11 DEF CreateProject
  <2> QED BY <1>1, <1>11, <2>1 DEF CreateProject, Busy
<1>12. ASSUME OwnerCreatesProject \/ OwnerCreatesTransaction PROVE Accounted(row.call)
  <2>1. row \in projects \cup txs \/ row.call = 0
    BY <1>12 DEF OwnerCreatesProject, OwnerCreatesTransaction
  <2> QED BY <1>1, <2>1
<1>13. ASSUME OwnerMovesTransaction PROVE Accounted(row.call)
  BY <1>1, <1>2, <1>13, <1>5 DEF OwnerMovesTransaction
<1>14. ASSUME UNCHANGED <<projects, txs>> PROVE Accounted(row.call)
  BY <1>1, <1>14
<1> QED BY <1>2, <1>3, <1>4, <1>9, <1>10, <1>11, <1>12, <1>13, <1>14, <1>6, <1>7, <1>8
        DEF Next, vars, tables, ArriveAtWeb, ArriveAtMcp, CheckTransaction, CheckProject,
            ChooseAllocation, DeleteProject, GrantCreator, Audit, StatementFails,
            RequestFails, ReadCode, MarkCode,
            IssueToken, Approve, OwnerDeletesProject, SaveGrant, DeleteGrant, SetStanding,
            DeleteUser

LEMMA NoCallsStep ==
  ASSUME TypeInv, ExchangesAreNoCalls, [Next]_vars
  PROVE  ExchangesAreNoCalls'
<1>1. req \in [Req -> Known]
  BY DEF TypeInv, Rows
<1>2. CASE ~CodeSteps
  BY <1>2, OtherStepsKeep DEF ExchangesKept, ExchangesAreNoCalls, Exchanging
<1>3. ASSUME Approve PROVE ExchangesAreNoCalls'
  BY <1>3 DEF Approve, ExchangesAreNoCalls
<1>4. ASSUME NEW r \in Req, ReadCode(r) \/ MarkCode(r) \/ IssueToken(r)
      PROVE  ExchangesAreNoCalls'
  <2>1. req'[r].call = 0 /\ \A q \in Req : q # r => req'[q] = req[q]
    <3>1. CASE ReadCode(r)
      BY <1>1, <3>1 DEF ReadCode, Become, Idle
    <3>2. CASE MarkCode(r)
      <4>1. req[r] \in Request /\ req[r].call = 0
        BY <1>1, <3>2 DEF Known, MarkCode, ExchangesAreNoCalls, Exchanging
      <4> QED BY <1>1, <3>2, <4>1 DEF MarkCode, Become, Request
    <3>3. CASE IssueToken(r)
      BY <1>1, <3>3 DEF IssueToken, Become, Idle
    <3> QED BY <1>4, <3>1, <3>2, <3>3
  <2> QED BY <2>1 DEF ExchangesAreNoCalls
<1> QED BY <1>2, <1>3, <1>4 DEF CodeSteps

\* README.md:59, "all MCP calls are written to mcp_audit_log": whatever row carries the
\* mark of an MCP call, that call is in the log, still about to be logged, or was kept
\* out of it by a failure; no failed check or statement on the way skips the log
\* (protocol.go:53-58).
THEOREM WritersLogged == Spec => []WritersAreLogged
<1>1. Init => LogInv
  BY DEF Init, LogInv, WritersAreLogged, ExchangesAreNoCalls, Exchanging, Idle
<1>2. TypeInv /\ LogInv /\ [Next]_vars => LogInv'
  <2> SUFFICES ASSUME TypeInv, LogInv, [Next]_vars PROVE LogInv'
    OBVIOUS
  <2>1. ExchangesAreNoCalls'
    BY NoCallsStep DEF LogInv
  <2>2. ASSUME NEW row \in projects' \cup txs' PROVE Accounted(row.call)'
    <3>1. PICK k : k = row.call
      OBVIOUS
    <3>2. Accounted(k)
      BY <3>1, RowsCarryCalls
    <3>3. Accounted(k)'
      BY <3>2, StaysAccounted DEF LogInv
    <3> QED BY <3>1, <3>3
  <2> QED BY <2>1, <2>2 DEF LogInv, WritersAreLogged, Accounted
<1> QED BY <1>1, <1>2, InitTypes, TypeStep, PTL DEF Spec, LogInv

-----------------------------------------------------------------------------
(* Creators may write.                                                     *)

\* The grant that a request is about to give is its creator's, of a project that has
\* been created.
GrantsAreCreators ==
  /\ \A p \in projects : p.id <= seq.project
  /\ \A r \in Req : req[r].pc = "grant" =>
       /\ req[r].project <= seq.project
       /\ \A p \in projects : p.id = req[r].project => p.maker = req[r].user

CreatorInv == CreatorsMayWrite /\ GrantsAreCreators

\* Whoever still has to give a grant does not lose track of it.
GrantersKept ==
  \A r \in Req : /\ req[r].pc = "grant" <=> req'[r].pc = "grant"
                 /\ req[r].project = req'[r].project \/ req[r].pc # "grant"
                 /\ req[r].user = req'[r].user \/ req[r].pc # "grant"

\* A step that neither makes a project nor takes a grant away unnoticed.
LEMMA QuietForCreators ==
  ASSUME TypeInv, CreatorInv, GrantersKept, Existing' \subseteq Existing,
         seq'.project = seq.project,
         \A p \in projects' : \E old \in projects : p.id = old.id /\ p.maker = old.maker,
         \A p \in projects', u \in Existing' :
           MayWrite(p.id, u) \/ <<p.id, u>> \in taken =>
             MayWrite(p.id, u)' \/ <<p.id, u>> \in taken'
  PROVE  CreatorInv'
<1>1. CreatorsMayWrite'
  <2> SUFFICES ASSUME NEW p \in projects', p.maker \in Existing'
               PROVE  \/ MayWrite(p.id, p.maker)' \/ <<p.id, p.maker>> \in taken'
                      \/ \E r \in Req : req'[r].pc = "grant" /\ req'[r].project = p.id
    BY DEF CreatorsMayWrite, MayWrite
  <2>1. PICK old \in projects : p.id = old.id /\ p.maker = old.maker
    OBVIOUS
  <2>2. \/ MayWrite(p.id, p.maker) \/ <<p.id, p.maker>> \in taken
        \/ \E r \in Req : req[r].pc = "grant" /\ req[r].project = p.id
    BY <2>1 DEF CreatorInv, CreatorsMayWrite
  <2> QED BY <2>2 DEF GrantersKept
<1>2. GrantsAreCreators'
  BY DEF CreatorInv, GrantsAreCreators, GrantersKept
<1> QED BY <1>1, <1>2 DEF CreatorInv

LEMMA BecomeKeepsGranters ==
  ASSUME req \in [Req -> Known], NEW r \in Req, NEW n, Become(r, n),
         req[r].pc # "grant", n.pc # "grant"
  PROVE  GrantersKept
BY DEF Become, GrantersKept

LEMMA OvertakenKeepsGranters ==
  ASSUME req \in [Req -> Known], NEW R, NEW r \in Req, NEW n,
         \/ req' = Overtaken(R)
         \/ req' = [Overtaken(R) EXCEPT ![r] = n] /\ req[r].pc # "grant" /\ n.pc # "grant"
  PROVE  GrantersKept
<1>1. \A q \in Req : \/ SameButOvertaken(req[q], req'[q])
                     \/ q = r /\ req[r].pc # "grant" /\ req'[r].pc # "grant"
  BY OvertakenFacts
<1> QED BY <1>1 DEF SameButOvertaken, GrantersKept

\* Requests that neither begin nor end a pair of a project and its grant.
LEMMA RequestsKeepGranters ==
  ASSUME TypeInv, NEW r \in Req,
         \/ ArriveAtWeb(r) \/ ArriveAtMcp(r)
         \/ CheckTransaction(r) \/ CheckProject(r) \/ ChooseAllocation(r)
         \/ CreateTransaction(r) \/ MoveTransaction(r) \/ Charge(r) \/ Uncharge(r)
         \/ UpdateProject(r) \/ DeleteProject(r) \/ Audit(r) \/ ReadCode(r) \/ MarkCode(r) \/ IssueToken(r)
         \/ (StatementFails(r) \/ RequestFails(r)) /\ req[r].pc # "grant"
  PROVE  GrantersKept
<1>1. req \in [Req -> Known] /\ req[r] \in Request
  BY DEF TypeInv, Known
<1>2. Idle.pc # "grant" /\ Finish(req[r]).pc # "grant"
  BY DEF Idle, Finish
<1>3. CASE ArriveAtWeb(r) \/ ArriveAtMcp(r)
  <2>1. PICK pc, u, k :
          /\ pc \in FirstPc
          /\ \/ Become(r, [Idle EXCEPT !.pc = pc, !.user = u])
             \/ Become(r, [Idle EXCEPT !.pc = pc, !.user = u, !.call = k])
    BY <1>3 DEF ArriveAtWeb, ArriveAtMcp
  <2>2. /\ [Idle EXCEPT !.pc = pc, !.user = u].pc # "grant"
        /\ [Idle EXCEPT !.pc = pc, !.user = u, !.call = k].pc # "grant"
    BY <2>1 DEF FirstPc, Idle
  <2>3. req[r].pc # "grant"
    BY <1>3 DEF ArriveAtWeb, ArriveAtMcp, Busy
  <2> QED BY <1>1, <2>1, <2>2, <2>3, BecomeKeepsGranters
<1>4. CASE CheckTransaction(r) \/ CheckProject(r) \/ ChooseAllocation(r) \/ MarkCode(r)
  <2>1. PICK pc \in Checking \cup {"token"} : \E n :
          \/ Become(r, [req[r] EXCEPT !.tx = n, !.pc = pc])
          \/ Become(r, [req[r] EXCEPT !.project = n, !.pc = pc])
          \/ Become(r, [req[r] EXCEPT !.pc = pc])
    BY <1>4 DEF CheckTransaction, CheckProject, ChooseAllocation, MarkCode, Checking
  <2>2. PICK n :
          \/ Become(r, [req[r] EXCEPT !.tx = n, !.pc = pc])
          \/ Become(r, [req[r] EXCEPT !.project = n, !.pc = pc])
          \/ Become(r, [req[r] EXCEPT !.pc = pc])
    BY <2>1
  <2>3. /\ [req[r] EXCEPT !.tx = n, !.pc = pc].pc # "grant"
        /\ [req[r] EXCEPT !.project = n, !.pc = pc].pc # "grant"
        /\ [req[r] EXCEPT !.pc = pc].pc # "grant"
    BY <1>1 DEF Request, Checking
  <2>4. req[r].pc # "grant"
    BY <1>4 DEF CheckTransaction, CheckProject, ChooseAllocation, MarkCode
  <2> QED BY <1>1, <2>2, <2>3, <2>4, BecomeKeepsGranters
<1>5. CASE \/ CreateTransaction(r) \/ Charge(r) \/ UpdateProject(r) \/ Audit(r) \/ IssueToken(r)
           \/ (StatementFails(r) \/ RequestFails(r)) /\ req[r].pc # "grant"
  <2>1. Become(r, Idle) \/ Become(r, Finish(req[r]))
    BY <1>5 DEF CreateTransaction, Charge, UpdateProject, Audit, IssueToken, StatementFails,
                RequestFails, AfterError
  <2>2. req[r].pc # "grant"
    BY <1>5 DEF CreateTransaction, Charge, UpdateProject, Audit, IssueToken
  <2> QED BY <1>1, <1>2, <2>1, <2>2, BecomeKeepsGranters
<1>6. CASE MoveTransaction(r) \/ Uncharge(r) \/ DeleteProject(r)
  BY <1>1, <1>2, <1>6, BecomeKeepsGranters, OvertakenKeepsGranters
     DEF MoveTransaction, Uncharge, DeleteProject
<1>7. CASE ReadCode(r)
  <2>1. PICK u, k : Become(r, [Idle EXCEPT !.pc = "mark", !.user = u, !.code = k])
    BY <1>7 DEF ReadCode
  <2>2. [Idle EXCEPT !.pc = "mark", !.user = u, !.code = k].pc # "grant" /\ req[r].pc # "grant"
    BY <1>7 DEF ReadCode, Idle, Busy
  <2> QED BY <1>1, <2>1, <2>2, BecomeKeepsGranters
<1> QED BY <1>3, <1>4, <1>5, <1>6, <1>7

\* A step that leaves projects, grants and users alone.
LEMMA StillCreators ==
  ASSUME TypeInv, CreatorInv, GrantersKept, Existing' = Existing, seq'.project = seq.project,
         UNCHANGED <<projects, grants>>, taken \subseteq taken'
  PROVE  CreatorInv'
BY QuietForCreators DEF MayWrite

\* Deleting a project takes its grants and nobody else's.
LEMMA RemoveForCreators ==
  ASSUME TypeInv, CreatorInv, GrantersKept, NEW x, RemoveProject(x), UNCHANGED <<standing, seq>>
  PROVE  CreatorInv'
<1>1. Existing' \subseteq Existing /\ seq'.project = seq.project
  BY DEF Existing
<1>2. \A p \in projects' : p \in projects /\ p.id # x
  BY DEF RemoveProject
<1>3. \A p \in projects', u \in Existing' :
        MayWrite(p.id, u) \/ <<p.id, u>> \in taken => MayWrite(p.id, u)' \/ <<p.id, u>> \in taken'
  BY <1>2 DEF RemoveProject, MayWrite
<1> QED BY <1>1, <1>2, <1>3, QuietForCreators

\* A grant for writing is the one row that CanAccessProject finds.
LEMMA AccessIsGrant ==
  ASSUME grants \subseteq GrantRow, NEW p, NEW u
  PROVE  CanAccessProject(p, u) <=> MayWrite(p, u)
<1>1. \A g \in grants : g.project = p /\ g.user = u /\ g.level = "write" =>
        g = [project |-> p, user |-> u, level |-> "write"]
  BY DEF GrantRow
<1> QED BY <1>1 DEF CanAccessProject, MayWrite

\* What a grant that is given changes.
LEMMA GrantedFacts ==
  ASSUME NEW p, NEW u, NEW level, grants' = Granted(p, u, level)
  PROVE  /\ level = "write" => MayWrite(p, u)'
         /\ \A x, v : MayWrite(x, v) /\ (x # p \/ v # u \/ level = "write") => MayWrite(x, v)'
BY DEF Granted, MayWrite

LEMMA OwnersForCreators ==
  ASSUME TypeInv, CreatorInv, SaveGrant \/ DeleteGrant \/ DeleteUser
  PROVE  CreatorInv'
<1>1. req \in [Req -> Known] /\ grants \subseteq GrantRow
      /\ standing \in [User -> {"active", "barred", "deleted"}]
  BY DEF TypeInv, Rows
<1>2. UNCHANGED projects /\ UNCHANGED seq
  BY DEF SaveGrant, DeleteGrant, DeleteUser
<1>3. CASE SaveGrant
  <2>1. PICK p \in Id(projects), u \in Existing, level \in Level :
          /\ grants' = Granted(p, u, level)
          /\ IF level = "read" /\ CanAccessProject(p, u)
               THEN /\ taken' = taken \cup {<<p, u>>}
                    /\ req' = Overtaken(RequestsOf(u) \cap Relying(p))
               ELSE UNCHANGED <<taken, req>>
    BY <1>3 DEF SaveGrant
  <2>2. GrantersKept
    <3>1. CASE req' = Overtaken(RequestsOf(u) \cap Relying(p))
      BY <1>1, <3>1, OvertakenFacts DEF SameButOvertaken, GrantersKept
    <3> QED BY <2>1, <3>1 DEF GrantersKept
  <2>3. taken \subseteq taken' /\ Existing' = Existing
    BY <1>3, <2>1 DEF SaveGrant, Existing
  <2>4. ASSUME NEW x, NEW v, MayWrite(x, v) PROVE MayWrite(x, v)' \/ <<x, v>> \in taken'
    <3>1. CASE x = p /\ v = u /\ level = "read"
      BY <1>1, <2>1, <2>4, <3>1, AccessIsGrant
    <3>2. level \in {"read", "write"}
      BY DEF Level
    <3> QED BY <2>1, <2>4, <3>1, <3>2, GrantedFacts
  <2> QED BY <1>2, <2>2, <2>3, <2>4, QuietForCreators
<1>4. CASE DeleteGrant
  <2>1. PICK g \in grants : /\ grants' = grants \ {g}
                            /\ taken' = taken \cup {<<g.project, g.user>>}
                            /\ req' = Overtaken(RequestsOf(g.user) \cap Relying(g.project))
    BY <1>4 DEF DeleteGrant
  <2>2. GrantersKept /\ Existing' = Existing
    BY <1>1, <1>4, <2>1, OvertakenFacts DEF SameButOvertaken, GrantersKept, DeleteGrant,
                                            Existing
  <2>3. ASSUME NEW x, NEW v, MayWrite(x, v) PROVE MayWrite(x, v)' \/ <<x, v>> \in taken'
    BY <2>1, <2>3 DEF MayWrite
  <2> QED BY <1>2, <2>1, <2>2, <2>3, QuietForCreators
<1>5. CASE DeleteUser
  <2>1. PICK u \in Existing : /\ standing' = [standing EXCEPT ![u] = "deleted"]
                              /\ grants' = {g \in grants : g.user # u}
                              /\ req' = Overtaken(RequestsOf(u))
                              /\ taken' = taken
    BY <1>5 DEF DeleteUser
  <2>2. GrantersKept
    BY <1>1, <2>1, OvertakenFacts DEF SameButOvertaken, GrantersKept
  <2>3. Existing' \subseteq Existing \ {u}
    BY <1>1, <2>1 DEF Existing
  <2>4. ASSUME NEW x, NEW v \in Existing', MayWrite(x, v) PROVE MayWrite(x, v)'
    BY <2>1, <2>3, <2>4 DEF MayWrite
  <2> QED BY <1>2, <2>1, <2>2, <2>3, <2>4, QuietForCreators
<1> QED BY <1>3, <1>4, <1>5

\* A project is created, by a request that is to grant access to it or by an owner.
LEMMA CreateForCreators ==
  ASSUME TypeInv, CreatorInv,
         OwnerCreatesProject \/ \E r \in Req : CreateProject(r)
  PROVE  CreatorInv'
<1>1. /\ req \in [Req -> Known] /\ projects \subseteq ProjectRow
      /\ seq.project \in Nat /\ seq'.project = seq.project + 1
      /\ \A p \in projects : p.id \in Nat
      /\ \A r \in Req : req[r].project \in Nat
  BY DEF TypeInv, Rows, ProjectRow, Known, Request, OwnerCreatesProject, CreateProject
<1>2. /\ Existing' = Existing /\ Existing \subseteq User
      /\ UNCHANGED <<grants, taken>>
  BY DEF OwnerCreatesProject, CreateProject, Existing
<1>3. ASSUME NEW new, new.id = seq.project + 1, projects' = projects \cup {new},
             \A r \in Req : req[r].pc = "grant" => req'[r] = req[r],
             \A r \in Req : req'[r].pc = "grant" /\ req[r].pc # "grant" =>
                            req'[r].project = new.id /\ req'[r].user = new.maker,
             new.maker \in User => \E r \in Req : req'[r].pc = "grant" /\ req'[r].project = new.id
      PROVE  CreatorInv'
  <2>1. CreatorsMayWrite'
    <3> SUFFICES ASSUME NEW p \in projects', p.maker \in Existing'
                 PROVE  \/ MayWrite(p.id, p.maker)' \/ <<p.id, p.maker>> \in taken'
                        \/ \E r \in Req : req'[r].pc = "grant" /\ req'[r].project = p.id
      BY DEF CreatorsMayWrite, MayWrite
    <3>1. CASE p \in projects
      BY <1>2, <1>3, <3>1 DEF CreatorInv, CreatorsMayWrite, MayWrite
    <3>2. CASE p = new
      BY <1>2, <1>3, <3>2
    <3> QED BY <1>3, <3>1, <3>2
  <2>2. \A p \in projects' : p.id <= seq'.project
    BY <1>1, <1>3 DEF CreatorInv, GrantsAreCreators
  <2>3. ASSUME NEW r \in Req, req'[r].pc = "grant"
        PROVE  /\ req'[r].project <= seq'.project
               /\ \A p \in projects' : p.id = req'[r].project => p.maker = req'[r].user
    <3>1. \A p \in projects : p.id # new.id
      BY <1>1, <1>3 DEF CreatorInv, GrantsAreCreators
    <3>2. CASE req[r].pc = "grant"
      <4>1. req'[r] = req[r] /\ req[r].project <= seq.project
        BY <1>3, <3>2 DEF CreatorInv, GrantsAreCreators
      <4>2. req[r].project # new.id
        BY <1>1, <1>3, <4>1
      <4> QED BY <1>1, <1>3, <3>2, <4>1, <4>2 DEF CreatorInv, GrantsAreCreators
    <3>3. CASE req[r].pc # "grant"
      BY <1>1, <1>3, <2>3, <3>1, <3>3
    <3> QED BY <3>2, <3>3
  <2> QED BY <2>1, <2>2, <2>3 DEF CreatorInv, GrantsAreCreators
<1>4. CASE OwnerCreatesProject
  <2>1. PICK new : new = [id |-> seq.project + 1, maker |-> "owner", call |-> 0]
    OBVIOUS
  <2>2. new.id = seq.project + 1 /\ new.maker \notin User /\ projects' = projects \cup {new}
        /\ req' = req
    BY <1>4, <2>1, ConstantsAssumption DEF OwnerCreatesProject
  <2> QED BY <1>3, <2>2
<1>5. ASSUME NEW r \in Req, CreateProject(r) PROVE CreatorInv'
  <2>1. PICK new : new = [id |-> seq.project + 1, maker |-> req[r].user, call |-> req[r].call]
    OBVIOUS
  <2>2. new.id = seq.project + 1 /\ new.maker = req[r].user /\ projects' = projects \cup {new}
    BY <1>5, <2>1 DEF CreateProject
  <2>3. req[r] \in Request /\ req[r].pc = "create"
    BY <1>1, <1>5 DEF Known, CreateProject
  <2>4. /\ req'[r].pc = "grant" /\ req'[r].project = new.id /\ req'[r].user = new.maker
        /\ \A q \in Req : q # r => req'[q] = req[q]
    BY <1>1, <1>5, <2>2, <2>3 DEF CreateProject, Become, Request
  <2> QED BY <1>3, <2>2, <2>3, <2>4
<1> QED BY <1>4, <1>5

\* The grant is given, or a failure keeps the creator from it.
LEMMA GrantForCreators ==
  ASSUME TypeInv, CreatorInv, NEW r \in Req, req[r].pc = "grant",
         GrantCreator(r) \/ StatementFails(r) \/ RequestFails(r)
  PROVE  CreatorInv'
<1>1. req \in [Req -> Known] /\ UNCHANGED <<standing, projects, seq>>
  BY DEF TypeInv, GrantCreator, StatementFails, RequestFails
<1>2. /\ req'[r].pc # "grant" /\ \A q \in Req : q # r => req'[q] = req[q]
  <2>1. Idle.pc # "grant" /\ Finish(req[r]).pc # "grant"
    BY DEF Finish, Idle
  <2>2. Become(r, Idle) \/ Become(r, Finish(req[r]))
    BY DEF GrantCreator, StatementFails, RequestFails, AfterError
  <2> QED BY <1>1, <2>1, <2>2 DEF Become
<1>3. GrantsAreCreators'
  BY <1>1, <1>2 DEF CreatorInv, GrantsAreCreators
<1>4. ASSUME NEW p \in projects, p.maker \in Existing
      PROVE  \/ MayWrite(p.id, p.maker)' \/ <<p.id, p.maker>> \in taken'
             \/ \E q \in Req : req'[q].pc = "grant" /\ req'[q].project = p.id
  <2>1. CASE req[r].project = p.id
    <3>1. p.maker = req[r].user /\ p.id \in Id(projects)
      BY <2>1 DEF CreatorInv, GrantsAreCreators, Id
    <3>2. CASE GrantCreator(r)
      <4>1. grants' = Granted(p.id, p.maker, "write")
        BY <1>4, <2>1, <3>1, <3>2 DEF GrantCreator
      <4> QED BY <4>1, GrantedFacts
    <3>3. CASE StatementFails(r) \/ RequestFails(r)
      BY <2>1, <3>1, <3>3 DEF StatementFails, RequestFails, LeaveUndone
    <3> QED BY <3>2, <3>3
  <2>2. CASE req[r].project # p.id
    <3>1. \/ MayWrite(p.id, p.maker) \/ <<p.id, p.maker>> \in taken
          \/ \E q \in Req : req[q].pc = "grant" /\ req[q].project = p.id
      BY <1>4 DEF CreatorInv, CreatorsMayWrite
    <3>2. taken \subseteq taken'
      BY DEF GrantCreator, StatementFails, RequestFails, LeaveUndone
    <3>3. MayWrite(p.id, p.maker) => MayWrite(p.id, p.maker)'
      <4>1. CASE UNCHANGED grants
        BY <4>1 DEF MayWrite
      <4>2. CASE grants' = Granted(req[r].project, req[r].user, "write")
        BY <4>2, GrantedFacts
      <4> QED BY <4>1, <4>2 DEF GrantCreator, StatementFails, RequestFails
    <3> QED BY <1>2, <2>2, <3>1, <3>2, <3>3
  <2> QED BY <2>1, <2>2
<1>5. CreatorsMayWrite'
  BY <1>1, <1>4 DEF CreatorsMayWrite, Existing, MayWrite
<1> QED BY <1>3, <1>5 DEF CreatorInv

LEMMA CreatorStep ==
  ASSUME TypeInv, CreatorInv, [Next]_vars
  PROVE  CreatorInv'
<1>1. req \in [Req -> Known]
      /\ seq \in [project: Nat, tx: Nat, code: Nat, token: Nat, call: Nat]
      /\ standing \in [User -> {"active", "barred", "deleted"}]
      /\ projects \subseteq ProjectRow
  BY DEF TypeInv, Rows
<1>2. ASSUME NEW r \in Req,
             \/ ArriveAtWeb(r) \/ ArriveAtMcp(r)
             \/ CheckTransaction(r) \/ CheckProject(r) \/ ChooseAllocation(r)
             \/ CreateTransaction(r) \/ MoveTransaction(r) \/ Charge(r) \/ Uncharge(r)
             \/ Audit(r) \/ ReadCode(r) \/ MarkCode(r) \/ IssueToken(r)
             \/ (StatementFails(r) \/ RequestFails(r)) /\ req[r].pc # "grant"
      PROVE  CreatorInv'
  <2>1. GrantersKept
    BY <1>2, RequestsKeepGranters, Zenon
  <2>2. UNCHANGED <<standing, projects, grants>> /\ taken \subseteq taken'
    BY <1>2 DEF ArriveAtWeb, ArriveAtMcp, CheckTransaction, CheckProject, ChooseAllocation,
                CreateTransaction, MoveTransaction, Charge, Uncharge, Audit, ReadCode,
                MarkCode, IssueToken, StatementFails,
                RequestFails, LeaveUndone, tables
  <2>3. seq'.project = seq.project
    BY <1>1, <1>2
       DEF ArriveAtWeb, ArriveAtMcp, CheckTransaction, CheckProject, ChooseAllocation,
           CreateTransaction, MoveTransaction, Charge, Uncharge, Audit, ReadCode, MarkCode,
           IssueToken, StatementFails,
           RequestFails, tables
  <2> QED BY <2>1, <2>2, <2>3, StillCreators DEF Existing
<1>3. ASSUME NEW r \in Req, UpdateProject(r) PROVE CreatorInv'
  <2>1. GrantersKept
    BY <1>3, RequestsKeepGranters
  <2>2. ASSUME NEW p \in projects'
        PROVE  \E old \in projects : p.id = old.id /\ p.maker = old.maker
    <3>1. PICK old \in projects : p = old \/ p = [old EXCEPT !.call = req[r].call]
      BY <1>3 DEF UpdateProject
    <3> QED BY <1>1, <3>1 DEF ProjectRow
  <2>3. UNCHANGED <<standing, grants, seq, taken>>
    BY <1>3 DEF UpdateProject
  <2> QED BY <2>1, <2>2, <2>3, QuietForCreators DEF Existing, MayWrite
<1>4. ASSUME NEW r \in Req, DeleteProject(r) PROVE CreatorInv'
  BY <1>4, RequestsKeepGranters, RemoveForCreators DEF DeleteProject
<1>5. ASSUME OwnerDeletesProject PROVE CreatorInv'
  <2>1. PICK p : RemoveProject(p) /\ req' = Overtaken(Relying(p))
    BY <1>5 DEF OwnerDeletesProject
  <2>2. GrantersKept
    BY <1>1, <2>1, OvertakenFacts DEF SameButOvertaken, GrantersKept
  <2> QED BY <1>5, <2>1, <2>2, RemoveForCreators DEF OwnerDeletesProject
<1>6. ASSUME Approve \/ OwnerCreatesTransaction \/ OwnerMovesTransaction \/ OwnerCharges
             \/ SetStanding \/ UNCHANGED vars
      PROVE  CreatorInv'
  <2>1. GrantersKept
    <3>1. CASE req' = req
      BY <3>1 DEF GrantersKept
    <3>2. ASSUME NEW R, req' = Overtaken(R) PROVE GrantersKept
      BY <1>1, <3>2, OvertakenFacts DEF SameButOvertaken, GrantersKept
    <3> QED BY <1>6, <3>1, <3>2
            DEF Approve, OwnerCreatesTransaction, OwnerMovesTransaction, OwnerCharges,
                SetStanding,
                vars
  <2>2. Existing' = Existing
    BY <1>1, <1>6 DEF Existing, Approve, OwnerCreatesTransaction, OwnerMovesTransaction,
                      OwnerCharges, SetStanding, vars
  <2>3. UNCHANGED <<projects, grants, taken>> /\ seq'.project = seq.project
    BY <1>1, <1>6 DEF Approve, OwnerCreatesTransaction, OwnerMovesTransaction, OwnerCharges,
                      SetStanding, vars
  <2> QED BY <2>1, <2>2, <2>3, StillCreators
<1>7. ASSUME NEW r \in Req, GrantCreator(r) \/ StatementFails(r) \/ RequestFails(r),
             req[r].pc = "grant"
      PROVE  CreatorInv'
  BY <1>7, GrantForCreators
<1>8. \A r \in Req : GrantCreator(r) => req[r].pc = "grant"
  BY DEF GrantCreator
<1> QED BY <1>2, <1>3, <1>4, <1>5, <1>6, <1>7, <1>8, CreateForCreators,
                                                                                              OwnersForCreators DEF Next

\* README.md:61: an accountant who creates a project can write to it, although project
\* and grant are two statements (projects.go:307-319, protocol.go:512-523).  Only an
\* owner, or a failure between the two, costs the creator the access, never another
\* request in between.
THEOREM CreatorsWrite == Spec => []CreatorsMayWrite
<1>1. Init => CreatorInv
  BY DEF Init, CreatorInv, CreatorsMayWrite, GrantsAreCreators, Idle
<1>2. TypeInv /\ CreatorInv /\ [Next]_vars => CreatorInv'
  BY CreatorStep
<1> QED BY <1>1, <1>2, InitTypes, TypeStep, PTL DEF Spec, CreatorInv

-----------------------------------------------------------------------------
(* Writes are granted.                                                     *)

\* Authorized, in terms of what the request names.
May(u, tx, project) ==
  /\ standing[u] = "active"
  /\ tx # 0 => \E t \in txs : t.id = tx /\ \E p \in ProjectsOf(t) : MayWrite(p, u)
  /\ project # 0 => MayWrite(project, u)

\* The project that the request checks.
Named(q) == IF ChecksProject(q) THEN q.project ELSE 0

\* What a request checked so far still holds, or the request knows it was overtaken.
Checked(q) ==
  q.pc \in Checking =>
    /\ May(q.user, q.tx, Named(q)) \/ q.overtaken
    /\ q.pc = "row" => q.tx = 0
    /\ q.pc \in {"row", "project", "choose"} => q.project = 0
    /\ q.pc = "choose" => q.call = 0

CheckedInv == \A r \in Req : Checked(req[r])

\* A transaction that gives access to no less.
Covers(n, t) == n.id = t.id /\ ProjectsOf(t) \subseteq ProjectsOf(n)

\* What a user may do to a transaction and a project rests on grants of these projects.
RestsOn(p, tx, project) ==
  (p = project /\ p # 0) \/ \E t \in txs : t.id = tx /\ p \in ProjectsOf(t)

\* What a user may do survives a step that takes none of the grants it rests on, and
\* leaves the transaction with those projects.
LEMMA MayStays ==
  ASSUME NEW u, NEW tx, NEW project, May(u, tx, project), standing'[u] = standing[u],
         \A p : MayWrite(p, u) /\ RestsOn(p, tx, project) => MayWrite(p, u)',
         \A t \in txs : t.id = tx =>
           \E n \in txs' : /\ n.id = t.id
                           /\ \A p \in ProjectsOf(t) : MayWrite(p, u)' => p \in ProjectsOf(n)
  PROVE  May(u, tx, project)'
<1>1. ASSUME tx # 0
      PROVE  \E n \in txs' : n.id = tx /\ \E p \in ProjectsOf(n) : MayWrite(p, u)'
  <2>1. PICK t \in txs : t.id = tx /\ \E p \in ProjectsOf(t) : MayWrite(p, u)
    BY <1>1 DEF May
  <2>2. PICK p \in ProjectsOf(t) : MayWrite(p, u)
    BY <2>1
  <2>3. MayWrite(p, u)'
    <3>1. RestsOn(p, tx, project)
      BY <2>1, <2>2 DEF RestsOn
    <3> QED BY <2>2, <3>1
  <2>4. PICK n \in txs' : /\ n.id = t.id
                          /\ \A x \in ProjectsOf(t) : MayWrite(x, u)' => x \in ProjectsOf(n)
    BY <2>1
  <2>5. n.id = tx /\ p \in ProjectsOf(n)
    BY <2>1, <2>2, <2>3, <2>4
  <2> QED BY <2>3, <2>5
<1>2. project # 0 => MayWrite(project, u)'
  BY DEF May, RestsOn
<1>3. tx # 0 => \E n \in txs' : n.id = tx /\ \E p \in ProjectsOf(n) : MayWrite(p, u)'
  BY <1>1
<1>4. standing'[u] = "active"
  BY DEF May
<1> QED BY <1>2, <1>3, <1>4 DEF May

\* A step that takes nothing away.
LEMMA MayKept ==
  ASSUME NEW u, NEW tx, NEW project, May(u, tx, project), standing'[u] = standing[u],
         \A p : MayWrite(p, u) => MayWrite(p, u)',
         \A t \in txs : t.id = tx => \E n \in txs' : Covers(n, t)
  PROVE  May(u, tx, project)'
<1>1. \A t \in txs : t.id = tx =>
        \E n \in txs' : /\ n.id = t.id
                        /\ \A p \in ProjectsOf(t) : MayWrite(p, u)' => p \in ProjectsOf(n)
  BY DEF Covers
<1>2. \A p : MayWrite(p, u) /\ RestsOn(p, tx, project) => MayWrite(p, u)'
  OBVIOUS
<1> QED BY <1>1, <1>2, MayStays

\* A step of one request that takes nothing from the others.
LEMMA BecomeChecked ==
  ASSUME TypeInv, CheckedInv, NEW r \in Req, NEW n, Become(r, n), Checked(n)',
         UNCHANGED standing, \A p, u : MayWrite(p, u) => MayWrite(p, u)',
         \A t \in txs : \E x \in txs' : Covers(x, t)
  PROVE  CheckedInv'
<1>1. req'[r] = n /\ \A q \in Req : q # r => req'[q] = req[q]
  BY DEF TypeInv, Become
<1>2. ASSUME NEW q \in Req, q # r PROVE Checked(req[q])'
  <2>1. req'[q] = req[q]
    BY <1>1, <1>2
  <2>2. PICK m : m = req[q]
    OBVIOUS
  <2>3. Checked(m)
    BY <2>2 DEF CheckedInv
  <2>4. ASSUME NEW u, NEW tx, NEW project, May(u, tx, project)
        PROVE  May(u, tx, project)'
    <3>1. standing'[u] = standing[u]
      OBVIOUS
    <3>2. \A p : MayWrite(p, u) => MayWrite(p, u)'
      OBVIOUS
    <3> QED BY <2>4, <3>1, <3>2, MayKept
  <2>5. Checked(m)'
    BY <2>3, <2>4 DEF Checked
  <2> QED BY <2>1, <2>2, <2>5
<1> QED BY <1>1, <1>2 DEF CheckedInv

\* A step that overtakes all requests whose authority it may take away.
LEMMA OvertakenChecked ==
  ASSUME TypeInv, CheckedInv, NEW R, NEW r \in Req, NEW n,
         \/ req' = Overtaken(R)
         \/ req' = [Overtaken(R) EXCEPT ![r] = n] /\ n.pc \notin Checking,
         \A u, tx, project :
           /\ \E q \in Req \ R : /\ req[q].pc \in Checking
                                 /\ u = req[q].user /\ tx = req[q].tx /\ project = Named(req[q])
           /\ May(u, tx, project)
           => May(u, tx, project)'
  PROVE  CheckedInv'
<1>1. req \in [Req -> Known]
  BY DEF TypeInv
<1>2. ASSUME NEW q \in Req, SameButOvertaken(req[q], req'[q]),
             \/ q \notin R
             \/ q \in R /\ (req[q].pc \in Checking => req'[q].overtaken)
      PROVE  Checked(req[q])'
  <2>1. PICK m, o : m = req'[q] /\ o = req[q]
    OBVIOUS
  <2>2. Checked(o) /\ SameButOvertaken(o, m)
    BY <1>2, <2>1 DEF CheckedInv
  <2>3. o.pc \in Checking => May(o.user, o.tx, Named(o))' \/ m.overtaken
    <3>1. CASE q \notin R
      <4>1. o.pc \in Checking =>
              (May(o.user, o.tx, Named(o)) => May(o.user, o.tx, Named(o))')
        BY <2>1, <3>1
      <4> QED BY <2>2, <4>1 DEF Checked, SameButOvertaken
    <3>2. CASE q \in R
      BY <1>2, <2>1, <3>2
    <3> QED BY <3>1, <3>2
  <2>4. Named(m) = Named(o)
    BY <2>2 DEF Named, ChecksProject, SameButOvertaken
  <2>5. Checked(m)'
    BY <2>2, <2>3, <2>4 DEF Checked, SameButOvertaken
  <2> QED BY <2>1, <2>5
<1>3. ASSUME NEW q \in Req, ~Checked(req[q])' PROVE FALSE
  <2>1. \/ req'[q] = Overtaken(R)[q]
        \/ q = r /\ req'[q] = n /\ n.pc \notin Checking
    BY <1>1, OvertakenFacts
  <2>2. CASE req'[q] = Overtaken(R)[q]
    <3>1. /\ SameButOvertaken(req[q], req'[q])
          /\ q \in R => (req[q].pc \in Checking => req'[q].overtaken)
      BY <1>1, <2>2, OvertakenFacts DEF Checking
    <3> QED BY <1>2, <1>3, <3>1
  <2>3. CASE req'[q] = n /\ n.pc \notin Checking
    BY <1>3, <2>3 DEF Checked
  <2> QED BY <2>1, <2>2, <2>3
<1> QED BY <1>3 DEF CheckedInv

\* Requests that begin or make a check.
LEMMA ChecksChecked ==
  ASSUME TypeInv, CheckedInv, NEW r \in Req,
         \/ ArriveAtWeb(r) \/ ArriveAtMcp(r)
         \/ CheckTransaction(r) \/ CheckProject(r) \/ ChooseAllocation(r)
  PROVE  CheckedInv'
<1>1. /\ req \in [Req -> Known] /\ grants \subseteq GrantRow
      /\ UNCHANGED <<standing, projects, grants, txs>>
  BY DEF TypeInv, Rows, ArriveAtWeb, ArriveAtMcp, CheckTransaction, CheckProject,
         ChooseAllocation,
         tables
<1>2. ASSUME NEW n, Become(r, n), Checked(n) PROVE CheckedInv'
  <2>1. Checked(n)'
    BY <1>1, <1>2 DEF Checked, May, MayWrite
  <2>2. \A p, u : MayWrite(p, u) => MayWrite(p, u)'
    BY <1>1 DEF MayWrite
  <2>3. \A t \in txs : \E x \in txs' : Covers(x, t)
    BY <1>1 DEF Covers
  <2> QED BY <1>1, <1>2, <2>1, <2>2, <2>3, BecomeChecked
<1>3. ASSUME NEW n, standing[n.user] = "active", n.pc \in FirstPc, n.tx = 0, n.project = 0
      PROVE  Checked(n)
  <2>1. n.pc # "choose"
    BY <1>3 DEF FirstPc
  <2> QED BY <1>3, <2>1 DEF Checked, May, Named
<1>4. CASE ArriveAtWeb(r)
  <2>1. PICK u \in User, pc \in FirstPc :
          standing[u] = "active" /\ Become(r, [Idle EXCEPT !.pc = pc, !.user = u])
    BY <1>4 DEF ArriveAtWeb
  <2>2. PICK n : n = [Idle EXCEPT !.pc = pc, !.user = u]
    OBVIOUS
  <2>3. n.pc = pc /\ n.user = u /\ n.tx = 0 /\ n.project = 0 /\ n.call = 0
    BY <2>2 DEF Idle
  <2>4. Checked(n)
    BY <1>3, <2>1, <2>3
  <2> QED BY <1>2, <2>1, <2>2, <2>4
<1>5. CASE ArriveAtMcp(r)
  <2>1. PICK t \in tokens, pc \in FirstPc :
          /\ standing[t.user] = "active"
          /\ Become(r, [Idle EXCEPT !.pc = pc, !.user = t.user, !.call = seq.call + 1])
    BY <1>5 DEF ArriveAtMcp
  <2>2. PICK n : n = [Idle EXCEPT !.pc = pc, !.user = t.user, !.call = seq.call + 1]
    OBVIOUS
  <2>3. n.pc = pc /\ n.user = t.user /\ n.tx = 0 /\ n.project = 0
    BY <2>2 DEF Idle
  <2>4. Checked(n)
    BY <1>3, <2>1, <2>3
  <2> QED BY <1>2, <2>1, <2>2, <2>4
<1>6. CASE CheckTransaction(r)
  <2>1. PICK t \in txs, pc \in {"project", "write", "choose", "uncharge"} :
          /\ CanAccessTransaction(t, req[r].user)
          /\ req[r].call = 0 \/ pc = "project"
          /\ Become(r, [req[r] EXCEPT !.tx = t.id, !.pc = pc])
    BY <1>6 DEF CheckTransaction
  <2>2. req[r] \in Request /\ req[r].pc = "row" /\ Checked(req[r])
    BY <1>1, <1>6 DEF CheckTransaction, Known, CheckedInv
  <2>3. \E p \in ProjectsOf(t) : MayWrite(p, req[r].user)
    BY <1>1, <2>1, AccessIsGrant DEF CanAccessTransaction
  <2>4. PICK n : n = [req[r] EXCEPT !.tx = t.id, !.pc = pc]
    OBVIOUS
  <2>5. /\ n.user = req[r].user /\ n.tx = t.id /\ n.project = req[r].project
        /\ n.pc = pc /\ n.overtaken = req[r].overtaken /\ n.call = req[r].call
    BY <2>2, <2>4 DEF Request
  <2>6. /\ req[r].project = 0
        /\ standing[req[r].user] = "active" \/ req[r].overtaken
    BY <2>2 DEF Checked, May, Checking
  <2>7. standing[req[r].user] = "active" => May(n.user, n.tx, Named(n))
    BY <2>3, <2>5, <2>6 DEF May, Named
  <2>8. May(n.user, n.tx, Named(n)) \/ n.overtaken
    BY <2>5, <2>6, <2>7
  <2>9. Checked(n)
    BY <2>1, <2>5, <2>6, <2>8 DEF Checked
  <2> QED BY <1>2, <2>1, <2>4, <2>9
<1>7. ASSUME NEW n, req[r].pc \in {"project", "choose"},
             /\ n.user = req[r].user /\ n.tx = req[r].tx /\ n.overtaken = req[r].overtaken
             /\ n.pc \in {"write", "charge"},
             Named(n) # 0 => MayWrite(Named(n), req[r].user)
      PROVE  Checked(n)
  <2>1. Checked(req[r])
    BY DEF CheckedInv
  <2>2. May(req[r].user, req[r].tx, Named(req[r])) \/ req[r].overtaken
    BY <1>7, <2>1 DEF Checked, Checking
  <2>3. May(req[r].user, req[r].tx, Named(req[r])) => May(n.user, n.tx, Named(n))
    BY <1>7 DEF May
  <2>4. May(n.user, n.tx, Named(n)) \/ n.overtaken
    BY <1>7, <2>2, <2>3
  <2> QED BY <1>7, <2>4 DEF Checked
<1>8. CASE CheckProject(r)
  <2>1. PICK p \in projects, pc \in {"write", "charge"} :
          /\ CanAccessProject(p.id, req[r].user)
          /\ Become(r, [req[r] EXCEPT !.project = p.id, !.pc = pc])
    BY <1>8 DEF CheckProject
  <2>2. req[r] \in Request /\ req[r].pc = "project"
    BY <1>1, <1>8 DEF CheckProject, Known
  <2>3. MayWrite(p.id, req[r].user)
    BY <1>1, <2>1, AccessIsGrant
  <2>4. PICK n : n = [req[r] EXCEPT !.project = p.id, !.pc = pc]
    OBVIOUS
  <2>5. /\ n.user = req[r].user /\ n.tx = req[r].tx /\ n.project = p.id
        /\ n.pc = pc /\ n.overtaken = req[r].overtaken
    BY <2>2, <2>4 DEF Request
  <2>6. Named(n) = p.id \/ Named(n) = 0
    BY <2>5 DEF Named
  <2>7. Checked(n)
    BY <1>7, <2>2, <2>3, <2>5, <2>6
  <2> QED BY <1>2, <2>1, <2>4, <2>7
<1>9. CASE ChooseAllocation(r)
  <2>1. PICK p : Become(r, [req[r] EXCEPT !.project = p, !.pc = "charge"])
    BY <1>9 DEF ChooseAllocation
  <2>2. req[r] \in Request /\ req[r].pc = "choose"
    BY <1>1, <1>9 DEF ChooseAllocation, Known
  <2>3. PICK n : n = [req[r] EXCEPT !.project = p, !.pc = "charge"]
    OBVIOUS
  <2>4. /\ n.user = req[r].user /\ n.tx = req[r].tx /\ n.pc = "charge" /\ n.call = req[r].call
        /\ n.overtaken = req[r].overtaken
    BY <2>2, <2>3 DEF Request
  <2>5. req[r].call = 0
    BY <2>2 DEF CheckedInv, Checked, Checking
  <2>6. Named(n) = 0
    BY <2>4, <2>5 DEF Named, ChecksProject
  <2>7. Checked(n)
    BY <1>7, <2>2, <2>4, <2>6
  <2> QED BY <1>2, <2>1, <2>3, <2>7
<1> QED BY <1>4, <1>5, <1>6, <1>8, <1>9

\* Requests that are past their checks, or have none, and take nothing away.
LEMMA RequestsChecked ==
  ASSUME TypeInv, CheckedInv, NEW r \in Req,
         \/ CreateTransaction(r) \/ Charge(r) \/ UpdateProject(r) \/ CreateProject(r)
         \/ GrantCreator(r) \/ Audit(r) \/ StatementFails(r) \/ RequestFails(r)
         \/ ReadCode(r) \/ MarkCode(r) \/ IssueToken(r)
         \/ Uncharge(r) /\ UNCHANGED txs /\ Become(r, Finish(req[r]))
  PROVE  CheckedInv'
<1>1. req \in [Req -> Known] /\ req[r] \in Request /\ txs \subseteq TxRow
  BY DEF TypeInv, Rows, Known
<1>2. PICK n : Become(r, n) /\ n.pc \notin Checking
  <2>1. Idle.pc \notin Checking /\ Finish(req[r]).pc \notin Checking
    BY DEF Idle, Finish, Checking
  <2>2. CASE Become(r, Idle) \/ Become(r, Finish(req[r]))
    BY <2>1, <2>2
  <2>3. CASE CreateProject(r)
    <3>1. [req[r] EXCEPT !.pc = "grant", !.project = seq.project + 1].pc \notin Checking
      BY <1>1 DEF Request, Checking
    <3> QED BY <2>3, <3>1 DEF CreateProject
  <2>4. CASE ReadCode(r)
    <3>1. PICK u, k : Become(r, [Idle EXCEPT !.pc = "mark", !.user = u, !.code = k])
      BY <2>4 DEF ReadCode
    <3>2. [Idle EXCEPT !.pc = "mark", !.user = u, !.code = k].pc \notin Checking
      BY DEF Idle, Checking
    <3> QED BY <3>1, <3>2
  <2>5. CASE MarkCode(r)
    <3>1. [req[r] EXCEPT !.pc = "token"].pc \notin Checking
      BY <1>1 DEF Request, Checking
    <3> QED BY <2>5, <3>1 DEF MarkCode
  <2> QED BY <2>2, <2>3, <2>4, <2>5
          DEF CreateTransaction, Charge, UpdateProject, GrantCreator, Audit, StatementFails,
              RequestFails, IssueToken, AfterError
<1>3. UNCHANGED standing
  BY DEF CreateTransaction, Charge, Uncharge, UpdateProject, CreateProject, GrantCreator, Audit,
         StatementFails, RequestFails, ReadCode, MarkCode, IssueToken
<1>4. \A p, u : MayWrite(p, u) => MayWrite(p, u)'
  <2>1. CASE UNCHANGED grants
    BY <2>1 DEF MayWrite
  <2>2. CASE grants' = Granted(req[r].project, req[r].user, "write")
    BY <2>2, GrantedFacts
  <2> QED BY <2>1, <2>2
          DEF CreateTransaction, Charge, Uncharge, UpdateProject, CreateProject,
              GrantCreator, Audit,
              StatementFails, RequestFails, ReadCode, MarkCode, IssueToken
<1>5. \A t \in txs : \E x \in txs' : Covers(x, t)
  <2>1. CASE txs \subseteq txs'
    BY <2>1 DEF Covers
  <2>2. CASE Charge(r)
    <3>1. PICK c \in txs :
            Replace(c, [c EXCEPT !.posted = @ \cup ({req[r].project} \ {0}),
                                 !.call = IF req[r].call = 0 THEN @ ELSE req[r].call])
      BY <2>2 DEF Charge
    <3>2. PICK row : row = [c EXCEPT !.posted = @ \cup ({req[r].project} \ {0}),
                                     !.call = IF req[r].call = 0 THEN @ ELSE req[r].call]
      OBVIOUS
    <3>3. txs' = (txs \ {c}) \cup {row}
      BY <3>1, <3>2 DEF Replace
    <3>4. row.id = c.id /\ row.project = c.project /\ c.posted \subseteq row.posted
      BY <1>1, <3>2 DEF TxRow
    <3>5. Covers(row, c)
      BY <3>4 DEF Covers, ProjectsOf
    <3> QED BY <3>3, <3>5 DEF Covers
  <2> QED BY <2>1, <2>2
          DEF CreateTransaction, UpdateProject, CreateProject, GrantCreator, Audit,
              StatementFails,
              RequestFails, ReadCode, MarkCode, IssueToken
<1>6. Checked(n)'
  BY <1>2 DEF Checked
<1> QED BY <1>2, <1>3, <1>4, <1>5, <1>6, BecomeChecked

\* Whoever did not check anything of a project does not mind its deletion.
LEMMA ProjectGone ==
  ASSUME TypeInv, NEW x, RemoveProject(x), UNCHANGED standing,
         NEW u, NEW tx, NEW project, May(u, tx, project), project = 0 \/ project # x,
         \A t \in txs : t.id = tx => x \notin ProjectsOf(t)
  PROVE  May(u, tx, project)'
<1>1. \A p : MayWrite(p, u) /\ p # x => MayWrite(p, u)'
  BY DEF RemoveProject, MayWrite
<1>2. ASSUME NEW t \in txs, t.id = tx
      PROVE  \E n \in txs' : /\ n.id = t.id
                             /\ \A p \in ProjectsOf(t) : MayWrite(p, u)' => p \in ProjectsOf(n)
  <2>1. PICK n : n = [t EXCEPT !.project = IF @ = x THEN 0 ELSE @, !.posted = @ \ {x}]
    OBVIOUS
  <2>2. t \in TxRow /\ x \notin ProjectsOf(t)
    BY <1>2 DEF TypeInv, Rows
  <2>3. n.id = t.id /\ n.project = t.project /\ n.posted = t.posted
    BY <2>1, <2>2 DEF TxRow, ProjectsOf
  <2>4. n \in txs'
    BY <2>1 DEF RemoveProject, Leave
  <2> QED BY <2>3, <2>4 DEF ProjectsOf
<1>3. \A p : RestsOn(p, tx, project) => p # x
  BY DEF RestsOn
<1>4. \A p : MayWrite(p, u) /\ RestsOn(p, tx, project) => MayWrite(p, u)'
  BY <1>1, <1>3
<1>5. \A t \in txs : t.id = tx =>
        \E n \in txs' : /\ n.id = t.id
                        /\ \A p \in ProjectsOf(t) : MayWrite(p, u)' => p \in ProjectsOf(n)
  BY <1>2
<1>6. standing'[u] = standing[u]
  OBVIOUS
<1> QED BY <1>4, <1>5, <1>6, MayStays

\* The deletion of a project overtakes those who rely on it.
LEMMA RemovalChecked ==
  ASSUME TypeInv, CheckedInv, NEW x, RemoveProject(x), UNCHANGED standing, NEW r \in Req, NEW n,
         \/ req' = Overtaken(Relying(x))
         \/ req' = [Overtaken(Relying(x)) EXCEPT ![r] = n] /\ n.pc \notin Checking
  PROVE  CheckedInv'
<1>1. PICK R : R = Relying(x)
  OBVIOUS
<1>2. ASSUME NEW u, NEW tx, NEW project, May(u, tx, project),
             NEW q \in Req \ R, u = req[q].user, tx = req[q].tx, project = Named(req[q])
      PROVE  May(u, tx, project)'
  <2>1. req[q].project # x /\ \A t \in txs : t.id = tx => x \notin ProjectsOf(t)
    BY <1>1, <1>2 DEF Relying
  <2>2. project = 0 \/ project # x
    BY <1>2, <2>1 DEF Named
  <2> QED BY <1>2, <2>1, <2>2, ProjectGone
<1> QED BY <1>1, <1>2, OvertakenChecked

\* A step that moves, deletes or uncharges transaction k overtakes those who named it.
LEMMA ReplacementChecked ==
  ASSUME TypeInv, CheckedInv, NEW k, NEW r \in Req, NEW n,
         \/ req' = Overtaken(RequestsFor(k))
         \/ req' = [Overtaken(RequestsFor(k)) EXCEPT ![r] = n] /\ n.pc \notin Checking,
         UNCHANGED <<standing, grants>>, \A t \in txs : t.id # k => t \in txs'
  PROVE  CheckedInv'
<1>1. PICK R : R = RequestsFor(k)
  OBVIOUS
<1>2. ASSUME NEW u, NEW tx, NEW project, tx # k, May(u, tx, project)
      PROVE  May(u, tx, project)'
  <2>1. \A p : MayWrite(p, u) => MayWrite(p, u)'
    BY DEF MayWrite
  <2>2. \A t \in txs : t.id = tx => \E x \in txs' : Covers(x, t)
    BY <1>2 DEF Covers
  <2> QED BY <1>2, <2>1, <2>2, MayKept
<1>3. \A q \in Req \ R : req[q].tx # k
  BY <1>1 DEF RequestsFor
<1> QED BY <1>1, <1>2, <1>3, OvertakenChecked

\* Deletions and moves, each of which overtakes the requests it concerns.
LEMMA MovesChecked ==
  ASSUME TypeInv, CheckedInv,
         \/ \E r \in Req : MoveTransaction(r) \/ Uncharge(r) \/ DeleteProject(r)
         \/ OwnerDeletesProject \/ OwnerMovesTransaction
  PROVE  CheckedInv'
<1>1. /\ req \in [Req -> Known] /\ txs \subseteq TxRow
      /\ \A r \in Req : Finish(req[r]).pc \notin Checking
  BY DEF TypeInv, Rows, Finish, Idle, Checking
<1>2. Idle.pc \notin Checking
  BY DEF Idle, Checking
<1>3. ASSUME NEW r \in Req, MoveTransaction(r) PROVE CheckedInv'
  <2>1. PICK k, n : k = req[r].tx /\ n = Finish(req[r])
    OBVIOUS
  <2>2. /\ req' = [Overtaken(RequestsFor(k)) EXCEPT ![r] = n] /\ n.pc \notin Checking
        /\ UNCHANGED <<standing, grants>>
    BY <1>1, <1>3, <2>1 DEF MoveTransaction
  <2>3. \A t \in txs : t.id # k => t \in txs'
    BY <1>3, <2>1 DEF MoveTransaction
  <2> QED BY <2>2, <2>3, ReplacementChecked
<1>4. ASSUME NEW r \in Req, DeleteProject(r) PROVE CheckedInv'
  <2>1. PICK x : x = req[r].project
    OBVIOUS
  <2>2. /\ RemoveProject(x) /\ UNCHANGED standing
        /\ req' = [Overtaken(Relying(x)) EXCEPT ![r] = Idle]
    BY <1>4, <2>1 DEF DeleteProject
  <2> QED BY <1>2, <2>2, RemovalChecked
<1>5. CASE OwnerDeletesProject
  <2>1. PICK x : RemoveProject(x) /\ UNCHANGED standing /\ req' = Overtaken(Relying(x))
    BY <1>5 DEF OwnerDeletesProject
  <2>2. CASE Req = {}
    BY <2>2 DEF CheckedInv
  <2>3. ASSUME NEW r \in Req PROVE CheckedInv'
    BY <2>1, RemovalChecked
  <2> QED BY <2>2, <2>3
<1>6. CASE OwnerMovesTransaction
  <2>1. PICK t \in txs :
          /\ \A x \in txs : x.id # t.id => x \in txs'
          /\ req' = Overtaken(RequestsFor(t.id))
    BY <1>6 DEF OwnerMovesTransaction, Replace
  <2>2. UNCHANGED <<standing, grants>>
    BY <1>6 DEF OwnerMovesTransaction
  <2>3. CASE Req = {}
    BY <2>3 DEF CheckedInv
  <2>4. ASSUME NEW r \in Req PROVE CheckedInv'
    BY <2>1, <2>2, ReplacementChecked
  <2> QED BY <2>3, <2>4
<1>7. ASSUME NEW r \in Req, Uncharge(r) PROVE CheckedInv'
  <2>1. CASE UNCHANGED txs /\ Become(r, Finish(req[r]))
    BY <1>7, <2>1, RequestsChecked
  <2>2. CASE \E t \in txs : \E p \in t.posted :
               /\ Replace(t, [t EXCEPT !.posted = @ \ {p}])
               /\ req' = [Overtaken(RequestsFor(t.id)) EXCEPT ![r] = Finish(req[r])]
    <3>1. PICK n : n = Finish(req[r])
      OBVIOUS
    <3>2. PICK t \in txs :
            /\ \A x \in txs : x.id # t.id => x \in txs'
            /\ req' = [Overtaken(RequestsFor(t.id)) EXCEPT ![r] = n]
      BY <2>2, <3>1 DEF Replace
    <3>3. UNCHANGED <<standing, grants>> /\ n.pc \notin Checking
      BY <1>1, <1>7, <3>1 DEF Uncharge
    <3> QED BY <3>2, <3>3, ReplacementChecked
  <2> QED BY <1>7, <2>1, <2>2 DEF Uncharge
<1> QED BY <1>3, <1>4, <1>5, <1>6, <1>7

\* A grant that goes overtakes the requests of its user that rely on its project.
LEMMA GrantGone ==
  ASSUME TypeInv, CheckedInv, NEW x, NEW u, req' = Overtaken(RequestsOf(u) \cap Relying(x)),
         UNCHANGED <<standing, txs>>,
         \A p, v : MayWrite(p, v) /\ (p # x \/ v # u) => MayWrite(p, v)'
  PROVE  CheckedInv'
<1>1. PICK R : R = RequestsOf(u) \cap Relying(x)
  OBVIOUS
<1>2. ASSUME NEW v, NEW tx, NEW project, May(v, tx, project),
             NEW q \in Req \ R, v = req[q].user, tx = req[q].tx, project = Named(req[q])
      PROVE  May(v, tx, project)'
  <2>1. v = u => req[q].project # x /\ \A t \in txs : t.id = tx => x \notin ProjectsOf(t)
    BY <1>1, <1>2 DEF Relying, RequestsOf
  <2>2. v = u => project = 0 \/ project # x
    BY <1>2, <2>1 DEF Named
  <2>3. ASSUME NEW p, MayWrite(p, v), RestsOn(p, tx, project) PROVE MayWrite(p, v)'
    <3>1. p # x \/ v # u
      BY <2>1, <2>2, <2>3 DEF RestsOn
    <3> QED BY <2>3, <3>1
  <2>4. \A t \in txs : t.id = tx =>
          \E n \in txs' : /\ n.id = t.id
                          /\ \A p \in ProjectsOf(t) : MayWrite(p, v)' => p \in ProjectsOf(n)
    OBVIOUS
  <2> QED BY <1>2, <2>3, <2>4, MayStays
<1>3. CASE Req = {}
  BY <1>3 DEF CheckedInv
<1>4. ASSUME NEW r \in Req PROVE CheckedInv'
  BY <1>1, <1>2, OvertakenChecked
<1> QED BY <1>3, <1>4

\* Grants and users that change overtake the requests of the user.
LEMMA OwnersChecked ==
  ASSUME TypeInv, CheckedInv, SaveGrant \/ DeleteGrant \/ SetStanding \/ DeleteUser
  PROVE  CheckedInv'
<1>1. grants \subseteq GrantRow /\ standing \in [User -> {"active", "barred", "deleted"}]
      /\ UNCHANGED <<projects, txs>>
  BY DEF TypeInv, Rows, SaveGrant, DeleteGrant, SetStanding, DeleteUser
<1>2. ASSUME NEW u, req' = Overtaken(RequestsOf(u)),
             \A v \in User : v # u => standing'[v] = standing[v],
             \A p, v : v # u /\ MayWrite(p, v) => MayWrite(p, v)'
      PROVE  CheckedInv'
  <2>1. PICK R : R = RequestsOf(u)
    OBVIOUS
  <2>2. ASSUME NEW v \in User, NEW tx, NEW project, v # u, May(v, tx, project)
        PROVE  May(v, tx, project)'
    <3>1. standing'[v] = standing[v] /\ \A p : MayWrite(p, v) => MayWrite(p, v)'
      BY <1>2, <2>2
    <3>2. \A t \in txs : t.id = tx => \E n \in txs' : Covers(n, t)
      BY <1>1 DEF Covers
    <3> QED BY <2>2, <3>1, <3>2, MayKept
  <2>3. \A q \in Req \ R : req[q].pc \in Checking => req[q].user \in User /\ req[q].user # u
    BY <2>1 DEF RequestsOf, TypeInv, Known, Checking
  <2>4. CASE Req = {}
    BY <2>4 DEF CheckedInv
  <2>5. ASSUME NEW r \in Req PROVE CheckedInv'
    BY <1>2, <2>1, <2>2, <2>3, OvertakenChecked
  <2> QED BY <2>4, <2>5
<1>3. CASE SaveGrant
  <2>1. PICK p \in Id(projects), u \in Existing, level \in Level :
          /\ grants' = Granted(p, u, level)
          /\ IF level = "read" /\ CanAccessProject(p, u)
               THEN /\ taken' = taken \cup {<<p, u>>}
                    /\ req' = Overtaken(RequestsOf(u) \cap Relying(p))
               ELSE UNCHANGED <<taken, req>>
    BY <1>3 DEF SaveGrant
  <2>2. UNCHANGED standing
    BY <1>3 DEF SaveGrant
  <2>3. CASE level = "read" /\ CanAccessProject(p, u)
    <3>1. \A x, v : MayWrite(x, v) /\ (x # p \/ v # u) => MayWrite(x, v)'
      BY <2>1, GrantedFacts
    <3> QED BY <1>1, <2>1, <2>2, <2>3, <3>1, GrantGone
  <2>4. CASE ~(level = "read" /\ CanAccessProject(p, u))
    <3>1. level = "write" \/ ~MayWrite(p, u)
      BY <1>1, <2>4, AccessIsGrant DEF Level
    <3>2. \A x, v : MayWrite(x, v) => MayWrite(x, v)'
      BY <2>1, <3>1, GrantedFacts
    <3>3. ASSUME NEW v, NEW tx, NEW project, May(v, tx, project)
          PROVE  May(v, tx, project)'
      <4>1. standing'[v] = standing[v] /\ \A x : MayWrite(x, v) => MayWrite(x, v)'
        BY <2>2, <3>2
      <4>2. \A t \in txs : t.id = tx => \E n \in txs' : Covers(n, t)
        BY <1>1 DEF Covers
      <4> QED BY <3>3, <4>1, <4>2, MayKept
    <3> QED BY <2>1, <2>4, <3>3 DEF CheckedInv, Checked
  <2> QED BY <2>3, <2>4
<1>4. CASE DeleteGrant
  <2>1. PICK g \in grants : /\ grants' = grants \ {g}
                            /\ req' = Overtaken(RequestsOf(g.user) \cap Relying(g.project))
    BY <1>4 DEF DeleteGrant
  <2>2. \A p, v : MayWrite(p, v) /\ (p # g.project \/ v # g.user) => MayWrite(p, v)'
    BY <2>1 DEF MayWrite
  <2>3. UNCHANGED standing
    BY <1>4 DEF DeleteGrant
  <2> QED BY <1>1, <2>1, <2>2, <2>3, GrantGone
<1>5. CASE SetStanding
  <2>1. PICK u, s : standing' = [standing EXCEPT ![u] = s] /\ req' = Overtaken(RequestsOf(u))
    BY <1>5 DEF SetStanding
  <2>2. \A v \in User : v # u => standing'[v] = standing[v]
    BY <1>1, <2>1
  <2>3. UNCHANGED grants
    BY <1>5 DEF SetStanding
  <2> QED BY <1>2, <2>1, <2>2, <2>3 DEF MayWrite
<1>6. CASE DeleteUser
  <2>1. PICK u : /\ standing' = [standing EXCEPT ![u] = "deleted"]
                 /\ grants' = {g \in grants : g.user # u}
                 /\ req' = Overtaken(RequestsOf(u))
    BY <1>6 DEF DeleteUser
  <2>2. \A v \in User : v # u => standing'[v] = standing[v]
    BY <1>1, <2>1
  <2>3. \A p, v : v # u /\ MayWrite(p, v) => MayWrite(p, v)'
    BY <2>1 DEF MayWrite
  <2> QED BY <1>2, <2>1, <2>2, <2>3
<1> QED BY <1>3, <1>4, <1>5, <1>6

LEMMA CheckedStep ==
  ASSUME TypeInv, CheckedInv, [Next]_vars
  PROVE  CheckedInv'
<1>1. ASSUME Approve \/ OwnerCreatesProject \/ OwnerCreatesTransaction \/ OwnerCharges
             \/ UNCHANGED vars
      PROVE  CheckedInv'
  <2>1. UNCHANGED <<standing, grants, req>>
    BY <1>1 DEF Approve, OwnerCreatesProject, OwnerCreatesTransaction, OwnerCharges, vars
  <2>2. \A t \in txs : \E n \in txs' : Covers(n, t)
    <3>1. CASE txs \subseteq txs'
      BY <3>1 DEF Covers
    <3>2. CASE OwnerCharges
      <4>1. PICK c \in txs, p \in Id(projects) : Replace(c, [c EXCEPT !.posted = @ \cup {p}])
        BY <3>2 DEF OwnerCharges
      <4>2. PICK row : row = [c EXCEPT !.posted = @ \cup {p}]
        OBVIOUS
      <4>3. c \in TxRow /\ txs' = (txs \ {c}) \cup {row}
        BY <4>1, <4>2 DEF TypeInv, Rows, Replace
      <4>4. row.id = c.id /\ row.project = c.project /\ c.posted \subseteq row.posted
        BY <4>2, <4>3 DEF TxRow
      <4>5. Covers(row, c)
        BY <4>4 DEF Covers, ProjectsOf
      <4> QED BY <4>3, <4>5 DEF Covers
    <3> QED BY <1>1, <3>1, <3>2 DEF Approve, OwnerCreatesProject, OwnerCreatesTransaction, vars
  <2>3. ASSUME NEW u, NEW tx, NEW project, May(u, tx, project)
        PROVE  May(u, tx, project)'
    <3>1. standing'[u] = standing[u] /\ \A p : MayWrite(p, u) => MayWrite(p, u)'
      BY <2>1 DEF MayWrite
    <3> QED BY <2>2, <2>3, <3>1, MayKept
  <2> QED BY <2>1, <2>3 DEF CheckedInv, Checked
<1> QED BY <1>1, ChecksChecked, RequestsChecked, MovesChecked, OwnersChecked DEF Next

\* Each write of an accountant still has write access to the transaction, to the project
\* that it leaves, and to the one that it joins or that a tool charges
\* (journal.go:391-432, protocol.go:208-251): what the checks saw, by separate
\* statements, holds at the write, unless a grant, the user or the transaction that
\* had been checked was changed since.  The project that a form charges and the posting
\* that it deletes are checked by nobody (journal.go:296-312, 361) and not claimed.
THEOREM WritesGranted == Spec => []WritesAreGranted
<1>1. Init => CheckedInv
  BY DEF Init, CheckedInv, Checked, Checking, Idle
<1>2. TypeInv /\ CheckedInv /\ [Next]_vars => CheckedInv'
  BY CheckedStep
<1>3. CheckedInv => WritesAreGranted
  BY DEF CheckedInv, Checked, Checking, May, Named, WritesAreGranted, Authorized
<1> QED BY <1>1, <1>2, <1>3, InitTypes, TypeStep, PTL DEF Spec
=============================================================================
