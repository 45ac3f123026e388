--------------------------- MODULE PostingsProofs ---------------------------
(***************************************************************************)
(* Theorems about Postings, for any number of requests, projects, payments,*)
(* allocations and postings.                                               *)
(***************************************************************************)
EXTENDS Postings, SetLemmas

\* The ids of a table come from its sequence and identify its rows.
IdsFromSequence ==
  /\ \A a \in allocs : a.id \in 1..seq.alloc
  /\ \A a, b \in allocs : a.id = b.id => a = b
  /\ \A p \in postings : p.alloc \in 0..seq.alloc

\* What a request still knows to be true when it inserts: the kind it carries
\* is the kind of the allocation it names, if that allocation still exists.
CheckedRequestsFit ==
  \A r \in Req :
    /\ req[r].alloc \in 0..seq.alloc
    /\ req[r].pc \in {"sum", "insert"} => req[r].kind \in PostingKind
    /\ req[r].pc \in {"sum", "insert"} =>
         \A a \in allocs : a.id = req[r].alloc =>
           AcceptsPosting(a) /\ req[r].kind = KindForAllocation(a)

AllocationsOwned == \A a \in allocs : a.project \in projects

IInv ==
  /\ TypeOK
  /\ IdsFromSequence
  /\ CheckedRequestsFit
  /\ AllocationsOwned
  /\ KindMatchesAllocation
  /\ ChargesAreLive

\* The initial state satisfies the invariant: the tables are empty.
LEMMA InitIInv == Init => IInv
BY ConstantsAssumption
   DEF Init, IInv, TypeOK, IdsFromSequence, CheckedRequestsFit, AllocationsOwned,
       KindMatchesAllocation, ChargesAreLive, Request, Idle, FormKind, PostingKind

\* A step of a request that touches no table keeps the invariant if it keeps
\* what the requests know.
LEMMA RequestStep ==
  ASSUME IInv, UNCHANGED dataVars, req' \in [Req -> Request], CheckedRequestsFit'
  PROVE  IInv'
BY DEF IInv, TypeOK, IdsFromSequence, AllocationsOwned, KindMatchesAllocation,
       ChargesAreLive, dataVars, TxLive

\* An idle request has nothing to know.
LEMMA IdleFits == Idle \in Request /\ Idle.pc = "idle" /\ Idle.alloc = 0
BY DEF Idle, Request, FormKind

\* Answering a request keeps what the other requests know.
LEMMA RespondFits ==
  ASSUME TypeOK, CheckedRequestsFit, UNCHANGED dataVars, NEW r \in Req, Respond(r)
  PROVE  req' \in [Req -> Request] /\ CheckedRequestsFit'
BY IdleFits DEF TypeOK, CheckedRequestsFit, dataVars, Respond

\* The statements of a posting request before the INSERT.
LEMMA ReadingSteps ==
  ASSUME IInv, NEW r \in Req,
         \/ StartWebPosting(r) \/ StartMcpPosting(r)
         \/ CheckBelongsToProject(r) \/ CheckKind(r) \/ CheckSum(r)
  PROVE  IInv'
<1> USE DEF IInv, TypeOK
<1>1. UNCHANGED dataVars
  BY DEF StartWebPosting, StartMcpPosting, CheckBelongsToProject, CheckKind, CheckSum
<1>2. CASE Respond(r)
  BY <1>1, <1>2, RespondFits, RequestStep
<1>3. CASE StartWebPosting(r)
  <2>1. PICK t \in txs, kind \in FormKind, cents \in Cents :
          \/ /\ kind = "company_shared_cost"
             /\ req' = [req EXCEPT ![r] =
                  [Idle EXCEPT !.pc = "sum", !.tx = t.id, !.kind = kind,
                               !.cents = cents, !.limit = t.cents]]
          \/ /\ kind # "company_shared_cost"
             /\ \E p \in Project, a \in 1..seq.alloc :
                  req' = [req EXCEPT ![r] =
                    [pc |-> "belongs", via |-> "web", tx |-> t.id, project |-> p,
                     alloc |-> a, kind |-> kind, cents |-> cents, limit |-> t.cents]]
    BY <1>3 DEF StartWebPosting
  <2>2. t.id \in Nat /\ t.cents \in Nat /\ cents \in Nat /\ Project \subseteq Nat
    BY ConstantsAssumption DEF TxRow, Cents
  <2>3. CASE kind = "company_shared_cost"
    <3> DEFINE q == [Idle EXCEPT !.pc = "sum", !.tx = t.id, !.kind = kind,
                                 !.cents = cents, !.limit = t.cents]
    <3>1. q \in Request /\ q.alloc = 0 /\ q.kind = "company_shared_cost"
      BY <2>2, <2>3 DEF Request, Idle
    <3>2. req' = [req EXCEPT ![r] = q]
      BY <2>1, <2>3
    <3> HIDE DEF q
    <3>3. \A a \in allocs : a.id # q.alloc
      BY <3>1 DEF IdsFromSequence
    <3>4. req' \in [Req -> Request] /\ CheckedRequestsFit'
      BY <1>1, <3>1, <3>2, <3>3 DEF CheckedRequestsFit, dataVars, PostingKind
    <3> QED BY <1>1, <3>4, RequestStep
  <2>4. CASE kind # "company_shared_cost"
    <3>1. PICK p \in Project, a \in 1..seq.alloc :
            req' = [req EXCEPT ![r] =
              [pc |-> "belongs", via |-> "web", tx |-> t.id, project |-> p,
               alloc |-> a, kind |-> kind, cents |-> cents, limit |-> t.cents]]
      BY <2>1, <2>4
    <3> DEFINE q == [pc |-> "belongs", via |-> "web", tx |-> t.id, project |-> p,
                     alloc |-> a, kind |-> kind, cents |-> cents, limit |-> t.cents]
    <3>2. q \in Request /\ q.pc = "belongs" /\ q.alloc \in 0..seq.alloc
      BY <2>2, <2>4 DEF Request
    <3>3. req' = [req EXCEPT ![r] = q]
      BY <3>1
    <3> HIDE DEF q
    <3>4. req' \in [Req -> Request] /\ CheckedRequestsFit'
      BY <1>1, <3>2, <3>3 DEF CheckedRequestsFit, dataVars
    <3> QED BY <1>1, <3>4, RequestStep
  <2> QED BY <2>3, <2>4
<1>4. CASE StartMcpPosting(r)
  <2>1. PICK t \in txs, kind \in {"partner_payout", "cost_expense"}, cents \in Cents,
             p \in Project \cup {0}, a \in 1..seq.alloc :
          req' = [req EXCEPT ![r] =
            [pc |-> IF p = 0 THEN "kind" ELSE "belongs", via |-> "mcp", tx |-> t.id,
             project |-> p, alloc |-> a, kind |-> kind, cents |-> cents,
             limit |-> t.cents]]
    BY <1>4 DEF StartMcpPosting
  <2>2. t.id \in Nat /\ t.cents \in Nat /\ cents \in Nat /\ p \in Nat
    BY ConstantsAssumption DEF TxRow, Cents
  <2>3. req' \in [Req -> Request]
    BY <2>1, <2>2 DEF Request, FormKind, PostingKind
  <2>4. CheckedRequestsFit'
    BY <1>1, <2>1 DEF CheckedRequestsFit, dataVars
  <2> QED BY <1>1, <2>3, <2>4, RequestStep
<1>5. CASE /\ CheckBelongsToProject(r)
           /\ req' = [req EXCEPT ![r].pc = "kind"]
  <2>1. req' \in [Req -> Request]
    BY <1>5 DEF Request
  <2>2. CheckedRequestsFit'
    BY <1>1, <1>5 DEF CheckedRequestsFit, dataVars
  <2> QED BY <1>1, <2>1, <2>2, RequestStep
<1>6. CASE /\ CheckKind(r)
           /\ \E a \in allocs :
                /\ a.id = req[r].alloc
                /\ KindAccepted(r, a)
                /\ req' = [req EXCEPT ![r] =
                     [@ EXCEPT !.pc = "sum", !.kind = KindStored(r, a),
                               !.via = "web", !.project = 0]]
  <2>1. PICK a \in allocs :
          /\ a.id = req[r].alloc
          /\ AcceptsPosting(a)
          /\ req' = [req EXCEPT ![r] =
               [@ EXCEPT !.pc = "sum", !.kind = KindForAllocation(a),
                         !.via = "web", !.project = 0]]
    <3>1. PICK a \in allocs :
            /\ a.id = req[r].alloc
            /\ KindAccepted(r, a)
            /\ req' = [req EXCEPT ![r] =
                 [@ EXCEPT !.pc = "sum", !.kind = KindStored(r, a),
                           !.via = "web", !.project = 0]]
      BY <1>6
    <3>2. AcceptsPosting(a) /\ KindStored(r, a) = KindForAllocation(a)
      BY <3>1 DEF KindAccepted, KindStored
    <3> QED BY <3>1, <3>2
  <2>2. KindForAllocation(a) \in PostingKind \cap FormKind
    BY DEF KindForAllocation, PostingKind, FormKind
  <2> DEFINE new == [req[r] EXCEPT !.pc = "sum", !.kind = KindForAllocation(a),
                                   !.via = "web", !.project = 0]
  <2>3. new \in {q \in Request : /\ q.alloc = req[r].alloc
                                 /\ q.kind = KindForAllocation(a) /\ q.pc = "sum"}
    <3>1. req[r] \in Request
      OBVIOUS
    <3>2. PICK kind \in PostingKind \cap FormKind : kind = KindForAllocation(a)
      BY <2>2
    <3> QED BY <3>1, <3>2 DEF Request
  <2>4. req' = [req EXCEPT ![r] = new]
    BY <2>1
  <2> HIDE DEF new
  <2>5. req' \in [Req -> Request]
    BY <2>3, <2>4
  <2>6. CheckedRequestsFit'
    <3>1. req'[r] = new /\ \A o \in Req \ {r} : req'[o] = req[o]
      BY <2>4
    <3> QED BY <1>1, <2>1, <2>2, <2>3, <3>1 DEF CheckedRequestsFit, IdsFromSequence, dataVars
  <2> QED BY <1>1, <2>5, <2>6, RequestStep
<1>7. CASE /\ CheckSum(r)
           /\ req' = [req EXCEPT ![r].pc = "insert"]
  <2>1. req' \in [Req -> Request]
    BY <1>7 DEF Request
  <2>2. CheckedRequestsFit'
    BY <1>1, <1>7 DEF CheckedRequestsFit, dataVars, CheckSum
  <2> QED BY <1>1, <2>1, <2>2, RequestStep
<1> QED
  BY <1>2, <1>3, <1>4, <1>5, <1>6, <1>7 DEF CheckBelongsToProject, CheckKind, CheckSum

\* The INSERT: the foreign keys make the row live, the request's knowledge
\* makes its kind fit.
LEMMA InsertStep ==
  ASSUME IInv, NEW r \in Req, CreateBudgetPosting(r)
  PROVE  IInv'
<1> USE DEF IInv, TypeOK
<1>1. req' \in [Req -> Request] /\ seq'.alloc = seq.alloc
  BY IdleFits DEF CreateBudgetPosting, Respond
<1>2. CheckedRequestsFit'
  BY <1>1, IdleFits DEF CreateBudgetPosting, Respond, CheckedRequestsFit
<1>3. CASE postings' = postings
  BY <1>1, <1>2, <1>3
     DEF CreateBudgetPosting, IdsFromSequence, AllocationsOwned, KindMatchesAllocation,
         ChargesAreLive, TxLive
<1>4. CASE /\ ForeignKeysHold(r)
           /\ seq' = [seq EXCEPT !.posting = @ + 1]
           /\ postings' = postings \cup
                {[id |-> seq.posting + 1, tx |-> req[r].tx, alloc |-> req[r].alloc,
                  kind |-> req[r].kind, cents |-> req[r].cents]}
  <2> DEFINE new == [id |-> seq.posting + 1, tx |-> req[r].tx, alloc |-> req[r].alloc,
                     kind |-> req[r].kind, cents |-> req[r].cents]
  <2>1. /\ req[r].pc = "insert"
        /\ UNCHANGED <<projects, txs, allocs, lowered>>
    BY DEF CreateBudgetPosting
  <2>2. new \in PostingRow /\ new.alloc \in 0..seq.alloc
    BY <2>1 DEF PostingRow, Request, CheckedRequestsFit
  <2>3. \A a \in allocs : new.alloc = a.id => AcceptsPosting(a) /\ new.kind = KindForAllocation(a)
    BY <2>1 DEF CheckedRequestsFit
  <2>4. TxLive(new.tx)
    BY <1>4 DEF ForeignKeysHold
  <2>5. new.alloc # 0 => \E a \in allocs : a.id = new.alloc /\ a.project \in projects
    BY <1>4 DEF ForeignKeysHold, AllocLive, AllocationsOwned
  <2> HIDE DEF new
  <2>6. postings' = postings \cup {new} /\ seq' \in [tx: Nat, alloc: Nat, posting: Nat]
    BY <1>4 DEF new
  <2>7. TypeOK' /\ IdsFromSequence' /\ AllocationsOwned'
    BY <1>1, <2>1, <2>2, <2>6 DEF IdsFromSequence, AllocationsOwned
  <2>8. KindMatchesAllocation'
    BY <2>1, <2>3, <2>6 DEF KindMatchesAllocation, AcceptsPosting, KindForAllocation
  <2>9. ChargesAreLive'
    BY <2>1, <2>4, <2>5, <2>6 DEF ChargesAreLive, TxLive
  <2> QED BY <1>2, <2>7, <2>8, <2>9
<1> QED BY <1>3, <1>4 DEF CreateBudgetPosting

\* Requests know nothing of rows that disappear: deleting allocations, and
\* changing nothing in the ones that stay, keeps what they know.
LEMMA FewerAllocationsFit ==
  ASSUME TypeOK, CheckedRequestsFit, allocs' \subseteq allocs, UNCHANGED <<seq, req>>
  PROVE  CheckedRequestsFit'
BY DEF CheckedRequestsFit

\* ON DELETE SET NULL over the allocations in gone leaves rows that are
\* uncharged or as they were.
LEMMA UnchargeRows ==
  ASSUME TypeOK, NEW gone \in SUBSET allocs, NEW q \in Uncharge(gone)
  PROVE  /\ q \in PostingRow
         /\ \E p \in postings :
              /\ q.tx = p.tx /\ q.kind = p.kind
              /\ \/ q.alloc = 0
                 \/ q.alloc = p.alloc /\ \A a \in gone : a.id # p.alloc
<1>1. PICK p \in postings :
        q = [p EXCEPT !.alloc = IF \E a \in gone : a.id = p.alloc THEN 0 ELSE @]
  BY DEF Uncharge
<1>2. p \in PostingRow
  BY DEF TypeOK
<1>3. q = [p EXCEPT !.alloc = IF \E a \in gone : a.id = p.alloc THEN 0 ELSE p.alloc]
  BY <1>1, <1>2 DEF PostingRow
<1>4. CASE \E a \in gone : a.id = p.alloc
  BY <1>2, <1>3, <1>4 DEF PostingRow
<1>5. CASE \A a \in gone : a.id # p.alloc
  <2>1. q = [p EXCEPT !.alloc = p.alloc]
    BY <1>3, <1>5
  <2> QED BY <1>2, <1>5, <2>1 DEF PostingRow
<1> QED BY <1>4, <1>5

\* Removing allocations together with SET NULL keeps the invariant.
LEMMA DropAllocations ==
  ASSUME IInv, NEW gone \in SUBSET allocs,
         allocs' = allocs \ gone, postings' = Uncharge(gone),
         projects' \subseteq projects,
         \A a \in allocs \ gone : a.project \in projects',
         UNCHANGED <<txs, seq, req, lowered>>
  PROVE  IInv'
<1> USE DEF IInv
<1>1. TypeOK'
  BY UnchargeRows DEF TypeOK
<1>2. IdsFromSequence'
  BY UnchargeRows DEF IdsFromSequence, TypeOK
<1>3. CheckedRequestsFit'
  BY FewerAllocationsFit
<1>4. AllocationsOwned'
  BY DEF AllocationsOwned
<1>5. KindMatchesAllocation'
  <2> SUFFICES ASSUME NEW q \in Uncharge(gone), NEW a \in allocs \ gone, q.alloc = a.id
               PROVE  AcceptsPosting(a) /\ q.kind = KindForAllocation(a)
    BY DEF KindMatchesAllocation, AcceptsPosting, KindForAllocation
  <2>1. a.id # 0
    BY DEF IdsFromSequence, TypeOK
  <2> QED BY <2>1, UnchargeRows DEF KindMatchesAllocation
<1>6. ChargesAreLive'
  <2> SUFFICES ASSUME NEW q \in Uncharge(gone)
               PROVE  /\ \E t \in txs : t.id = q.tx
                      /\ q.alloc # 0 =>
                           \E a \in allocs \ gone : a.id = q.alloc /\ a.project \in projects'
    BY DEF ChargesAreLive, TxLive
  <2> QED BY UnchargeRows DEF ChargesAreLive, TxLive
<1> QED BY <1>1, <1>2, <1>3, <1>4, <1>5, <1>6

\* The single-statement handlers.
LEMMA TableSteps ==
  ASSUME IInv,
         \/ DeleteBudgetPosting \/ JournalCreate \/ JournalUpdate \/ JournalDelete
         \/ AllocationCreate \/ AllocationEdit \/ AllocationDelete \/ ProjectDelete
  PROVE  IInv'
<1> USE DEF IInv, TypeOK
<1>1. CASE DeleteBudgetPosting
  BY <1>1 DEF DeleteBudgetPosting, IdsFromSequence, CheckedRequestsFit, AllocationsOwned,
              KindMatchesAllocation, ChargesAreLive, TxLive
<1>2. CASE JournalCreate
  <2>1. PICK cents \in Cents : txs' = txs \cup {[id |-> seq.tx + 1, cents |-> cents]}
    BY <1>2 DEF JournalCreate
  <2>2. /\ txs' \subseteq TxRow /\ txs \subseteq txs'
        /\ seq' \in [tx: Nat, alloc: Nat, posting: Nat] /\ seq'.alloc = seq.alloc
    BY <1>2, <2>1, ConstantsAssumption DEF JournalCreate, TxRow, Cents
  <2>3. UNCHANGED <<projects, allocs, postings, req, lowered>>
    BY <1>2 DEF JournalCreate
  <2> QED
    BY <2>2, <2>3 DEF IdsFromSequence, CheckedRequestsFit, AllocationsOwned,
                      KindMatchesAllocation, ChargesAreLive, TxLive
<1>3. CASE JournalUpdate
  <2>1. PICK t \in txs, cents \in Cents :
          /\ txs' = (txs \ {t}) \cup {[t EXCEPT !.cents = cents]}
          /\ lowered' = IF cents < t.cents THEN lowered \cup {t.id} ELSE lowered
          /\ UNCHANGED <<projects, allocs, postings, seq, req>>
    BY <1>3 DEF JournalUpdate
  <2>2. [t EXCEPT !.cents = cents] \in TxRow /\ [t EXCEPT !.cents = cents].id = t.id
    BY <2>1, ConstantsAssumption DEF TxRow, Cents
  <2>3. txs' \subseteq TxRow /\ lowered' \subseteq Nat
    BY <2>1, <2>2 DEF TxRow
  <2>4. \A id : TxLive(id) => \E u \in txs' : u.id = id
    BY <2>1, <2>2 DEF TxLive
  <2> QED
    BY <2>1, <2>3, <2>4 DEF IdsFromSequence, CheckedRequestsFit, AllocationsOwned,
                            KindMatchesAllocation, ChargesAreLive, TxLive
<1>4. CASE JournalDelete
  <2>1. PICK id \in 1..seq.tx :
          /\ txs' = {t \in txs : t.id # id}
          /\ postings' = {p \in postings : p.tx # id}
    BY <1>4 DEF JournalDelete
  <2>2. UNCHANGED <<projects, allocs, seq, req, lowered>>
    BY <1>4 DEF JournalDelete
  <2> QED
    BY <2>1, <2>2 DEF IdsFromSequence, CheckedRequestsFit, AllocationsOwned,
                      KindMatchesAllocation, ChargesAreLive, TxLive
<1>5. CASE AllocationCreate
  <2>1. PICK p \in projects, kind \in AllocKind :
          allocs' = allocs \cup {[id |-> seq.alloc + 1, project |-> p, kind |-> kind]}
    BY <1>5 DEF AllocationCreate
  <2> DEFINE new == [id |-> seq.alloc + 1, project |-> p, kind |-> kind]
  <2>2. /\ new \in AllocRow /\ new.id = seq.alloc + 1 /\ new.project \in projects
    BY ConstantsAssumption DEF AllocRow
  <2> HIDE DEF new
  <2>3. /\ allocs' = allocs \cup {new}
        /\ seq' \in [tx: Nat, alloc: Nat, posting: Nat] /\ seq'.alloc = seq.alloc + 1
        /\ UNCHANGED <<projects, txs, postings, req, lowered>>
    BY <1>5, <2>1 DEF AllocationCreate, new
  <2>4. IdsFromSequence'
    BY <2>2, <2>3 DEF IdsFromSequence
  <2>5. CheckedRequestsFit'
    BY <2>2, <2>3 DEF CheckedRequestsFit
  <2>6. KindMatchesAllocation' /\ ChargesAreLive' /\ AllocationsOwned'
    BY <2>2, <2>3
       DEF IdsFromSequence, KindMatchesAllocation, ChargesAreLive, TxLive, AllocationsOwned
  <2> QED BY <2>2, <2>3, <2>4, <2>5, <2>6
<1>6. CASE AllocationEdit
  <2>1. UNCHANGED vars
    BY <1>6 DEF AllocationEdit, AllocationUpdate, vars
  <2> QED
    BY <2>1 DEF vars, IdsFromSequence, CheckedRequestsFit, AllocationsOwned,
                KindMatchesAllocation, ChargesAreLive, TxLive
<1>7. CASE AllocationDelete
  <2>1. PICK id \in 1..seq.alloc, p \in Project :
          LET gone == {a \in allocs : a.id = id /\ a.project = p} IN
            allocs' = allocs \ gone /\ postings' = Uncharge(gone)
    BY <1>7 DEF AllocationDelete
  <2> DEFINE gone == {a \in allocs : a.id = id /\ a.project = p}
  <2>2. UNCHANGED <<projects, txs, seq, req, lowered>>
    BY <1>7 DEF AllocationDelete
  <2>3. \A a \in allocs \ gone : a.project \in projects'
    BY <2>2 DEF AllocationsOwned
  <2>4. gone \in SUBSET allocs /\ allocs' = allocs \ gone /\ postings' = Uncharge(gone)
    BY <2>1
  <2> HIDE DEF gone
  <2> QED BY <2>2, <2>3, <2>4, DropAllocations
<1>8. CASE ProjectDelete
  <2>1. PICK p \in Project :
          LET gone == {a \in allocs : a.project = p} IN
            /\ projects' = projects \ {p}
            /\ allocs' = allocs \ gone /\ postings' = Uncharge(gone)
    BY <1>8 DEF ProjectDelete
  <2> DEFINE gone == {a \in allocs : a.project = p}
  <2>2. UNCHANGED <<txs, seq, req, lowered>>
    BY <1>8 DEF ProjectDelete
  <2>3. projects' \subseteq projects /\ \A a \in allocs \ gone : a.project \in projects'
    BY <2>1 DEF AllocationsOwned
  <2>4. gone \in SUBSET allocs /\ allocs' = allocs \ gone /\ postings' = Uncharge(gone)
    BY <2>1
  <2> HIDE DEF gone
  <2> QED BY <2>2, <2>3, <2>4, DropAllocations
<1> QED
  BY <1>1, <1>2, <1>3, <1>4, <1>5, <1>6, <1>7, <1>8

\* Every step keeps the invariant.
LEMMA NextIInv == IInv /\ [Next]_vars => IInv'
<1> SUFFICES ASSUME IInv, [Next]_vars PROVE IInv'
  OBVIOUS
<1>1. CASE UNCHANGED vars
  BY <1>1 DEF vars, IInv, TypeOK, IdsFromSequence, CheckedRequestsFit, AllocationsOwned,
              KindMatchesAllocation, ChargesAreLive, TxLive
<1>2. ASSUME NEW r \in Req, PostingStep(r) PROVE IInv'
  BY <1>2, ReadingSteps, InsertStep DEF PostingStep
<1> QED
  BY <1>1, <1>2, TableSteps DEF Next

\* The inductive invariant holds in every reachable state.
LEMMA Invariance == Spec => []IInv
BY InitIInv, NextIInv, PTL DEF Spec

\* Type correctness of the tables and of the requests.
THEOREM TypeCorrect == Spec => []TypeOK
<1>1. IInv => TypeOK
  BY DEF IInv
<1> QED BY <1>1, Invariance, PTL

\* Whatever the interleaving of requests, edits and deletes, a posting that
\* is charged to an existing allocation has the kind the allocation stands
\* for and spends no company reserve.
THEOREM KindsMatch == Spec => []KindMatchesAllocation
<1>1. IInv => KindMatchesAllocation
  BY DEF IInv
<1> QED BY <1>1, Invariance, PTL

\* No posting outlives its payment or its allocation's project.
THEOREM ChargesLive == Spec => []ChargesAreLive
<1>1. IInv => ChargesAreLive
  BY DEF IInv
<1> QED BY <1>1, Invariance, PTL

-----------------------------------------------------------------------------
(* Amounts.  The statements compare and add up amounts read at different   *)
(* times, so the bound on what is spent needs what each request has        *)
(* reserved between its check and its INSERT.                              *)

weight == [p \in PostingRow |-> p.cents]

\* Summing rows with the fold of the model is summing their amounts.
LEMMA CentsSum ==
  ASSUME NEW rows \in SUBSET PostingRow, IsFiniteSet(rows)
  PROVE  CentsOf(rows) = SumOf(weight, rows)
<1> DEFINE P(h) == h = [s \in SUBSET rows |->
                          IF s = {} THEN 0
                          ELSE (CHOOSE x \in s : TRUE).cents + h[s \ {CHOOSE x \in s : TRUE}]]
           iter == CHOOSE h : P(h)
<1>1. CentsOf(rows) = iter[rows]
  BY DEF CentsOf, MapThenSumSet, MapThenFoldSet
<1>2. \A x \in rows : weight[x] = x.cents /\ weight[x] \in Int
  BY DEF weight, PostingRow
<1>3. \A s \in SUBSET rows : s # {} => weight[Pick(s)] = (CHOOSE x \in s : TRUE).cents
  BY <1>2, PickIn DEF Pick
<1>4. \A h : P(h) <=> IsSum(h, weight, rows)
  BY <1>3 DEF IsSum, Pick
<1>5. \E h : IsSum(h, weight, rows)
  BY <1>2, SumExists
<1> HIDE DEF P
<1>6. P(iter)
  BY <1>4, <1>5
<1> HIDE DEF iter
<1>7. iter[rows] = SumOf(weight, rows)
  BY <1>2, <1>4, <1>6, SumIs
<1> QED BY <1>1, <1>7

\* What is split off the payment id, and what the requests that passed the
\* check are about to split off it.
OfPayment(rows, id) == {p \in rows : p.tx = id}
Split(rows, id)     == SumOf(weight, OfPayment(rows, id))
Held(rq, id)        == [r \in Req |-> IF rq[r].pc = "insert" /\ rq[r].tx = id
                                      THEN rq[r].cents ELSE 0]
Reserved(rq, id)    == SumOf(Held(rq, id), Req)

PostingIds ==
  /\ IsFiniteSet(postings)
  /\ \A p \in postings : p.id \in 1..seq.posting
  /\ \A p, q \in postings : p.id = q.id => p = q

PaymentIds ==
  /\ \A t \in txs : t.id \in 1..seq.tx
  /\ \A t, u \in txs : t.id = u.id => t = u
  /\ \A r \in Req : req[r].tx \in 0..seq.tx
  /\ lowered \subseteq 1..seq.tx

\* The limit a request compares with was the amount of its payment, which can
\* only have grown unless an edit has lowered it.
LimitsHeld ==
  \A r \in Req :
    /\ req[r].pc = "insert" => req[r].cents <= req[r].limit
    /\ \A t \in txs : t.id = req[r].tx /\ t.id \notin lowered => req[r].limit <= t.cents

SpendingHeld ==
  \A t \in txs : t.id \notin lowered =>
    Split(postings, t.id) + Reserved(req, t.id) <= Cardinality(Req) * t.cents

\* The invariant that the spending bound rests on, on top of IInv.
SInv ==
  /\ PostingIds
  /\ PaymentIds
  /\ LimitsHeld
  /\ SpendingHeld

LEMMA SplitType ==
  ASSUME NEW rows \in SUBSET PostingRow, IsFiniteSet(rows), NEW id
  PROVE  /\ IsFiniteSet(OfPayment(rows, id))
         /\ \A p \in OfPayment(rows, id) : weight[p] \in Nat /\ weight[p] \in Int
         /\ Split(rows, id) \in Nat
<1>1. OfPayment(rows, id) \subseteq rows
  BY DEF OfPayment
<1>2. IsFiniteSet(OfPayment(rows, id))
  BY <1>1, FS_Subset
<1>3. \A p \in OfPayment(rows, id) : weight[p] \in Nat
  BY <1>1 DEF weight, PostingRow
<1>4. SumOf(weight, OfPayment(rows, id)) \in Nat
  BY <1>2, <1>3, SumType
<1> QED BY <1>2, <1>3, <1>4 DEF Split

\* Deleting postings frees what they held.
LEMMA SplitFewer ==
  ASSUME NEW rows \in SUBSET PostingRow, IsFiniteSet(rows), NEW fewer \in SUBSET rows, NEW id
  PROVE  Split(fewer, id) <= Split(rows, id)
<1>1. /\ IsFiniteSet(OfPayment(rows, id))
      /\ \A p \in OfPayment(rows, id) : weight[p] \in Nat
  BY SplitType
<1>2. OfPayment(fewer, id) \subseteq OfPayment(rows, id)
  BY DEF OfPayment
<1> QED BY <1>1, <1>2, SumSubset DEF Split

\* A new posting takes its amount from its payment and from no other.
LEMMA SplitMore ==
  ASSUME NEW rows \in SUBSET PostingRow, IsFiniteSet(rows),
         NEW new \in PostingRow, new \notin rows, NEW id
  PROVE  Split(rows \cup {new}, id) = Split(rows, id) + (IF new.tx = id THEN new.cents ELSE 0)
<1>1. /\ IsFiniteSet(OfPayment(rows, id))
      /\ \A p \in OfPayment(rows, id) : weight[p] \in Int
      /\ Split(rows, id) \in Nat
  BY SplitType
<1>2. CASE new.tx = id
  <2>1. OfPayment(rows \cup {new}, id) = OfPayment(rows, id) \cup {new}
    BY <1>2 DEF OfPayment
  <2>2. new \notin OfPayment(rows, id) /\ weight[new] = new.cents /\ new.cents \in Int
    BY DEF OfPayment, weight, PostingRow
  <2>3. \A p \in OfPayment(rows, id) \cup {new} : weight[p] \in Int
    BY <1>1, <2>2
  <2>4. SumOf(weight, OfPayment(rows, id) \cup {new})
          = SumOf(weight, OfPayment(rows, id)) + weight[new]
    BY <1>1, <2>2, <2>3, SumAdd
  <2> QED BY <1>2, <2>1, <2>2, <2>4 DEF Split
<1>3. CASE new.tx # id
  <2>1. OfPayment(rows \cup {new}, id) = OfPayment(rows, id)
    BY <1>3 DEF OfPayment
  <2> QED BY <1>1, <1>3, <2>1 DEF Split
<1> QED BY <1>2, <1>3

\* Uncharging postings leaves what they take from their payment.
LEMMA SplitUncharged ==
  ASSUME IsFiniteSet(postings), postings \subseteq PostingRow,
         \A p, q \in postings : p.id = q.id => p = q, NEW gone, NEW id
  PROVE  Split(Uncharge(gone), id) = Split(postings, id)
<1> DEFINE m == [p \in PostingRow |->
                   [p EXCEPT !.alloc = IF \E a \in gone : a.id = p.alloc THEN 0 ELSE @]]
           S == OfPayment(postings, id)
<1>1. \A p \in postings : /\ m[p] \in [id: Nat, tx: Nat, alloc: {0, p.alloc},
                                      kind: PostingKind, cents: Nat]
                          /\ m[p].id = p.id /\ m[p].tx = p.tx /\ m[p].cents = p.cents
  BY DEF PostingRow
<1>2. \A p \in postings : m[p] \in PostingRow
  BY <1>1 DEF PostingRow
<1>3. Uncharge(gone) = {m[p] : p \in postings}
  BY DEF Uncharge
<1> HIDE DEF m
<1>4. OfPayment(Uncharge(gone), id) = {m[p] : p \in S}
  BY <1>1, <1>3 DEF OfPayment
<1>5. \A p, q \in S : m[p] = m[q] => p = q
  BY <1>1 DEF OfPayment
<1>6. \A p \in S : weight[p] \in Int /\ weight[m[p]] = weight[p]
  BY <1>1, <1>2 DEF OfPayment, weight, PostingRow
<1>7. IsFiniteSet(S)
  BY SplitType
<1> HIDE DEF S
<1>8. SumOf(weight, {m[p] : p \in S}) = SumOf(weight, S)
  BY <1>5, <1>6, <1>7, SumRename
<1> QED BY <1>4, <1>8 DEF Split, S

LEMMA HeldType ==
  ASSUME NEW rq \in [Req -> Request], NEW id
  PROVE  /\ \A r \in Req : Held(rq, id)[r] \in Nat /\ Held(rq, id)[r] \in Int
         /\ Reserved(rq, id) \in Nat
<1>1. \A r \in Req : Held(rq, id)[r] \in Nat
  BY DEF Held, Request
<1>2. SumOf(Held(rq, id), Req) \in Nat
  BY <1>1, FiniteAssumption, SumType
<1> QED BY <1>1, <1>2 DEF Reserved

\* Requests that hold no more than before reserve no more than before.
LEMMA ReservedAtMost ==
  ASSUME NEW rq \in [Req -> Request], NEW rq2 \in [Req -> Request], NEW id,
         \A r \in Req : Held(rq2, id)[r] <= Held(rq, id)[r]
  PROVE  Reserved(rq2, id) <= Reserved(rq, id)
<1>1. \A r \in Req : Held(rq, id)[r] \in Int /\ Held(rq2, id)[r] \in Int
  BY HeldType
<1> QED BY <1>1, FiniteAssumption, SumAtMost DEF Reserved

\* What one request holds, and what the others do.
LEMMA ReservedSplit ==
  ASSUME NEW rq \in [Req -> Request], NEW id, NEW r \in Req
  PROVE  /\ Reserved(rq, id) = Held(rq, id)[r] + SumOf(Held(rq, id), Req \ {r})
         /\ SumOf(Held(rq, id), Req \ {r}) \in Nat
         /\ Held(rq, id)[r] \in Nat
<1>1. \A q \in Req : Held(rq, id)[q] \in Nat /\ Held(rq, id)[q] \in Int
  BY HeldType
<1>2. IsFiniteSet(Req \ {r})
  BY FiniteAssumption, FS_Subset
<1>3. SumOf(Held(rq, id), Req) = Held(rq, id)[r] + SumOf(Held(rq, id), Req \ {r})
  BY <1>1, FiniteAssumption, SumRemove
<1>4. SumOf(Held(rq, id), Req \ {r}) \in Nat
  BY <1>1, <1>2, SumType
<1> QED BY <1>1, <1>3, <1>4 DEF Reserved

\* A request that does not hold anything, and knows no more than the amount
\* of its payment, leaves the amounts as they are.
LEMMA HoldsNothing ==
  ASSUME IInv, SInv, UNCHANGED dataVars, NEW r \in Req, NEW q \in Request,
         req' = [req EXCEPT ![r] = q], q.pc # "insert", q.tx \in 0..seq.tx,
         \A t \in txs : t.id = q.tx /\ t.id \notin lowered => q.limit <= t.cents
  PROVE  SInv'
<1> USE DEF IInv, TypeOK, SInv
<1>1. PostingIds' /\ PaymentIds' /\ LimitsHeld'
  BY DEF PostingIds, PaymentIds, LimitsHeld, dataVars
<1>2. req' \in [Req -> Request]
  OBVIOUS
<1>3. ASSUME NEW t \in txs, t.id \notin lowered
      PROVE  Split(postings, t.id) + Reserved(req', t.id) <= Cardinality(Req) * t.cents
  <2>1. \A s \in Req : Held(req', t.id)[s] <= Held(req, t.id)[s]
    BY <1>2 DEF Held, Request
  <2>2. Reserved(req', t.id) <= Reserved(req, t.id)
    BY <1>2, <2>1, ReservedAtMost
  <2>3. Reserved(req', t.id) \in Nat /\ Reserved(req, t.id) \in Nat
    BY <1>2, HeldType
  <2>4. Split(postings, t.id) \in Nat
    BY SplitType DEF PostingIds
  <2>5. Split(postings, t.id) + Reserved(req, t.id) <= Cardinality(Req) * t.cents
    BY <1>3 DEF SpendingHeld
  <2>6. PICK bound \in Int : bound = Cardinality(Req) * t.cents
    BY FiniteAssumption, FS_CardinalityType DEF TxRow
  <2> QED BY <2>2, <2>3, <2>4, <2>5, <2>6
<1>4. SpendingHeld'
  BY <1>3 DEF SpendingHeld, dataVars
<1> QED BY <1>1, <1>4

LEMMA IdleHoldsNothing ==
  /\ Idle \in Request /\ Idle.pc # "insert" /\ Idle.tx = 0
BY DEF Idle, Request, FormKind

\* The statements before the check of the sum.
LEMMA ReadingSpends ==
  ASSUME IInv, SInv, NEW r \in Req, UNCHANGED dataVars,
         \/ StartWebPosting(r) \/ StartMcpPosting(r)
         \/ CheckBelongsToProject(r) \/ CheckKind(r) \/ Respond(r)
  PROVE  SInv'
<1> USE DEF IInv, TypeOK, SInv
<1>1. \A t \in txs : t.id \in Nat \ {0} /\ t.id \in 0..seq.tx /\ t.cents \in Nat
  BY DEF PaymentIds, TxRow
<1>2. CASE Respond(r)
  <2>1. req' = [req EXCEPT ![r] = Idle]
    BY <1>2 DEF Respond
  <2>2. Idle.tx \in 0..seq.tx
    BY IdleHoldsNothing
  <2>3. \A t \in txs : t.id # Idle.tx
    BY <1>1, IdleHoldsNothing
  <2> QED BY <2>1, <2>2, <2>3, IdleHoldsNothing, HoldsNothing
<1>3. ASSUME NEW t \in txs, NEW q \in Request, q.pc # "insert", q.tx = t.id, q.limit = t.cents,
             req' = [req EXCEPT ![r] = q]
      PROVE  SInv'
  <2>1. \A u \in txs : u.id = q.tx /\ u.id \notin lowered => q.limit <= u.cents
    BY <1>1, <1>3 DEF PaymentIds
  <2>2. q.tx \in 0..seq.tx
    BY <1>1, <1>3
  <2> QED BY <1>3, <2>1, <2>2, HoldsNothing
<1>4. CASE StartWebPosting(r)
  <2>1. PICK t \in txs, kind \in FormKind, cents \in Cents :
          \/ /\ kind = "company_shared_cost"
             /\ req' = [req EXCEPT ![r] =
                  [Idle EXCEPT !.pc = "sum", !.tx = t.id, !.kind = kind,
                               !.cents = cents, !.limit = t.cents]]
          \/ /\ kind # "company_shared_cost"
             /\ \E p \in Project, a \in 1..seq.alloc :
                  req' = [req EXCEPT ![r] =
                    [pc |-> "belongs", via |-> "web", tx |-> t.id, project |-> p,
                     alloc |-> a, kind |-> kind, cents |-> cents, limit |-> t.cents]]
    BY <1>4 DEF StartWebPosting
  <2>2. t.id \in Nat /\ t.cents \in Nat /\ cents \in Nat /\ Project \subseteq Nat
    BY ConstantsAssumption DEF TxRow, Cents
  <2>3. CASE kind = "company_shared_cost"
    <3> DEFINE q == [Idle EXCEPT !.pc = "sum", !.tx = t.id, !.kind = kind,
                                 !.cents = cents, !.limit = t.cents]
    <3>1. q \in Request /\ q.pc # "insert" /\ q.tx = t.id /\ q.limit = t.cents
      BY <2>2, <2>3 DEF Request, Idle
    <3>2. req' = [req EXCEPT ![r] = q]
      BY <2>1, <2>3
    <3> HIDE DEF q
    <3> QED BY <1>3, <3>1, <3>2
  <2>4. CASE kind # "company_shared_cost"
    <3>1. PICK p \in Project, a \in 1..seq.alloc :
            req' = [req EXCEPT ![r] =
              [pc |-> "belongs", via |-> "web", tx |-> t.id, project |-> p,
               alloc |-> a, kind |-> kind, cents |-> cents, limit |-> t.cents]]
      BY <2>1, <2>4
    <3> DEFINE q == [pc |-> "belongs", via |-> "web", tx |-> t.id, project |-> p,
                     alloc |-> a, kind |-> kind, cents |-> cents, limit |-> t.cents]
    <3>2. q \in Request /\ q.pc # "insert" /\ q.tx = t.id /\ q.limit = t.cents
      BY <2>2, <2>4 DEF Request
    <3>3. req' = [req EXCEPT ![r] = q]
      BY <3>1
    <3> HIDE DEF q
    <3> QED BY <1>3, <3>2, <3>3
  <2> QED BY <2>3, <2>4
<1>5. CASE StartMcpPosting(r)
  <2>1. PICK t \in txs, kind \in {"partner_payout", "cost_expense"}, cents \in Cents,
             p \in Project \cup {0}, a \in 1..seq.alloc :
          req' = [req EXCEPT ![r] =
            [pc |-> IF p = 0 THEN "kind" ELSE "belongs", via |-> "mcp", tx |-> t.id,
             project |-> p, alloc |-> a, kind |-> kind, cents |-> cents,
             limit |-> t.cents]]
    BY <1>5 DEF StartMcpPosting
  <2> DEFINE q == [pc |-> IF p = 0 THEN "kind" ELSE "belongs", via |-> "mcp", tx |-> t.id,
                   project |-> p, alloc |-> a, kind |-> kind, cents |-> cents,
                   limit |-> t.cents]
  <2>2. t.id \in Nat /\ t.cents \in Nat /\ cents \in Nat /\ p \in Nat
    BY ConstantsAssumption DEF TxRow, Cents
  <2>3. q \in Request /\ q.pc # "insert" /\ q.tx = t.id /\ q.limit = t.cents
    BY <2>2 DEF Request, FormKind, PostingKind
  <2>4. req' = [req EXCEPT ![r] = q]
    BY <2>1
  <2> HIDE DEF q
  <2> QED BY <1>3, <2>3, <2>4
<1>6. ASSUME NEW q \in Request, q.pc # "insert", q.tx = req[r].tx, q.limit = req[r].limit,
             req' = [req EXCEPT ![r] = q]
      PROVE  SInv'
  <2>1. \A u \in txs : u.id = q.tx /\ u.id \notin lowered => q.limit <= u.cents
    BY <1>6 DEF LimitsHeld
  <2>2. q.tx \in 0..seq.tx
    BY <1>6 DEF PaymentIds
  <2> QED BY <1>6, <2>1, <2>2, HoldsNothing
<1>7. CASE req' = [req EXCEPT ![r].pc = "kind"]
  <2> DEFINE q == [req[r] EXCEPT !.pc = "kind"]
  <2>1. q \in Request /\ q.pc # "insert" /\ q.tx = req[r].tx /\ q.limit = req[r].limit
    BY DEF Request
  <2>2. req' = [req EXCEPT ![r] = q]
    BY <1>7
  <2> HIDE DEF q
  <2> QED BY <1>6, <2>1, <2>2
<1>8. CASE \E a \in allocs :
             req' = [req EXCEPT ![r] =
               [@ EXCEPT !.pc = "sum", !.kind = KindStored(r, a),
                         !.via = "web", !.project = 0]]
  <2>1. PICK a \in allocs :
          req' = [req EXCEPT ![r] =
            [@ EXCEPT !.pc = "sum", !.kind = KindStored(r, a), !.via = "web", !.project = 0]]
    BY <1>8
  <2>2. KindStored(r, a) \in FormKind
    BY DEF KindStored, KindForAllocation, PostingKind, FormKind, Request
  <2> DEFINE q == [req[r] EXCEPT !.pc = "sum", !.kind = KindStored(r, a),
                                 !.via = "web", !.project = 0]
  <2>3. q \in Request /\ q.pc # "insert" /\ q.tx = req[r].tx /\ q.limit = req[r].limit
    BY <2>2 DEF Request
  <2>4. req' = [req EXCEPT ![r] = q]
    BY <2>1
  <2> HIDE DEF q
  <2> QED BY <1>6, <2>3, <2>4
<1> QED
  BY <1>2, <1>4, <1>5, <1>7, <1>8 DEF CheckBelongsToProject, CheckKind

\* Passing the check: the request reserves what it asked for.  The sum it saw
\* and its own amount stay within the limit, and each of the other requests
\* holds no more than the limit it checked against.
LEMMA CheckSpends ==
  ASSUME IInv, SInv, NEW r \in Req, UNCHANGED dataVars,
         SumCashBudgetPostings(req[r].tx) + req[r].cents <= req[r].limit,
         req' = [req EXCEPT ![r].pc = "insert"]
  PROVE  SInv'
<1> USE DEF IInv, TypeOK, SInv
<1>1. /\ req' \in [Req -> Request]
      /\ \A s \in Req : /\ req'[s].tx = req[s].tx
                        /\ req'[s].cents = req[s].cents
                        /\ req'[s].limit = req[s].limit
      /\ \A s \in Req \ {r} : req'[s] = req[s]
      /\ req'[r].pc = "insert"
  BY DEF Request
<1>2. \A s \in Req : req[s].cents \in Nat /\ req[s].limit \in Nat
  BY DEF Request
<1>3. SumCashBudgetPostings(req[r].tx) = Split(postings, req[r].tx)
  <2>1. OfPayment(postings, req[r].tx) \in SUBSET PostingRow
    BY DEF OfPayment
  <2>2. IsFiniteSet(OfPayment(postings, req[r].tx))
    BY SplitType DEF PostingIds
  <2> QED BY <2>1, <2>2, CentsSum DEF SumCashBudgetPostings, Split, OfPayment
<1>4. \A id : Split(postings, id) \in Nat
  BY SplitType DEF PostingIds
<1>5. PostingIds' /\ PaymentIds'
  BY <1>1 DEF PostingIds, PaymentIds, dataVars
<1>6. req[r].cents <= req[r].limit
  BY <1>2, <1>3, <1>4
<1>7. LimitsHeld'
  BY <1>1, <1>6 DEF LimitsHeld, dataVars
<1>8. PICK rq \in [Req -> Request] : rq = req'
  BY <1>1
<1>9. ASSUME NEW t \in txs, t.id \notin lowered
      PROVE  Split(postings, t.id) + Reserved(rq, t.id) <= Cardinality(Req) * t.cents
  <2>1. t.cents \in Nat /\ Cardinality(Req) \in Nat
    BY FiniteAssumption, FS_CardinalityType DEF TxRow
  <2>2. CASE t.id # req[r].tx
    <3>1. \A s \in Req : Held(rq, t.id)[s] <= Held(req, t.id)[s]
      BY <1>1, <1>8, <1>2, <2>2 DEF Held
    <3>2. Reserved(rq, t.id) <= Reserved(req, t.id)
      BY <1>1, <1>8, <3>1, ReservedAtMost
    <3>3. Reserved(rq, t.id) \in Nat /\ Reserved(req, t.id) \in Nat
      BY HeldType
    <3>4. Split(postings, t.id) + Reserved(req, t.id) <= Cardinality(Req) * t.cents
      BY <1>9 DEF SpendingHeld
    <3>5. PICK bound \in Int : bound = Cardinality(Req) * t.cents
      BY <2>1
    <3> QED BY <1>4, <3>2, <3>3, <3>4, <3>5
  <2>3. CASE t.id = req[r].tx
    <3> DEFINE others == Req \ {r}
    <3>1. IsFiniteSet(others) /\ Cardinality(others) = Cardinality(Req) - 1
      BY FiniteAssumption, FS_RemoveElement, FS_Subset
    <3>2. \A s \in others : /\ Held(rq, t.id)[s] \in Int
                            /\ Held(rq, t.id)[s] <= t.cents
      BY <1>1, <1>8, <1>2, <1>9, <2>1 DEF Held, LimitsHeld
    <3>3. SumOf(Held(rq, t.id), others) <= Cardinality(others) * t.cents
      BY <2>1, <3>1, <3>2, SumBound
    <3>4. /\ Reserved(rq, t.id) = Held(rq, t.id)[r] + SumOf(Held(rq, t.id), others)
          /\ SumOf(Held(rq, t.id), others) \in Nat
      BY ReservedSplit
    <3>5. Held(rq, t.id)[r] = req[r].cents
      BY <1>1, <1>8, <2>3 DEF Held
    <3>6. Split(postings, t.id) + req[r].cents <= t.cents
      <4>1. req[r].limit <= t.cents
        BY <1>9, <2>3 DEF LimitsHeld
      <4> QED BY <1>2, <1>3, <1>4, <2>1, <2>3, <4>1
    <3>7. PICK rest \in Int : rest = Cardinality(others) * t.cents
      BY <2>1, <3>1
    <3>8. Cardinality(Req) * t.cents = rest + t.cents
      <4>1. PICK n \in Int : n = Cardinality(others)
        BY <2>1, <3>1
      <4>2. Cardinality(Req) = n + 1
        BY <2>1, <3>1, <4>1
      <4>3. (n + 1) * t.cents = n * t.cents + t.cents
        BY <2>1
      <4> QED BY <3>7, <4>1, <4>2, <4>3
    <3> HIDE DEF others
    <3>9. PICK sum \in Nat : sum = SumOf(Held(rq, t.id), others)
      BY <3>4
    <3>10. sum <= rest /\ Reserved(rq, t.id) = req[r].cents + sum
      BY <3>3, <3>4, <3>5, <3>7, <3>9
    <3> QED BY <1>2, <1>4, <2>1, <3>6, <3>8, <3>10
  <2> QED BY <2>2, <2>3
<1>10. SpendingHeld'
  BY <1>8, <1>9 DEF SpendingHeld, dataVars
<1> QED BY <1>5, <1>7, <1>10

\* The INSERT turns what the request held into a posting, or gives it up.
LEMMA InsertSpends ==
  ASSUME IInv, SInv, NEW r \in Req, CreateBudgetPosting(r)
  PROVE  SInv'
<1> USE DEF IInv, TypeOK, SInv
<1>1. /\ req[r].pc = "insert" /\ req' = [req EXCEPT ![r] = Idle]
      /\ UNCHANGED <<projects, txs, allocs, lowered>>
      /\ req[r].tx \in Nat /\ req[r].cents \in Nat
  BY DEF CreateBudgetPosting, Respond, Request
<1>2. /\ seq'.tx = seq.tx /\ seq'.posting \in Nat /\ seq'.posting >= seq.posting
  BY DEF CreateBudgetPosting
<1>3. PICK rq \in [Req -> Request] : rq = req'
  BY <1>1, IdleHoldsNothing
<1>4. rq[r] = Idle /\ \A s \in Req \ {r} : rq[s] = req[s]
  BY <1>1, <1>3
<1>5. PaymentIds' /\ LimitsHeld'
  <2>1. \A t \in txs : t.id # Idle.tx
    BY IdleHoldsNothing DEF PaymentIds
  <2>2. Idle.tx \in 0..seq.tx
    BY IdleHoldsNothing
  <2>3. PaymentIds'
    BY <1>1, <1>2, <1>3, <1>4, <2>2 DEF PaymentIds
  <2>4. LimitsHeld'
    BY <1>1, <1>3, <1>4, <2>1, IdleHoldsNothing DEF LimitsHeld
  <2> QED BY <2>3, <2>4
<1>6. \A id : Split(postings, id) \in Nat
  BY SplitType DEF PostingIds
<1>7. \A id : /\ Reserved(rq, id) \in Nat /\ Reserved(req, id) \in Nat
              /\ Reserved(rq, id) + (IF req[r].tx = id THEN req[r].cents ELSE 0)
                   = Reserved(req, id)
  <2> TAKE id
  <2> DEFINE others == Req \ {r}
  <2>1. /\ Reserved(req, id) = Held(req, id)[r] + SumOf(Held(req, id), others)
        /\ SumOf(Held(req, id), others) \in Nat
    BY ReservedSplit
  <2>2. /\ Reserved(rq, id) = Held(rq, id)[r] + SumOf(Held(rq, id), others)
        /\ SumOf(Held(rq, id), others) \in Nat
    BY ReservedSplit
  <2>3. \A s \in others : Held(rq, id)[s] \in Int /\ Held(req, id)[s] = Held(rq, id)[s]
    <3>1. \A s \in others : Held(rq, id)[s] \in Int
      BY HeldType
    <3> QED BY <1>4, <3>1 DEF Held
  <2>4. IsFiniteSet(others)
    BY FiniteAssumption, FS_Subset
  <2> HIDE DEF others
  <2>5. SumOf(Held(rq, id), others) = SumOf(Held(req, id), others)
    BY <2>3, <2>4, SumAgree
  <2>6. /\ Held(rq, id)[r] = 0
        /\ Held(req, id)[r] = IF req[r].tx = id THEN req[r].cents ELSE 0
    BY <1>1, <1>4, IdleHoldsNothing DEF Held
  <2>7. Reserved(rq, id) \in Nat /\ Reserved(req, id) \in Nat
    BY HeldType
  <2>8. PICK sum \in Nat : sum = SumOf(Held(req, id), others)
    BY <2>1
  <2>9. Reserved(rq, id) = 0 + sum /\ Reserved(req, id) = Held(req, id)[r] + sum
    BY <2>1, <2>2, <2>5, <2>6, <2>8
  <2> QED BY <1>1, <2>6, <2>7, <2>9
<1>8. ASSUME NEW rows, rows = postings',
             \A id : Split(rows, id) \in Nat
                     /\ Split(rows, id)
                          <= Split(postings, id) + (IF req[r].tx = id THEN req[r].cents ELSE 0)
      PROVE  SpendingHeld'
  <2>1. ASSUME NEW t \in txs, t.id \notin lowered
        PROVE  Split(rows, t.id) + Reserved(rq, t.id) <= Cardinality(Req) * t.cents
    <3>1. Split(postings, t.id) + Reserved(req, t.id) <= Cardinality(Req) * t.cents
      BY <2>1 DEF SpendingHeld
    <3>2. PICK bound \in Int : bound = Cardinality(Req) * t.cents
      BY FiniteAssumption, FS_CardinalityType DEF TxRow
    <3>3. PICK amount \in Nat : amount = IF req[r].tx = t.id THEN req[r].cents ELSE 0
      BY <1>1
    <3>4. Reserved(rq, t.id) \in Nat /\ Reserved(rq, t.id) + amount = Reserved(req, t.id)
      BY <1>7, <3>3
    <3>5. Split(rows, t.id) \in Nat /\ Split(rows, t.id) <= Split(postings, t.id) + amount
      BY <1>8, <3>3
    <3> QED BY <1>6, <3>1, <3>2, <3>4, <3>5
  <2> QED BY <1>1, <1>3, <1>8, <2>1 DEF SpendingHeld
<1>9. CASE postings' = postings
  <2>1. PostingIds'
    BY <1>2, <1>9 DEF PostingIds
  <2>2. SpendingHeld'
    BY <1>1, <1>6, <1>8, <1>9
  <2> QED BY <1>5, <2>1, <2>2
<1>10. CASE /\ seq' = [seq EXCEPT !.posting = @ + 1]
            /\ postings' = postings \cup
                 {[id |-> seq.posting + 1, tx |-> req[r].tx, alloc |-> req[r].alloc,
                   kind |-> req[r].kind, cents |-> req[r].cents]}
  <2> DEFINE new == [id |-> seq.posting + 1, tx |-> req[r].tx, alloc |-> req[r].alloc,
                     kind |-> req[r].kind, cents |-> req[r].cents]
  <2>1. /\ new \in PostingRow /\ new.id = seq.posting + 1
        /\ new.tx = req[r].tx /\ new.cents = req[r].cents
    BY <1>1 DEF PostingRow, Request, CheckedRequestsFit
  <2>2. postings' = postings \cup {new} /\ seq'.posting = seq.posting + 1
    BY <1>10
  <2> HIDE DEF new
  <2>3. new \notin postings
    BY <2>1 DEF PostingIds
  <2>4. PostingIds'
    <3>1. IsFiniteSet(postings')
      BY <2>2, FS_AddElement DEF PostingIds
    <3> QED BY <1>2, <2>1, <2>2, <3>1 DEF PostingIds
  <2>5. PICK rows : rows = postings'
    OBVIOUS
  <2>6. \A id : Split(rows, id)
                  = Split(postings, id) + (IF req[r].tx = id THEN req[r].cents ELSE 0)
    BY <2>1, <2>2, <2>3, <2>5, SplitMore DEF PostingIds
  <2>7. \A id : Split(rows, id) \in Nat
                /\ Split(rows, id)
                     <= Split(postings, id) + (IF req[r].tx = id THEN req[r].cents ELSE 0)
    BY <1>1, <1>6, <2>6
  <2>8. SpendingHeld'
    BY <1>8, <2>5, <2>7
  <2> QED BY <1>5, <2>4, <2>8
<1> QED BY <1>9, <1>10 DEF CreateBudgetPosting

\* Postings that are deleted or uncharged take no more than before.
LEMMA FewerSpend ==
  ASSUME IInv, SInv, UNCHANGED <<seq, req, lowered>>, txs' \subseteq txs, PostingIds',
         NEW rows \in SUBSET PostingRow, rows = postings', IsFiniteSet(rows),
         \A id : Split(rows, id) <= Split(postings, id)
  PROVE  SInv'
<1> USE DEF IInv, TypeOK, SInv
<1>1. PaymentIds' /\ LimitsHeld'
  BY DEF PaymentIds, LimitsHeld
<1>2. ASSUME NEW t \in txs, t.id \notin lowered
      PROVE  Split(rows, t.id) + Reserved(req, t.id) <= Cardinality(Req) * t.cents
  <2>1. Split(postings, t.id) + Reserved(req, t.id) <= Cardinality(Req) * t.cents
    BY <1>2 DEF SpendingHeld
  <2>2. Split(rows, t.id) \in Nat
    BY SplitType
  <2>3. Split(postings, t.id) \in Nat
    BY SplitType DEF PostingIds
  <2>4. Reserved(req, t.id) \in Nat
    BY HeldType
  <2>5. PICK bound \in Int : bound = Cardinality(Req) * t.cents
    BY FiniteAssumption, FS_CardinalityType DEF TxRow
  <2> QED BY <2>1, <2>2, <2>3, <2>4, <2>5
<1> QED BY <1>1, <1>2 DEF SpendingHeld

\* Uncharging keeps the ids of the postings.
LEMMA UnchargedIds ==
  ASSUME TypeOK, PostingIds, NEW gone
  PROVE  /\ Uncharge(gone) \in SUBSET PostingRow
         /\ IsFiniteSet(Uncharge(gone))
         /\ \A p \in Uncharge(gone) : p.id \in 1..seq.posting
         /\ \A p, q \in Uncharge(gone) : p.id = q.id => p = q
<1> DEFINE m == [p \in PostingRow |->
                   [p EXCEPT !.alloc = IF \E a \in gone : a.id = p.alloc THEN 0 ELSE @]]
<1>1. \A p \in postings : m[p] \in PostingRow /\ m[p].id = p.id
  BY DEF TypeOK, PostingRow
<1>2. Uncharge(gone) = {m[p] : p \in postings}
  BY DEF TypeOK, Uncharge
<1> HIDE DEF m
<1>3. IsFiniteSet({m[p] : p \in postings})
  BY ImageFinite DEF PostingIds
<1> QED BY <1>1, <1>2, <1>3 DEF PostingIds

\* The single-statement handlers.
LEMMA TablesSpend ==
  ASSUME IInv, SInv,
         \/ DeleteBudgetPosting \/ JournalCreate \/ JournalUpdate \/ JournalDelete
         \/ AllocationCreate \/ AllocationEdit \/ AllocationDelete \/ ProjectDelete
  PROVE  SInv'
<1> USE DEF IInv, TypeOK, SInv
<1>1. ASSUME NEW rows \in SUBSET postings, rows = postings', txs' \subseteq txs,
             UNCHANGED <<seq, req, lowered>>
      PROVE  SInv'
  <2>1. IsFiniteSet(rows)
    BY FS_Subset DEF PostingIds
  <2>2. PostingIds'
    BY <1>1, <2>1 DEF PostingIds
  <2>3. \A id : Split(rows, id) <= Split(postings, id)
    BY SplitFewer DEF PostingIds
  <2>4. rows \in SUBSET PostingRow
    OBVIOUS
  <2> QED BY <1>1, <2>1, <2>2, <2>3, <2>4, FewerSpend
<1>2. ASSUME NEW gone, postings' = Uncharge(gone), UNCHANGED <<txs, seq, req, lowered>>
      PROVE  SInv'
  <2>1. PICK rows : rows = Uncharge(gone)
    OBVIOUS
  <2>2. rows \in SUBSET PostingRow /\ IsFiniteSet(rows)
    BY <2>1, UnchargedIds
  <2>3. PostingIds'
    BY <1>2, UnchargedIds DEF PostingIds
  <2>4. \A id : Split(rows, id) \in Nat /\ Split(rows, id) = Split(postings, id)
    BY <2>1, <2>2, SplitType, SplitUncharged DEF PostingIds
  <2>5. \A id : Split(rows, id) <= Split(postings, id)
    BY <2>4
  <2> QED BY <1>2, <2>1, <2>2, <2>3, <2>5, FewerSpend
<1>3. CASE DeleteBudgetPosting
  BY <1>1, <1>3 DEF DeleteBudgetPosting
<1>4. CASE JournalDelete
  BY <1>1, <1>4 DEF JournalDelete
<1>5. CASE JournalCreate
  <2>1. PICK cents \in Cents : txs' = txs \cup {[id |-> seq.tx + 1, cents |-> cents]}
    BY <1>5 DEF JournalCreate
  <2> DEFINE new == [id |-> seq.tx + 1, cents |-> cents]
  <2>2. new.id = seq.tx + 1 /\ new.cents \in Nat
    BY ConstantsAssumption DEF Cents
  <2>3. txs' = txs \cup {new}
    BY <2>1
  <2> HIDE DEF new
  <2>4. /\ seq'.tx = seq.tx + 1 /\ seq'.posting = seq.posting
        /\ UNCHANGED <<projects, allocs, postings, req, lowered>>
    BY <1>5 DEF JournalCreate
  <2>5. \A r \in Req : req[r].tx # new.id
    BY <2>2 DEF PaymentIds
  <2>6. PostingIds' /\ PaymentIds'
    BY <2>2, <2>3, <2>4 DEF PostingIds, PaymentIds
  <2>7. LimitsHeld'
    BY <2>3, <2>4, <2>5 DEF LimitsHeld
  <2>8. Split(postings, new.id) + Reserved(req, new.id) <= Cardinality(Req) * new.cents
    <3>1. OfPayment(postings, new.id) = {}
      BY <2>2 DEF OfPayment, PaymentIds, ChargesAreLive, TxLive
    <3>2. Split(postings, new.id) = 0
      BY <3>1, SumEmpty DEF Split
    <3>3. \A r \in Req : Held(req, new.id)[r] = 0
      BY <2>5 DEF Held
    <3>4. \A r \in Req : Held(req, new.id)[r] \in Int /\ Held(req, new.id)[r] <= 0
      BY <3>3
    <3>5. SumOf(Held(req, new.id), Req) <= Cardinality(Req) * 0
      BY <3>4, FiniteAssumption, SumBound
    <3>6. Reserved(req, new.id) \in Nat
      BY HeldType
    <3>7. Cardinality(Req) \in Nat /\ Cardinality(Req) * new.cents \in Nat
      BY <2>2, FiniteAssumption, FS_CardinalityType
    <3>8. Cardinality(Req) * 0 = 0
      BY <3>7
    <3> QED BY <3>2, <3>5, <3>6, <3>7, <3>8 DEF Reserved
  <2>9. SpendingHeld'
    BY <2>3, <2>4, <2>8 DEF SpendingHeld
  <2> QED BY <2>6, <2>7, <2>9
<1>6. CASE JournalUpdate
  <2>1. PICK t \in txs, cents \in Cents :
          /\ txs' = (txs \ {t}) \cup {[t EXCEPT !.cents = cents]}
          /\ lowered' = IF cents < t.cents THEN lowered \cup {t.id} ELSE lowered
          /\ UNCHANGED <<projects, allocs, postings, seq, req>>
    BY <1>6 DEF JournalUpdate
  <2> DEFINE new == [t EXCEPT !.cents = cents]
  <2>2. /\ new.id = t.id /\ new.cents = cents
        /\ t.cents \in Nat /\ cents \in Nat
    BY ConstantsAssumption DEF TxRow, Cents
  <2>3. txs' = (txs \ {t}) \cup {new}
    BY <2>1
  <2> HIDE DEF new
  <2>4. lowered \subseteq lowered' /\ (new.id \notin lowered' => t.cents <= new.cents)
    BY <2>1, <2>2
  <2>5. PostingIds' /\ PaymentIds'
    BY <2>1, <2>2, <2>3, <2>4 DEF PostingIds, PaymentIds
  <2>6. LimitsHeld'
    <3>1. \A r \in Req : req[r].limit \in Nat
      BY DEF Request
    <3>2. ASSUME NEW r \in Req, new.id = req[r].tx, new.id \notin lowered'
          PROVE  req[r].limit <= new.cents
      <4>1. req[r].limit <= t.cents
        BY <2>2, <2>4, <3>2 DEF LimitsHeld
      <4> QED BY <2>2, <2>4, <3>1, <3>2, <4>1
    <3> QED BY <2>1, <2>3, <2>4, <3>2 DEF LimitsHeld
  <2>7. ASSUME new.id \notin lowered'
        PROVE  Split(postings, new.id) + Reserved(req, new.id) <= Cardinality(Req) * new.cents
    <3>1. Split(postings, t.id) + Reserved(req, t.id) <= Cardinality(Req) * t.cents
      BY <2>2, <2>4, <2>7 DEF SpendingHeld
    <3>2. PICK n \in Nat : n = Cardinality(Req)
      BY FiniteAssumption, FS_CardinalityType
    <3>3. t.cents <= new.cents
      BY <2>4, <2>7
    <3>4. n * t.cents <= n * new.cents
      BY <2>2, <3>3, ProductGrows
    <3>5. PICK sum \in Nat : sum = Split(postings, t.id) + Reserved(req, t.id)
      <4>1. Split(postings, t.id) \in Nat
        BY SplitType DEF PostingIds
      <4>2. Reserved(req, t.id) \in Nat
        BY HeldType
      <4> QED BY <4>1, <4>2
    <3>6. n * t.cents \in Nat /\ n * new.cents \in Nat
      BY <2>2
    <3> QED BY <2>2, <3>1, <3>2, <3>4, <3>5, <3>6
  <2>8. SpendingHeld'
    BY <2>1, <2>3, <2>4, <2>7 DEF SpendingHeld
  <2> QED BY <2>5, <2>6, <2>8
<1>7. CASE AllocationCreate
  <2>1. /\ seq'.tx = seq.tx /\ seq'.posting = seq.posting
        /\ UNCHANGED <<txs, postings, req, lowered>>
    BY <1>7 DEF AllocationCreate
  <2> QED BY <2>1 DEF PostingIds, PaymentIds, LimitsHeld, SpendingHeld
<1>8. CASE AllocationEdit
  <2>1. UNCHANGED <<txs, postings, seq, req, lowered>>
    BY <1>8 DEF AllocationEdit
  <2> QED BY <2>1 DEF PostingIds, PaymentIds, LimitsHeld, SpendingHeld
<1>9. CASE AllocationDelete
  BY <1>2, <1>9 DEF AllocationDelete
<1>10. CASE ProjectDelete
  BY <1>2, <1>10 DEF ProjectDelete
<1> QED
  BY <1>3, <1>4, <1>5, <1>6, <1>7, <1>8, <1>9, <1>10

LEMMA InitSInv == Init => SInv
<1> SUFFICES ASSUME Init PROVE SInv
  OBVIOUS
<1>1. PostingIds
  BY FS_EmptySet DEF Init, PostingIds
<1>2. PaymentIds /\ LimitsHeld /\ SpendingHeld
  BY IdleHoldsNothing DEF Init, PaymentIds, LimitsHeld, SpendingHeld
<1> QED BY <1>1, <1>2 DEF SInv

LEMMA NextSInv == IInv /\ SInv /\ [Next]_vars => SInv'
<1> SUFFICES ASSUME IInv, SInv, [Next]_vars PROVE SInv'
  OBVIOUS
<1>1. CASE UNCHANGED vars
  BY <1>1 DEF vars, SInv, PostingIds, PaymentIds, LimitsHeld, SpendingHeld
<1>2. ASSUME NEW r \in Req, PostingStep(r) PROVE SInv'
  <2>1. CASE StartWebPosting(r) \/ StartMcpPosting(r) \/ CheckBelongsToProject(r) \/ CheckKind(r)
    <3>1. UNCHANGED dataVars
      BY <2>1 DEF StartWebPosting, StartMcpPosting, CheckBelongsToProject, CheckKind
    <3> QED BY <2>1, <3>1, ReadingSpends
  <2>2. CASE CheckSum(r)
    BY <2>2, CheckSpends, ReadingSpends DEF CheckSum
  <2>3. CASE CreateBudgetPosting(r)
    BY <2>3, InsertSpends
  <2> QED BY <1>2, <2>1, <2>2, <2>3 DEF PostingStep
<1> QED BY <1>1, <1>2, TablesSpend DEF Next

LEMMA Spending == Spec => []SInv
BY InitSInv, NextSInv, Invariance, PTL DEF Spec

\* However the requests interleave, the splits of a payment whose amount no
\* edit has lowered stay within the number of requests times its amount.
THEOREM SpendingBounded == Spec => []OverspendBounded
<1>1. ASSUME IInv, SInv, NEW t \in txs, t.id \notin lowered
      PROVE  SplitOf(t) <= Cardinality(Req) * t.cents
  <2>1. OfPayment(postings, t.id) \in SUBSET PostingRow
    BY <1>1 DEF OfPayment, IInv, TypeOK
  <2>2. IsFiniteSet(OfPayment(postings, t.id)) /\ Split(postings, t.id) \in Nat
    BY <1>1, SplitType DEF IInv, TypeOK, SInv, PostingIds
  <2>3. SplitOf(t) = Split(postings, t.id)
    BY <2>1, <2>2, CentsSum DEF SplitOf, Split, OfPayment
  <2>4. Split(postings, t.id) + Reserved(req, t.id) <= Cardinality(Req) * t.cents
    BY <1>1 DEF SInv, SpendingHeld
  <2>5. Reserved(req, t.id) \in Nat
    BY <1>1, HeldType DEF IInv, TypeOK
  <2>6. PICK bound \in Int : bound = Cardinality(Req) * t.cents
    BY <1>1, FiniteAssumption, FS_CardinalityType DEF IInv, TypeOK, TxRow
  <2> QED BY <2>2, <2>3, <2>4, <2>5, <2>6
<1>2. IInv /\ SInv => OverspendBounded
  BY <1>1 DEF OverspendBounded
<1> QED BY <1>2, Invariance, Spending, PTL

-----------------------------------------------------------------------------
(* The reports.                                                            *)

PaidFor(Q) == {p \in postings :
                 /\ p.kind \in {"partner_payout", "cost_expense"}
                 /\ \E a \in allocs : a.id = p.alloc /\ a.project \in Q}
Shared     == {p \in postings : p.kind = "company_shared_cost"}
paid       == [j \in projects |-> SumOf(weight, PaidFor({j}))]

LEMMA PostingSets ==
  ASSUME IInv, SInv, NEW rows \in SUBSET postings
  PROVE  /\ IsFiniteSet(rows)
         /\ \A p \in rows : weight[p] \in Int
         /\ SumOf(weight, rows) \in Int
         /\ CentsOf(rows) = SumOf(weight, rows)
<1>1. IsFiniteSet(rows) /\ rows \in SUBSET PostingRow
  BY FS_Subset DEF IInv, TypeOK, SInv, PostingIds
<1>2. \A p \in rows : weight[p] \in Int
  BY <1>1 DEF weight, PostingRow
<1>3. SumOf(weight, rows) \in Int
  BY <1>1, <1>2, SumType
<1>4. CentsOf(rows) = SumOf(weight, rows)
  BY <1>1, CentsSum
<1> QED BY <1>1, <1>2, <1>3, <1>4

\* The fold over the projects is the sum of their figures.
LEMMA ProjectsSum ==
  ASSUME IInv, SInv
  PROVE  MapThenSumSet(PaidByProject, projects) = SumOf(paid, projects)
<1> DEFINE P(h) == h = [s \in SUBSET projects |->
                          IF s = {} THEN 0
                          ELSE PaidByProject(CHOOSE x \in s : TRUE)
                                 + h[s \ {CHOOSE x \in s : TRUE}]]
           iter == CHOOSE h : P(h)
<1>1. MapThenSumSet(PaidByProject, projects) = iter[projects]
  BY DEF MapThenSumSet, MapThenFoldSet
<1>2. \A j \in projects : paid[j] = PaidByProject(j) /\ paid[j] \in Int
  <2> TAKE j \in projects
  <2>1. PaidFor({j}) \in SUBSET postings
    BY DEF PaidFor
  <2>2. CentsOf(PaidFor({j})) = SumOf(weight, PaidFor({j})) /\ SumOf(weight, PaidFor({j})) \in Int
    BY <2>1, PostingSets
  <2>3. PaidByProject(j) = CentsOf(PaidFor({j}))
    BY DEF PaidByProject, PaidFor
  <2> QED BY <2>2, <2>3 DEF paid
<1>3. \A s \in SUBSET projects : s # {} => paid[Pick(s)] = PaidByProject(CHOOSE x \in s : TRUE)
  BY <1>2, PickIn DEF Pick
<1>4. \A h : P(h) <=> IsSum(h, paid, projects)
  BY <1>3 DEF IsSum, Pick
<1>5. IsFiniteSet(projects)
  BY FiniteAssumption, FS_Subset DEF IInv, TypeOK
<1>6. \E h : IsSum(h, paid, projects)
  BY <1>2, <1>5, SumExists
<1> HIDE DEF P
<1>7. P(iter)
  BY <1>4, <1>6
<1> HIDE DEF iter
<1>8. iter[projects] = SumOf(paid, projects)
  BY <1>2, <1>4, <1>5, <1>7, SumIs
<1> QED BY <1>1, <1>8

\* No posting is counted for two projects: an allocation belongs to one.
LEMMA ProjectsApart ==
  ASSUME IInv, SInv
  PROVE  SumOf(paid, projects) = SumOf(weight, PaidFor(projects))
<1> DEFINE part == [j \in projects |-> PaidFor({j})]
<1>1. \A j \in projects : part[j] \in SUBSET postings /\ paid[j] = SumOf(weight, part[j])
  BY DEF PaidFor, paid
<1>2. \A j, k \in projects : j # k => part[j] \cap part[k] = {}
  BY DEF PaidFor, IInv, IdsFromSequence
<1>3. UNION {part[j] : j \in projects} = PaidFor(projects)
  BY DEF PaidFor
<1>4. IsFiniteSet(postings) /\ \A p \in postings : weight[p] \in Int
  BY PostingSets
<1>5. IsFiniteSet(projects)
  BY FiniteAssumption, FS_Subset DEF IInv, TypeOK
<1> HIDE DEF part
<1>6. SumOf(paid, projects) = SumOf(weight, UNION {part[j] : j \in projects})
  BY <1>1, <1>2, <1>4, <1>5, SumPartition
<1> QED BY <1>3, <1>6

\* Whatever the interleaving, the figures of the reports add up to the whole
\* of the charged postings: none is counted twice and none is left out.
THEOREM ReportsComplete == Spec => []ReportsCoverEveryCharge
<1>1. ASSUME IInv, SInv PROVE ReportsCoverEveryCharge
  <2> DEFINE charged == {p \in postings : p.alloc # 0 \/ p.kind = "company_shared_cost"}
  <2>1. PaidFor(projects) \cap Shared = {}
    BY DEF PaidFor, Shared
  <2>2. charged = PaidFor(projects) \cup Shared
    <3>1. ASSUME NEW p \in postings, p.alloc # 0 PROVE p \in PaidFor(projects)
      <4>1. PICK a \in allocs : a.id = p.alloc /\ a.project \in projects
        BY <1>1, <3>1 DEF IInv, ChargesAreLive
      <4>2. p.kind = KindForAllocation(a)
        BY <1>1, <4>1 DEF IInv, KindMatchesAllocation
      <4> QED BY <4>1, <4>2 DEF PaidFor, KindForAllocation
    <3>2. PaidFor(projects) \subseteq charged
      <4>1. \A a \in allocs : a.id # 0
        BY <1>1 DEF IInv, TypeOK, IdsFromSequence
      <4> QED BY <4>1 DEF PaidFor
    <3> QED BY <3>1, <3>2 DEF Shared, PaidFor
  <2>3. /\ PaidFor(projects) \in SUBSET postings /\ Shared \in SUBSET postings
        /\ charged \in SUBSET postings
    BY DEF PaidFor, Shared
  <2>4. /\ IsFiniteSet(PaidFor(projects)) /\ IsFiniteSet(Shared)
        /\ \A p \in PaidFor(projects) \cup Shared : weight[p] \in Int
    BY <1>1, <2>3, PostingSets
  <2>5. SumOf(weight, PaidFor(projects) \cup Shared)
          = SumOf(weight, PaidFor(projects)) + SumOf(weight, Shared)
    BY <2>1, <2>4, SumUnion
  <2>6. CentsOf(charged) = SumOf(weight, charged)
    BY <1>1, <2>3, PostingSets
  <2>7. CompanySharedCost = SumOf(weight, Shared)
    <3>1. CentsOf(Shared) = SumOf(weight, Shared)
      BY <1>1, <2>3, PostingSets
    <3> QED BY <3>1 DEF CompanySharedCost, Shared
  <2>8. MapThenSumSet(PaidByProject, projects) = SumOf(weight, PaidFor(projects))
    BY <1>1, ProjectsSum, ProjectsApart
  <2>9. MapThenSumSet(PaidByProject, projects) + CompanySharedCost = CentsOf(charged)
    BY <2>2, <2>5, <2>6, <2>7, <2>8
  <2> QED BY <2>9 DEF ReportsCoverEveryCharge
<1>2. IInv /\ SInv => ReportsCoverEveryCharge
  BY <1>1
<1> QED BY <1>2, Invariance, Spending, PTL
=============================================================================
