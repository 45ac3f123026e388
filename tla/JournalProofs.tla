---------------------------- MODULE JournalProofs ----------------------------
(***************************************************************************)
(* Theorems about Journal, for any number of requests, accounts, forms and *)
(* transactions: keys and codes, then what the balances and the statement  *)
(* add up to.                                                              *)
(***************************************************************************)
EXTENDS Journal, SetLemmas

\* The ids of transactions come from the sequence and identify the rows, and so
\* do their codes; what they refer to exists.
KeysAndReferences ==
  /\ \A t \in txs : t.id \in 1..seq.tx
  /\ \A t, u \in txs : t.id = u.id => t = u
  /\ \A t, u \in txs : t.code = u.code => t = u
  /\ \A t \in txs : /\ Refers(t.from, accounts) /\ Refers(t.to, accounts)
                    /\ Refers(t.cat, Id(categories))

\* A code that was generated is never ahead of the id it ended up with: rows that
\* joined or went since it was computed only raised the sequence.
CodesBehindIds == \A t \in txs : ~t.imported => t.code <= t.id

TablesInv ==
  /\ accounts \subseteq Nat
  /\ categories \subseteq CategoryRow
  /\ parties \subseteq PartyRow
  /\ txs \subseteq TxRow
  /\ seq \in [account: Nat, party: Nat, tx: Nat]
  /\ KeysAndReferences
  /\ CodesBehindIds

\* What the requests in flight still rely on.
RequestsInv ==
  /\ req \in [Req -> Request]
  /\ \A r \in Req : /\ req[r].pc = "party" => req[r].name \in Name
                    /\ (req[r].pc = "insert" /\ ~req[r].typed) => req[r].code <= seq.tx + 1

IInv == TablesInv /\ RequestsInv

-----------------------------------------------------------------------------
\* The next code is one more than the last id in use: not above the next id, and
\* above every id in use.
LEMMA NextCodeBounds ==
  ASSUME TablesInv
  PROVE  NextCode \in Nat /\ NextCode <= seq.tx + 1 /\ \A t \in txs : t.id < NextCode
<1> DEFINE S == {0} \cup Id(txs)
<1>1. /\ seq.tx \in Nat /\ S \subseteq Nat /\ 0 \in S /\ \A x \in S : x <= seq.tx
      /\ \A t \in txs : t.id \in S
  BY DEF TablesInv, KeysAndReferences, Id
<1>2. NextCode = Max(S) + 1
  BY DEF NextCode
<1> HIDE DEF S
<1>3. Max(S) \in S /\ \A x \in S : x <= Max(S)
  BY <1>1, MaxNat
<1>4. PICK k \in Nat : k = Max(S)
  BY <1>1, <1>3
<1>5. \A t \in txs : t.id \in Nat
  BY <1>1
<1> QED BY <1>1, <1>2, <1>3, <1>4, <1>5

LEMMA IdleRequest == Idle \in Request /\ Idle.pc = "idle"
BY DEF Idle, Request

\* What a request may become without an invariant being at stake.
Harmless(n) == /\ n \in Request
               /\ n.pc = "party" => n.name \in Name
               /\ n.pc = "insert" => n.typed

\* The answer to a form, or the next line of an import.
LEMMA RespondHarmless ==
  ASSUME RequestsInv, NEW r \in Req, Respond(r)
  PROVE  \E n : Harmless(n) /\ req' = [req EXCEPT ![r] = n]
BY IdleRequest DEF Respond, Become, Harmless, RequestsInv, Request, Idle

\* After the counterparty only a typed code is inserted at once.
LEMMA AfterPartyHarmless ==
  ASSUME NEW q \in Request, NEW party \in Nat
  PROVE  Harmless(AfterParty(q, party))
BY DEF Harmless, AfterParty, Request

LEMMA FindPartyHarmless ==
  ASSUME TablesInv, NEW r \in Req, NEW q \in Request, FindParty(r, q)
  PROVE  \E n : Harmless(n) /\ req' = [req EXCEPT ![r] = n]
<1>1. CASE Become(r, AfterParty(q, 0))
  BY <1>1, AfterPartyHarmless DEF Become
<1>2. CASE \E p \in parties : Become(r, AfterParty(q, p.id))
  BY <1>2, AfterPartyHarmless DEF Become, TablesInv, PartyRow
<1>3. CASE \E name \in Name : Become(r, [q EXCEPT !.pc = "party", !.name = name])
  BY <1>3 DEF Become, Harmless, Request
<1> QED BY <1>1, <1>2, <1>3 DEF FindParty

\* A harmless change of one request, while ids only grow.
LEMMA HarmlessStep ==
  ASSUME TablesInv, RequestsInv, NEW r \in Req,
         \E n : Harmless(n) /\ req' = [req EXCEPT ![r] = n],
         seq'.tx \in Nat, seq.tx <= seq'.tx
  PROVE  RequestsInv'
<1>1. PICK n : Harmless(n) /\ req' = [req EXCEPT ![r] = n]
  OBVIOUS
<1>2. req' \in [Req -> Request]
  BY <1>1 DEF RequestsInv, Harmless
<1>3. ASSUME NEW x \in Req
      PROVE /\ req'[x].pc = "party" => req'[x].name \in Name
            /\ (req'[x].pc = "insert" /\ ~req'[x].typed) => req'[x].code <= seq'.tx + 1
  <2>1. CASE x = r
    BY <1>1, <2>1 DEF Harmless, RequestsInv
  <2>2. CASE x # r
    <3>1. req'[x] = req[x] /\ req[x].code \in Nat /\ seq.tx \in Nat
      BY <1>1, <2>2 DEF RequestsInv, TablesInv, Request
    <3> QED BY <3>1 DEF RequestsInv
  <2> QED BY <2>1, <2>2
<1> QED BY <1>2, <1>3 DEF RequestsInv

\* No request is touched, and ids only grow.
LEMMA QuietStep ==
  ASSUME TablesInv, RequestsInv, req' = req, seq'.tx \in Nat, seq.tx <= seq'.tx
  PROVE  RequestsInv'
<1>1. ASSUME NEW x \in Req
      PROVE req[x].code \in Nat /\ seq.tx \in Nat
  BY DEF RequestsInv, TablesInv, Request
<1> QED BY <1>1 DEF RequestsInv

\* Tables that no statement writes stay as they are.
LEMMA TablesStutter ==
  ASSUME TablesInv, UNCHANGED tables
  PROVE  TablesInv'
BY DEF tables, TablesInv, KeysAndReferences, CodesBehindIds

-----------------------------------------------------------------------------
LEMMA InitIInv == Init => IInv
BY IdleRequest
   DEF Init, IInv, TablesInv, RequestsInv, KeysAndReferences, CodesBehindIds, CategoryRow,
       CategoryGroup, Id

\* A request that looks for the counterparty of its transaction.
LEMMA FindPartyStep ==
  ASSUME IInv, NEW r \in Req, NEW q \in Request, FindParty(r, q), UNCHANGED tables
  PROVE  IInv'
<1>1. \E n : Harmless(n) /\ req' = [req EXCEPT ![r] = n]
  BY FindPartyHarmless DEF IInv
<1>2. seq'.tx \in Nat /\ seq.tx <= seq'.tx
  BY DEF IInv, TablesInv, tables
<1> QED BY <1>1, <1>2, HarmlessStep, TablesStutter DEF IInv

\* A request that becomes something harmless while no table changes.
LEMMA ReadingStep ==
  ASSUME IInv, NEW r \in Req, NEW n, Harmless(n), Become(r, n), UNCHANGED tables
  PROVE  IInv'
<1>1. seq'.tx \in Nat /\ seq.tx <= seq'.tx
  BY DEF IInv, TablesInv, tables
<1> QED BY <1>1, HarmlessStep, TablesStutter DEF IInv, Become

\* Each action of a request keeps the invariant.
LEMMA RequestSteps ==
  ASSUME IInv, NEW r \in Req
  PROVE  /\ StartTransaction(r) => IInv'
         /\ StartImport(r) => IInv'
         /\ ImportLine(r) => IInv'
         /\ ImportEnds(r) \/ RequestFails(r) => IInv'
         /\ GenerateCode(r) => IInv'
<1>1. seq.account \in Nat /\ seq.tx \in Nat /\ req[r] \in Request
  BY DEF IInv, TablesInv, RequestsInv
<1>2. ASSUME StartTransaction(r) PROVE IInv'
  <2>1. PICK op \in {"create", "update"} : FindParty(r, [Idle EXCEPT !.op = op])
    BY <1>2 DEF StartTransaction
  <2>2. [Idle EXCEPT !.op = op] \in Request
    BY IdleRequest DEF Request
  <2> QED BY <1>2, <2>1, <2>2, FindPartyStep DEF StartTransaction
<1>3. ASSUME StartImport(r) PROVE IInv'
  <2> DEFINE n == [Idle EXCEPT !.pc = "line", !.op = "import", !.known = seq.account]
  <2>1. Harmless(n)
    BY <1>1 DEF Harmless, Idle, Request
  <2> QED BY <1>3, <2>1, ReadingStep DEF StartImport
<1>4. ASSUME ImportLine(r) PROVE IInv'
  <2>1. CASE FindParty(r, req[r])
    BY <1>1, <1>4, <2>1, FindPartyStep DEF ImportLine
  <2>2. CASE \E n \in TypedCode : FindParty(r, [req[r] EXCEPT !.code = n, !.typed = TRUE])
    <3>1. PICK n \in TypedCode : FindParty(r, [req[r] EXCEPT !.code = n, !.typed = TRUE])
      BY <2>2
    <3>2. [req[r] EXCEPT !.code = n, !.typed = TRUE] \in Request
      BY <1>1, ConstantsAssumption DEF Request
    <3> QED BY <1>4, <3>1, <3>2, FindPartyStep DEF ImportLine
  <2> QED BY <1>4, <2>1, <2>2 DEF ImportLine
<1>5. ASSUME ImportEnds(r) \/ RequestFails(r) PROVE IInv'
  <2>1. Harmless(Idle)
    BY IdleRequest DEF Harmless
  <2> QED BY <1>5, <2>1, ReadingStep DEF ImportEnds, RequestFails
<1>6. ASSUME GenerateCode(r) PROVE IInv'
  <2> DEFINE n == [req[r] EXCEPT !.pc = "insert", !.code = NextCode]
  <2>1. n \in Request /\ n.pc = "insert" /\ n.code = NextCode /\ NextCode <= seq.tx + 1
    BY <1>1, NextCodeBounds DEF Request, IInv
  <2>2. req' = [req EXCEPT ![r] = n] /\ seq' = seq
    BY <1>6 DEF GenerateCode, Become, tables
  <2> HIDE DEF n
  <2>3. RequestsInv'
    BY <2>1, <2>2 DEF IInv, RequestsInv
  <2> QED BY <1>6, <2>3, TablesStutter DEF GenerateCode, IInv
<1> QED BY <1>2, <1>3, <1>4, <1>5, <1>6

\* The counterparty exists already, or joins the table with the name of the form.
LEMMA CreatePartyStep ==
  ASSUME IInv, NEW r \in Req, CreateParty(r)
  PROVE  IInv'
<1>1. /\ seq.party + 1 \in Nat /\ req[r] \in Request /\ req[r].name \in Name
      /\ seq' \in [account: Nat, party: Nat, tx: Nat] /\ seq'.tx = seq.tx /\ seq.tx \in Nat
  BY DEF IInv, TablesInv, RequestsInv, CreateParty
<1>2. parties' \subseteq PartyRow
  BY <1>1 DEF IInv, TablesInv, CreateParty, PartyRow
<1>3. TablesInv'
  BY <1>1, <1>2 DEF IInv, TablesInv, CreateParty, KeysAndReferences, CodesBehindIds
<1>4. \E n : Harmless(n) /\ req' = [req EXCEPT ![r] = n]
  <2>1. CASE Respond(r)
    BY <2>1, RespondHarmless DEF IInv
  <2>2. CASE Become(r, AfterParty(req[r], seq.party + 1))
    BY <1>1, <2>2, AfterPartyHarmless DEF Become
  <2> QED BY <2>1, <2>2 DEF CreateParty
<1>5. seq'.tx \in Nat /\ seq.tx <= seq'.tx
  BY <1>1
<1> QED BY <1>3, <1>4, <1>5, HarmlessStep DEF IInv

\* The new row has a new id, a code that nobody else has, and references that hold.
LEMMA InsertStep ==
  ASSUME IInv, NEW r \in Req, InsertTransaction(r)
  PROVE  IInv'
<1>1. /\ seq.tx \in Nat /\ req[r] \in Request
      /\ ~req[r].typed => req[r].code <= seq.tx + 1
      /\ seq' = [seq EXCEPT !.tx = @ + 1] /\ UNCHANGED <<accounts, categories, parties>>
  BY DEF IInv, TablesInv, RequestsInv, InsertTransaction
<1>2. seq' \in [account: Nat, party: Nat, tx: Nat] /\ seq'.tx = seq.tx + 1
  BY <1>1 DEF IInv, TablesInv
<1>3. PICK f \in Form :
        IF ForeignKeysHold(f, req[r].party) /\ ~CodeTaken(req[r].code)
          THEN txs' = txs \cup {[id |-> seq.tx + 1, code |-> req[r].code,
                 from |-> f.from, to |-> f.to, cat |-> f.cat, cents |-> f.cents,
                 date |-> f.date, imported |-> req[r].typed]}
          ELSE UNCHANGED txs
  BY DEF InsertTransaction
<1>4. TablesInv'
  <2>1. CASE UNCHANGED txs
    BY <1>1, <1>2, <2>1 DEF IInv, TablesInv, KeysAndReferences, CodesBehindIds
  <2>2. CASE ForeignKeysHold(f, req[r].party) /\ ~CodeTaken(req[r].code)
    <3> DEFINE new == [id |-> seq.tx + 1, code |-> req[r].code,
                       from |-> f.from, to |-> f.to, cat |-> f.cat, cents |-> f.cents,
                       date |-> f.date, imported |-> req[r].typed]
    <3>1. txs' = txs \cup {new}
      BY <1>3, <2>2
    <3>2. new \in TxRow
      <4>1. /\ f.from \in Nat /\ f.to \in Nat /\ f.cat \in Nat /\ f.cents \in Nat
            /\ f.date \in Nat
        BY ConstantsAssumption
      <4>2. seq.tx + 1 \in Nat
        BY <1>1
      <4>3. req[r] \in Request
        BY <1>1
      <4>4. req[r].code \in Nat
        BY <4>3 DEF Request
      <4>5. req[r].typed \in BOOLEAN
        BY <4>3 DEF Request
      <4> QED BY <4>1, <4>2, <4>4, <4>5 DEF TxRow
    <3>3. /\ new.id = seq.tx + 1 /\ new.code = req[r].code
          /\ ~new.imported => new.code <= new.id
      BY <1>1
    <3>4. /\ Refers(new.from, accounts) /\ Refers(new.to, accounts)
          /\ Refers(new.cat, Id(categories))
      BY <2>2 DEF ForeignKeysHold
    <3> HIDE DEF new
    <3>5. \A t \in txs : t.id \in 1..seq.tx /\ t.code # new.code
      BY <2>2, <3>3 DEF CodeTaken, IInv, TablesInv, KeysAndReferences
    <3>6. \A t \in txs : t.id # new.id /\ t.id \in 1..seq'.tx
      BY <1>1, <1>2, <3>3, <3>5
    <3>7. KeysAndReferences'
      BY <1>1, <1>2, <3>1, <3>3, <3>4, <3>5, <3>6 DEF IInv, TablesInv, KeysAndReferences
    <3>8. CodesBehindIds'
      BY <3>1, <3>3 DEF IInv, TablesInv, CodesBehindIds
    <3> QED BY <1>1, <1>2, <3>1, <3>2, <3>7, <3>8 DEF IInv, TablesInv
  <2> QED BY <1>3, <2>1, <2>2
<1>5. \E n : Harmless(n) /\ req' = [req EXCEPT ![r] = n]
  BY RespondHarmless DEF IInv, InsertTransaction
<1>6. seq'.tx \in Nat /\ seq.tx <= seq'.tx
  BY <1>1, <1>2
<1> QED BY <1>4, <1>5, <1>6, HarmlessStep DEF IInv

\* An edit keeps id and code, and its references hold.
LEMMA UpdateStep ==
  ASSUME IInv, NEW r \in Req, UpdateTransaction(r)
  PROVE  IInv'
<1>1. seq.tx \in Nat /\ UNCHANGED <<accounts, categories, parties, seq>>
  BY DEF IInv, TablesInv, UpdateTransaction
<1>2. PICK id \in 1..seq.tx, f \in Form :
        IF ForeignKeysHold(f, req[r].party)
          THEN txs' = {IF t.id # id THEN t
                       ELSE [t EXCEPT !.from = f.from, !.to = f.to, !.cat = f.cat,
                                      !.cents = f.cents, !.date = f.date] : t \in txs}
          ELSE UNCHANGED txs
  BY DEF UpdateTransaction
<1>3. TablesInv'
  <2>1. CASE UNCHANGED txs
    BY <1>1, <2>1, TablesStutter DEF IInv, tables
  <2>2. CASE ForeignKeysHold(f, req[r].party)
    <3> DEFINE new(t) == IF t.id # id THEN t
                         ELSE [t EXCEPT !.from = f.from, !.to = f.to, !.cat = f.cat,
                                        !.cents = f.cents, !.date = f.date]
    <3>1. txs' = {new(t) : t \in txs}
      BY <1>2, <2>2
    <3>2. ASSUME NEW t \in txs
          PROVE /\ new(t) \in TxRow
                /\ new(t).id = t.id /\ new(t).code = t.code /\ new(t).imported = t.imported
                /\ Refers(new(t).from, accounts) /\ Refers(new(t).to, accounts)
                /\ Refers(new(t).cat, Id(categories))
      <4>1. t \in TxRow /\ Refers(t.from, accounts) /\ Refers(t.to, accounts)
            /\ Refers(t.cat, Id(categories))
        BY DEF IInv, TablesInv, KeysAndReferences
      <4>2. CASE t.id # id
        BY <4>1, <4>2
      <4>3. CASE t.id = id
        BY <2>2, <4>1, <4>3, ConstantsAssumption DEF TxRow, ForeignKeysHold
      <4> QED BY <4>2, <4>3
    <3> HIDE DEF new
    <3>3. KeysAndReferences'
      BY <1>1, <3>1, <3>2 DEF IInv, TablesInv, KeysAndReferences
    <3>4. CodesBehindIds'
      BY <3>1, <3>2 DEF IInv, TablesInv, CodesBehindIds
    <3> QED BY <1>1, <3>1, <3>2, <3>3, <3>4 DEF IInv, TablesInv
  <2> QED BY <1>2, <2>1, <2>2
<1>4. \E n : Harmless(n) /\ req' = [req EXCEPT ![r] = n]
  BY RespondHarmless DEF IInv, UpdateTransaction
<1>5. seq'.tx \in Nat /\ seq.tx <= seq'.tx
  BY <1>1
<1> QED BY <1>3, <1>4, <1>5, HarmlessStep DEF IInv

\* The handlers of a single statement: what a transaction refers to can neither be
\* deleted nor lose its id.
LEMMA SingleStatements ==
  ASSUME IInv
  PROVE  /\ DeleteTransaction => IInv'
         /\ AccountCreate \/ AccountDelete => IInv'
         /\ CategoryUpdate \/ CategoryDelete => IInv'
         /\ CounterpartyCreate \/ CounterpartyUpdate \/ CounterpartyDelete => IInv'
<1>1. seq.tx \in Nat /\ seq \in [account: Nat, party: Nat, tx: Nat]
  BY DEF IInv, TablesInv
<1>2. ASSUME DeleteTransaction PROVE IInv'
  BY <1>1, <1>2, QuietStep
     DEF DeleteTransaction, IInv, TablesInv, KeysAndReferences, CodesBehindIds
<1>3. ASSUME AccountCreate PROVE IInv'
  BY <1>1, <1>3, QuietStep
     DEF AccountCreate, IInv, TablesInv, KeysAndReferences, CodesBehindIds, Refers
<1>4. ASSUME AccountDelete PROVE IInv'
  BY <1>1, <1>4, QuietStep
     DEF AccountDelete, Unused, IInv, TablesInv, KeysAndReferences, CodesBehindIds, Refers
<1>5. ASSUME CategoryUpdate PROVE IInv'
  <2>1. PICK c \in categories, g \in Group :
          categories' = (categories \ {c}) \cup {[c EXCEPT !.group = g]}
    BY <1>5 DEF CategoryUpdate
  <2>2. categories' \subseteq CategoryRow /\ [c EXCEPT !.group = g].id = c.id
    BY <2>1, ConstantsAssumption DEF IInv, TablesInv, CategoryRow
  <2>3. Id(categories') = Id(categories)
    BY <2>1, <2>2 DEF Id
  <2>4. RequestsInv'
    BY <1>1, <1>5, QuietStep DEF CategoryUpdate, IInv
  <2> QED BY <1>5, <2>2, <2>3, <2>4
         DEF CategoryUpdate, IInv, TablesInv, KeysAndReferences, CodesBehindIds
<1>6. ASSUME CategoryDelete PROVE IInv'
  <2>1. PICK c \in categories : (\A t \in txs : t.cat # c.id) /\ categories' = categories \ {c}
    BY <1>6 DEF CategoryDelete
  <2>2. \A t \in txs : Refers(t.cat, Id(categories'))
    BY <2>1 DEF IInv, TablesInv, KeysAndReferences, Refers, Id
  <2>3. RequestsInv'
    BY <1>1, <1>6, QuietStep DEF CategoryDelete, IInv
  <2> QED BY <1>6, <2>1, <2>2, <2>3
         DEF CategoryDelete, IInv, TablesInv, KeysAndReferences, CodesBehindIds
<1>7. ASSUME CounterpartyCreate PROVE IInv'
  BY <1>1, <1>7, QuietStep
     DEF CounterpartyCreate, IInv, TablesInv, KeysAndReferences, CodesBehindIds, PartyRow
<1>8. ASSUME CounterpartyUpdate PROVE IInv'
  BY <1>1, <1>8, QuietStep
     DEF CounterpartyUpdate, IInv, TablesInv, KeysAndReferences, CodesBehindIds, PartyRow
<1>9. ASSUME CounterpartyDelete PROVE IInv'
  BY <1>1, <1>9, QuietStep
     DEF CounterpartyDelete, IInv, TablesInv, KeysAndReferences, CodesBehindIds
<1> QED BY <1>2, <1>3, <1>4, <1>5, <1>6, <1>7, <1>8, <1>9

\* The invariant is inductive.
LEMMA NextIInv == IInv /\ [Next]_vars => IInv'
<1> SUFFICES ASSUME IInv, [Next]_vars PROVE IInv'
  OBVIOUS
<1>1. CASE UNCHANGED vars
  BY <1>1, TablesStutter DEF vars, tables, IInv, RequestsInv
<1>2. ASSUME NEW r \in Req,
             \/ StartTransaction(r) \/ StartImport(r) \/ ImportLine(r) \/ ImportEnds(r)
             \/ CreateParty(r) \/ GenerateCode(r)
             \/ InsertTransaction(r) \/ UpdateTransaction(r) \/ RequestFails(r)
      PROVE  IInv'
  BY <1>2, RequestSteps, CreatePartyStep, InsertStep, UpdateStep
<1> QED BY <1>1, <1>2, SingleStatements DEF Next

-----------------------------------------------------------------------------
\* Types, keys and references hold (schema.sql:43-50), for any number of overlapping
\* requests.
THEOREM TypeCorrect == Spec => []TypeOK
<1>1. IInv => TypeOK
  BY DEF IInv, TablesInv, RequestsInv, KeysAndReferences, TypeOK, RowsOK
<1> QED BY <1>1, InitIInv, NextIInv, PTL DEF Spec

\* The code that GenerateCode would return (models.go:125) is free unless it came from
\* a CSV file: a row with that code that was not imported would have an id as large as
\* the code, and so above the largest id.
THEOREM CodesFree == Spec => []NextCodeFree
<1>1. IInv => NextCodeFree
  <2> SUFFICES ASSUME IInv, NEW t \in txs, t.code = NextCode, ~t.imported PROVE FALSE
    BY DEF NextCodeFree, IInv, TablesInv, TxRow
  <2>1. t.id \in Nat /\ t.code <= t.id /\ t.id < NextCode /\ NextCode \in Nat
    BY NextCodeBounds DEF IInv, TablesInv, CodesBehindIds, TxRow
  <2> QED BY <2>1
<1> QED BY <1>1, InitIInv, NextIInv, PTL DEF Spec

-----------------------------------------------------------------------------
(* Amounts.  The balances, the signed amounts and the statement add up     *)
(* different selections of the same rows; they agree because every row has *)
(* a side, every account that a row names exists, and a category is one    *)
(* row.                                                                    *)

RowsHaveSides ==
  /\ accounts \subseteq 1..seq.account
  /\ IsFiniteSet(txs) /\ IsFiniteSet(categories)
  /\ \A c, d \in categories : c.id = d.id => c = d
  /\ \A c \in categories : c.id # 0
  /\ \A t \in txs : t.from # 0 \/ t.to # 0

LEMMA InitSides == Init => RowsHaveSides
<1> SUFFICES ASSUME Init PROVE RowsHaveSides
  OBVIOUS
<1>1. IsFiniteSet(txs)
  BY FS_EmptySet DEF Init
<1>2. IsFiniteSet(categories)
  <2>1. categories = ({} \cup {[id |-> 1, group |-> "income"]})
                       \cup {[id |-> 2, group |-> "expense"]}
    BY DEF Init
  <2> QED BY <2>1, FS_EmptySet, FS_AddElement
<1> QED BY <1>1, <1>2 DEF Init, RowsHaveSides

\* No statement writes a row without a side, and no table loses its keys.
LEMMA NextSides == IInv /\ RowsHaveSides /\ [Next]_vars => RowsHaveSides'
<1> SUFFICES ASSUME IInv, RowsHaveSides, [Next]_vars PROVE RowsHaveSides'
  OBVIOUS
<1>1. seq \in [account: Nat, party: Nat, tx: Nat]
  BY DEF IInv, TablesInv
<1>2. CASE UNCHANGED <<accounts, categories, txs>> /\ seq'.account = seq.account
  BY <1>2 DEF RowsHaveSides
<1>3. CASE \E r \in Req : InsertTransaction(r)
  <2>1. PICK r \in Req : InsertTransaction(r)
    BY <1>3
  <2>2. PICK f \in Form : Writable(req[r], f) /\
          IF ForeignKeysHold(f, req[r].party) /\ ~CodeTaken(req[r].code)
            THEN txs' = txs \cup {[id |-> seq.tx + 1, code |-> req[r].code,
                   from |-> f.from, to |-> f.to, cat |-> f.cat, cents |-> f.cents,
                   date |-> f.date, imported |-> req[r].typed]}
            ELSE UNCHANGED txs
    BY <2>1 DEF InsertTransaction
  <2>3. UNCHANGED <<accounts, categories>> /\ seq'.account = seq.account
    BY <1>1, <2>1 DEF InsertTransaction
  <2>4. \E new : (new.from # 0 \/ new.to # 0) /\ txs' \in {txs, txs \cup {new}}
    BY <2>2 DEF Writable
  <2>5. IsFiniteSet(txs')
    BY <2>4, FS_AddElement DEF RowsHaveSides
  <2> QED BY <2>3, <2>4, <2>5 DEF RowsHaveSides
<1>4. CASE \E r \in Req : UpdateTransaction(r)
  <2>1. PICK r \in Req : UpdateTransaction(r)
    BY <1>4
  <2>2. PICK id \in 1..seq.tx, f \in Form : Writable(req[r], f) /\
          IF ForeignKeysHold(f, req[r].party)
            THEN txs' = {IF t.id # id THEN t
                         ELSE [t EXCEPT !.from = f.from, !.to = f.to, !.cat = f.cat,
                                        !.cents = f.cents, !.date = f.date] : t \in txs}
            ELSE UNCHANGED txs
    BY <2>1 DEF UpdateTransaction
  <2>3. UNCHANGED <<accounts, categories, seq>>
    BY <2>1 DEF UpdateTransaction
  <2> DEFINE new == [t \in txs |-> IF t.id # id THEN t
                     ELSE [t EXCEPT !.from = f.from, !.to = f.to, !.cat = f.cat,
                                    !.cents = f.cents, !.date = f.date]]
  <2>4. txs' = txs \/ txs' = {new[t] : t \in txs}
    BY <2>2
  <2>5. \A t \in txs : new[t].from # 0 \/ new[t].to # 0
    BY <2>2 DEF Writable, RowsHaveSides, IInv, TablesInv, TxRow
  <2> HIDE DEF new
  <2>6. IsFiniteSet(txs')
    BY <2>4, ImageFinite DEF RowsHaveSides
  <2> QED BY <2>3, <2>4, <2>5, <2>6 DEF RowsHaveSides
<1>5. CASE DeleteTransaction
  <2>1. txs' \subseteq txs /\ UNCHANGED <<accounts, categories, seq>>
    BY <1>5 DEF DeleteTransaction
  <2>2. IsFiniteSet(txs')
    BY <2>1, FS_Subset DEF RowsHaveSides
  <2> QED BY <2>1, <2>2 DEF RowsHaveSides
<1>6. CASE AccountCreate \/ AccountDelete
  BY <1>1, <1>6 DEF AccountCreate, AccountDelete, RowsHaveSides
<1>7. CASE CategoryUpdate
  <2>1. PICK c \in categories, g \in Group :
          categories' = (categories \ {c}) \cup {[c EXCEPT !.group = g]}
    BY <1>7 DEF CategoryUpdate
  <2> DEFINE new == [c EXCEPT !.group = g]
  <2>2. new.id = c.id /\ categories' = (categories \ {c}) \cup {new}
    BY <2>1 DEF IInv, TablesInv, CategoryRow
  <2> HIDE DEF new
  <2>3. IsFiniteSet(categories \ {c})
    BY FS_Subset DEF RowsHaveSides
  <2>4. IsFiniteSet(categories')
    BY <2>2, <2>3, FS_AddElement
  <2>5. UNCHANGED <<accounts, txs, seq>>
    BY <1>7 DEF CategoryUpdate
  <2> QED BY <2>2, <2>4, <2>5 DEF RowsHaveSides
<1>8. CASE CategoryDelete
  <2>1. categories' \subseteq categories /\ UNCHANGED <<accounts, txs, seq>>
    BY <1>8 DEF CategoryDelete
  <2>2. IsFiniteSet(categories')
    BY <2>1, FS_Subset DEF RowsHaveSides
  <2> QED BY <2>1, <2>2 DEF RowsHaveSides
<1>9. CASE UNCHANGED vars
  BY <1>2, <1>9 DEF vars
<1>10. CASE CounterpartyCreate \/ CounterpartyUpdate \/ CounterpartyDelete
  BY <1>1, <1>2, <1>10 DEF CounterpartyCreate, CounterpartyUpdate, CounterpartyDelete
<1>11. ASSUME NEW r \in Req,
              \/ StartTransaction(r) \/ StartImport(r) \/ ImportLine(r) \/ ImportEnds(r)
              \/ CreateParty(r) \/ GenerateCode(r) \/ RequestFails(r)
       PROVE  RowsHaveSides'
  BY <1>1, <1>2, <1>11
     DEF StartTransaction, StartImport, ImportLine, ImportEnds, CreateParty, GenerateCode,
         RequestFails, tables
<1> QED BY <1>3, <1>4, <1>5, <1>6, <1>7, <1>8, <1>9, <1>10, <1>11 DEF Next

Inv == IInv /\ RowsHaveSides

LEMMA Invariance == Spec => []Inv
<1>1. Init => Inv
  BY InitIInv, InitSides DEF Inv
<1>2. Inv /\ [Next]_vars => Inv'
  BY NextIInv, NextSides DEF Inv
<1> QED BY <1>1, <1>2, PTL DEF Spec

amount == [t \in TxRow |-> t.cents]
signed == [t \in TxRow |-> SignedAmountCents(t)]

\* The rows are finitely many, and so is every selection of them.
LEMMA Selections ==
  ASSUME Inv, NEW rows \in SUBSET txs
  PROVE  /\ IsFiniteSet(rows) /\ rows \in SUBSET TxRow
         /\ \A t \in rows : amount[t] \in Int /\ amount[t] = t.cents
         /\ SumOf(amount, rows) \in Int
<1>1. IsFiniteSet(rows) /\ rows \in SUBSET TxRow
  BY FS_Subset DEF Inv, RowsHaveSides, IInv, TablesInv
<1>2. \A t \in rows : amount[t] \in Int /\ amount[t] = t.cents
  BY <1>1 DEF amount, TxRow
<1>3. SumOf(amount, rows) \in Int
  BY <1>1, <1>2, SumType
<1> QED BY <1>1, <1>2, <1>3

\* Summing rows with the fold of the model is summing their amounts.
LEMMA RowsSum ==
  ASSUME Inv, NEW rows \in SUBSET txs
  PROVE  Sum(rows) = SumOf(amount, rows)
<1> DEFINE P(h) == h = [s \in SUBSET rows |->
                          IF s = {} THEN 0
                          ELSE (CHOOSE x \in s : TRUE).cents + h[s \ {CHOOSE x \in s : TRUE}]]
           iter == CHOOSE h : P(h)
<1>1. Sum(rows) = iter[rows]
  BY DEF Sum, MapThenSumSet, MapThenFoldSet
<1>2. IsFiniteSet(rows) /\ \A t \in rows : amount[t] \in Int /\ amount[t] = t.cents
  BY Selections
<1>3. \A s \in SUBSET rows : s # {} => amount[Pick(s)] = (CHOOSE x \in s : TRUE).cents
  BY <1>2, PickIn DEF Pick
<1>4. \A h : P(h) <=> IsSum(h, amount, rows)
  BY <1>3 DEF IsSum, Pick
<1>5. \E h : IsSum(h, amount, rows)
  BY <1>2, SumExists
<1> HIDE DEF P
<1>6. P(iter)
  BY <1>4, <1>5
<1> HIDE DEF iter
<1>7. iter[rows] = SumOf(amount, rows)
  BY <1>2, <1>4, <1>6, SumIs
<1> QED BY <1>1, <1>7

\* The rows that bring money to an account, and those that take it from one.
Incoming == {t \in txs : t.to # 0}
Outgoing == {t \in txs : t.from # 0}

\* The signed amounts: a transfer is on both sides, every other row on one.
LEMMA SignedIs ==
  ASSUME Inv
  PROVE  SignedSum(txs) = SumOf(amount, Incoming) - SumOf(amount, Outgoing)
<1> DEFINE P(h) == h = [s \in SUBSET txs |->
                          IF s = {} THEN 0
                          ELSE SignedAmountCents(CHOOSE x \in s : TRUE)
                                 + h[s \ {CHOOSE x \in s : TRUE}]]
           iter == CHOOSE h : P(h)
           gain == [t \in txs |-> IF t.to # 0 THEN t.cents ELSE 0]
           loss == [t \in txs |-> IF t.from # 0 THEN t.cents ELSE 0]
<1>1. SignedSum(txs) = iter[txs]
  BY DEF SignedSum, MapThenSumSet, MapThenFoldSet
<1>2. IsFiniteSet(txs) /\ \A t \in txs : t \in TxRow /\ amount[t] = t.cents
  BY Selections
<1>3. \A t \in txs : signed[t] = SignedAmountCents(t) /\ signed[t] \in Int
  BY <1>2 DEF signed, SignedAmountCents, TxRow
<1>4. \A s \in SUBSET txs :
        s # {} => signed[Pick(s)] = SignedAmountCents(CHOOSE x \in s : TRUE)
  BY <1>3, PickIn DEF Pick
<1>5. \A h : P(h) <=> IsSum(h, signed, txs)
  BY <1>4 DEF IsSum, Pick
<1>6. \E h : IsSum(h, signed, txs)
  BY <1>2, <1>3, SumExists
<1> HIDE DEF P
<1>7. P(iter)
  BY <1>5, <1>6
<1> HIDE DEF iter
<1>8. SignedSum(txs) = SumOf(signed, txs)
  BY <1>1, <1>2, <1>3, <1>5, <1>7, SumIs
<1>9. \A t \in txs : /\ gain[t] \in Int /\ loss[t] \in Int
                     /\ signed[t] = gain[t] - loss[t]
  BY <1>2, <1>3 DEF SignedAmountCents, Type, TxRow, Inv, RowsHaveSides
<1>10. /\ \A t \in Incoming : amount[t] \in Int /\ gain[t] = amount[t]
       /\ \A t \in txs \ Incoming : gain[t] = 0
       /\ \A t \in Outgoing : amount[t] \in Int /\ loss[t] = amount[t]
       /\ \A t \in txs \ Outgoing : loss[t] = 0
       /\ Incoming \in SUBSET txs /\ Outgoing \in SUBSET txs
  BY <1>2 DEF Incoming, Outgoing, TxRow
<1> HIDE DEF gain, loss
<1>11. SumOf(gain, txs) = SumOf(amount, Incoming)
  BY <1>2, <1>10, SumFilter
<1>12. SumOf(loss, txs) = SumOf(amount, Outgoing)
  BY <1>2, <1>10, SumFilter
<1>13. SumOf(signed, txs) = SumOf(gain, txs) - SumOf(loss, txs)
  BY <1>2, <1>9, SumMinus
<1> QED BY <1>8, <1>11, <1>12, <1>13

\* The balances: what came in to and went out of all accounts, since every account
\* that a row names exists.
LEMMA BalancesAre ==
  ASSUME Inv
  PROVE  MapThenSumSet(LAMBDA a : AccountBalance(txs, a), accounts)
           = SumOf(amount, Incoming) - SumOf(amount, Outgoing)
<1> DEFINE P(h) == h = [s \in SUBSET accounts |->
                          IF s = {} THEN 0
                          ELSE AccountBalance(txs, CHOOSE x \in s : TRUE)
                                 + h[s \ {CHOOSE x \in s : TRUE}]]
           iter    == CHOOSE h : P(h)
           to      == [a \in accounts |-> {t \in txs : t.to = a}]
           from    == [a \in accounts |-> {t \in txs : t.from = a}]
           came    == [a \in accounts |-> SumOf(amount, to[a])]
           went    == [a \in accounts |-> SumOf(amount, from[a])]
           balance == [a \in accounts |-> AccountBalance(txs, a)]
<1>1. MapThenSumSet(LAMBDA a : AccountBalance(txs, a), accounts) = iter[accounts]
  BY DEF MapThenSumSet, MapThenFoldSet
<1>2. IsFiniteSet(accounts)
  <2>1. seq.account \in Nat
    BY DEF Inv, IInv, TablesInv
  <2>2. IsFiniteSet(1..seq.account)
    BY <2>1, FS_Interval
  <2> QED BY <2>2, FS_Subset DEF Inv, RowsHaveSides
<1>3. \A a \in accounts : to[a] \in SUBSET txs /\ from[a] \in SUBSET txs
  OBVIOUS
<1>4. \A a \in accounts : /\ came[a] \in Int /\ went[a] \in Int
                          /\ balance[a] = came[a] - went[a]
  <2> TAKE a \in accounts
  <2>1. came[a] \in Int /\ went[a] \in Int
    BY <1>3, Selections
  <2>2. Sum({t \in txs : t.to = a}) = came[a]
    BY <1>3, RowsSum
  <2>3. Sum({t \in txs : t.from = a}) = went[a]
    BY <1>3, RowsSum
  <2>4. balance[a] = Sum({t \in txs : t.to = a}) - Sum({t \in txs : t.from = a})
    BY DEF AccountBalance
  <2> QED BY <2>1, <2>2, <2>3, <2>4
<1>5. \A a \in accounts : balance[a] = AccountBalance(txs, a) /\ balance[a] \in Int
  <2>1. \A a \in accounts : balance[a] = AccountBalance(txs, a)
    OBVIOUS
  <2> HIDE DEF balance, came, went
  <2> QED BY <1>4, <2>1
<1> HIDE DEF balance
<1>6. \A s \in SUBSET accounts :
        s # {} => balance[Pick(s)] = AccountBalance(txs, CHOOSE x \in s : TRUE)
  BY <1>5, PickIn DEF Pick
<1>7. \A h : P(h) <=> IsSum(h, balance, accounts)
  BY <1>6 DEF IsSum, Pick
<1>8. \E h : IsSum(h, balance, accounts)
  BY <1>2, <1>5, SumExists
<1> HIDE DEF P
<1>9. P(iter)
  BY <1>7, <1>8
<1> HIDE DEF iter
<1>10. iter[accounts] = SumOf(balance, accounts)
  BY <1>2, <1>5, <1>7, <1>9, SumIs
<1>11. SumOf(balance, accounts) = SumOf(came, accounts) - SumOf(went, accounts)
  <2> HIDE DEF came, went
  <2> QED BY <1>2, <1>4, SumMinus
<1>12. /\ \A a, b \in accounts : a # b => to[a] \cap to[b] = {} /\ from[a] \cap from[b] = {}
       /\ \A a \in accounts : /\ came[a] = SumOf(amount, to[a])
                              /\ went[a] = SumOf(amount, from[a])
  OBVIOUS
<1>13. UNION {to[a] : a \in accounts} = Incoming /\ UNION {from[a] : a \in accounts} = Outgoing
  BY DEF Incoming, Outgoing, Inv, RowsHaveSides, IInv, TablesInv, KeysAndReferences, Refers
<1>14. IsFiniteSet(txs) /\ \A t \in txs : amount[t] \in Int
  BY Selections
<1> HIDE DEF to, from, came, went
<1>15. SumOf(came, accounts) = SumOf(amount, UNION {to[a] : a \in accounts})
  BY <1>2, <1>3, <1>12, <1>14, SumPartition
<1>16. SumOf(went, accounts) = SumOf(amount, UNION {from[a] : a \in accounts})
  BY <1>2, <1>3, <1>12, <1>14, SumPartition
<1> QED BY <1>1, <1>10, <1>11, <1>13, <1>15, <1>16

\* Every cent that came in or went out is in the balance of an account
\* (queries.go:105-146), whatever was entered, edited or deleted.
THEOREM BalancesComplete == Spec => []BalancesCoverEveryCent
<1>1. Inv => BalancesCoverEveryCent
  BY SignedIs, BalancesAre DEF BalancesCoverEveryCent
<1> QED BY <1>1, Invariance, PTL

-----------------------------------------------------------------------------
(* The statement: a row is counted once, in its month of its year, under   *)
(* its category, unless its category is one of the other side.             *)

\* The rows of a category in a year, which the year to date adds up.
Entries(cat, year) ==
  {t \in txs : t.cat = cat.id /\ Year(t) = year /\ Month(t) \in 1..12 /\ Counts(t, cat.group)}

GroupEntries(group, years) ==
  {t \in txs : /\ \E cat \in categories : cat.group = group /\ cat.id = t.cat
               /\ Year(t) \in years /\ Month(t) \in 1..12 /\ Counts(t, group)}

\* The year to date of a category adds up its twelve months.
LEMMA CategoryIs ==
  ASSUME Inv, NEW cat \in categories, NEW year
  PROVE  CategoryTotal(txs, cat, year, 13) = SumOf(amount, Entries(cat, year))
<1> DEFINE P(h) == h = [s \in SUBSET (1..12) |->
                          IF s = {} THEN 0
                          ELSE MonthTotal(txs, cat, year, CHOOSE x \in s : TRUE)
                                 + h[s \ {CHOOSE x \in s : TRUE}]]
           iter  == CHOOSE h : P(h)
           part  == [m \in 1..12 |-> {t \in txs : /\ t.cat = cat.id /\ Year(t) = year
                                                  /\ Month(t) = m /\ Counts(t, cat.group)}]
           month == [m \in 1..12 |-> MonthTotal(txs, cat, year, m)]
<1>1. CategoryTotal(txs, cat, year, 13) = iter[1..12]
  BY DEF CategoryTotal, MapThenSumSet, MapThenFoldSet
<1>2. IsFiniteSet(1..12)
  <2>1. PICK n \in Int : n = 12
    OBVIOUS
  <2>2. IsFiniteSet(1..n)
    BY FS_Interval
  <2> QED BY <2>1, <2>2
<1>3. \A m \in 1..12 : part[m] \in SUBSET txs
  OBVIOUS
<1>4. \A m \in 1..12 : /\ month[m] = MonthTotal(txs, cat, year, m)
                       /\ month[m] = SumOf(amount, part[m]) /\ month[m] \in Int
  <2> TAKE m \in 1..12
  <2>1. Sum(part[m]) = SumOf(amount, part[m]) /\ SumOf(amount, part[m]) \in Int
    BY <1>3, RowsSum, Selections
  <2>2. MonthTotal(txs, cat, year, m) = Sum(part[m])
    BY DEF MonthTotal
  <2> QED BY <2>1, <2>2
<1> HIDE DEF month
<1>5. \A s \in SUBSET (1..12) :
        s # {} => month[Pick(s)] = MonthTotal(txs, cat, year, CHOOSE x \in s : TRUE)
  BY <1>4, PickIn DEF Pick
<1>6. \A h : P(h) <=> IsSum(h, month, 1..12)
  BY <1>5 DEF IsSum, Pick
<1>7. \E h : IsSum(h, month, 1..12)
  BY <1>2, <1>4, SumExists
<1> HIDE DEF P
<1>8. P(iter)
  BY <1>6, <1>7
<1> HIDE DEF iter
<1>9. iter[1..12] = SumOf(month, 1..12)
  <2>1. PICK months : months = 1..12
    OBVIOUS
  <2>2. IsSum(iter, month, months) /\ IsFiniteSet(months) /\ \A m \in months : month[m] \in Int
    BY <1>2, <1>4, <1>6, <1>8, <2>1
  <2>3. iter[months] = SumOf(month, months)
    BY <2>2, SumIs
  <2> QED BY <2>1, <2>3
<1>10. \A m, n \in 1..12 : m # n => part[m] \cap part[n] = {}
  OBVIOUS
<1>11. UNION {part[m] : m \in 1..12} = Entries(cat, year)
  BY DEF Entries
<1>12. IsFiniteSet(txs) /\ \A t \in txs : amount[t] \in Int
  BY Selections
<1> HIDE DEF part
<1>13. SumOf(month, 1..12) = SumOf(amount, UNION {part[m] : m \in 1..12})
  BY <1>2, <1>3, <1>4, <1>10, <1>12, SumPartition
<1> QED BY <1>1, <1>9, <1>11, <1>13

\* The year to date of a group adds up its categories, which share no row.
LEMMA GroupIs ==
  ASSUME Inv, NEW group, NEW year
  PROVE  GroupTotal(txs, categories, group, year, 13)
           = SumOf(amount, GroupEntries(group, {year}))
<1> DEFINE cats == {cat \in categories : cat.group = group}
           P(h) == h = [s \in SUBSET cats |->
                          IF s = {} THEN 0
                          ELSE CategoryTotal(txs, CHOOSE x \in s : TRUE, year, 13)
                                 + h[s \ {CHOOSE x \in s : TRUE}]]
           iter  == CHOOSE h : P(h)
           part  == [cat \in cats |-> Entries(cat, year)]
           total == [cat \in cats |-> CategoryTotal(txs, cat, year, 13)]
<1>1. GroupTotal(txs, categories, group, year, 13) = iter[cats]
  BY DEF GroupTotal, MapThenSumSet, MapThenFoldSet
<1>2. IsFiniteSet(cats)
  BY FS_Subset DEF Inv, RowsHaveSides
<1>3. \A cat \in cats : part[cat] \in SUBSET txs
  BY DEF Entries
<1>4. \A cat \in cats : /\ total[cat] = CategoryTotal(txs, cat, year, 13)
                        /\ total[cat] = SumOf(amount, part[cat]) /\ total[cat] \in Int
  <2> TAKE cat \in cats
  <2>1. SumOf(amount, part[cat]) \in Int
    BY <1>3, Selections
  <2>2. CategoryTotal(txs, cat, year, 13) = SumOf(amount, part[cat])
    BY CategoryIs
  <2> QED BY <2>1, <2>2
<1> HIDE DEF total
<1>5. \A s \in SUBSET cats :
        s # {} => total[Pick(s)] = CategoryTotal(txs, CHOOSE x \in s : TRUE, year, 13)
  <2> HIDE DEF cats
  <2> QED BY <1>4, PickIn DEF Pick
<1>6. \A h : P(h) <=> IsSum(h, total, cats)
  <2> HIDE DEF cats
  <2> QED BY <1>5 DEF IsSum, Pick
<1>7. \E h : IsSum(h, total, cats)
  <2> HIDE DEF cats
  <2> QED BY <1>2, <1>4, SumExists
<1> HIDE DEF P
<1>8. P(iter)
  BY <1>6, <1>7
<1> HIDE DEF iter
<1>9. iter[cats] = SumOf(total, cats)
  <2> HIDE DEF cats
  <2> QED BY <1>2, <1>4, <1>6, <1>8, SumIs
<1>10. \A c, d \in cats : c # d => part[c] \cap part[d] = {}
  BY DEF Entries, Inv, RowsHaveSides
<1>11. UNION {part[cat] : cat \in cats} = GroupEntries(group, {year})
  <2>1. \A t \in GroupEntries(group, {year}) : \E cat \in cats : t \in part[cat]
    BY DEF Entries, GroupEntries
  <2>2. \A cat \in cats : part[cat] \subseteq GroupEntries(group, {year})
    BY DEF Entries, GroupEntries
  <2> HIDE DEF part, cats
  <2> QED BY <2>1, <2>2
<1>12. IsFiniteSet(txs) /\ \A t \in txs : amount[t] \in Int
  BY Selections
<1> HIDE DEF part, cats
<1>13. SumOf(total, cats) = SumOf(amount, UNION {part[cat] : cat \in cats})
  BY <1>2, <1>3, <1>4, <1>10, <1>12, SumPartition
<1> QED BY <1>1, <1>9, <1>11, <1>13

\* A group over all years that have rows.
GroupOfYear(group) ==
  [y \in AvailableYears(txs) |-> SumOf(amount, GroupEntries(group, {y}))]

LEMMA YearsFinite == ASSUME Inv PROVE IsFiniteSet(AvailableYears(txs))
<1> DEFINE year == [t \in txs |-> Year(t)]
<1>1. AvailableYears(txs) = {year[t] : t \in txs}
  BY DEF AvailableYears
<1>2. IsFiniteSet(txs)
  BY Selections
<1> HIDE DEF year
<1> QED BY <1>1, <1>2, ImageFinite

LEMMA GroupYears ==
  ASSUME Inv, NEW group
  PROVE  /\ SumOf(GroupOfYear(group), AvailableYears(txs))
              = SumOf(amount, GroupEntries(group, AvailableYears(txs)))
         /\ \A y \in AvailableYears(txs) :
              /\ GroupOfYear(group)[y] \in Int
              /\ GroupOfYear(group)[y] = GroupTotal(txs, categories, group, y, 13)
<1> DEFINE years == AvailableYears(txs)
           part  == [y \in years |-> GroupEntries(group, {y})]
<1>1. \A y : GroupEntries(group, {y}) \in SUBSET txs
  BY DEF GroupEntries
<1>2. \A y \in years : /\ part[y] \in SUBSET txs
                       /\ GroupOfYear(group)[y] = SumOf(amount, part[y])
  BY <1>1 DEF GroupOfYear
<1>3. \A y, z \in years : y # z => part[y] \cap part[z] = {}
  BY DEF GroupEntries
<1>4. UNION {part[y] : y \in years} = GroupEntries(group, years)
  BY DEF GroupEntries
<1>5. IsFiniteSet(txs) /\ \A t \in txs : amount[t] \in Int
  BY Selections
<1>6. IsFiniteSet(years)
  BY YearsFinite
<1>7. \A y \in years : /\ GroupOfYear(group)[y] \in Int
                       /\ GroupOfYear(group)[y] = GroupTotal(txs, categories, group, y, 13)
  BY <1>1, Selections, GroupIs DEF GroupOfYear
<1> HIDE DEF years, part
<1>8. SumOf(GroupOfYear(group), years) = SumOf(amount, UNION {part[y] : y \in years})
  BY <1>2, <1>3, <1>5, <1>6, SumPartition
<1> QED BY <1>4, <1>7, <1>8 DEF years

\* The profits of all years: the entries of the groups that count in, less those of
\* the groups that count out.
LEMMA ProfitsAre ==
  ASSUME Inv
  PROVE  LET All(group) == SumOf(amount, GroupEntries(group, AvailableYears(txs))) IN
           MapThenSumSet(LAMBDA y : NetProfit(txs, categories, y, 13), AvailableYears(txs))
             = (All("income") - All("cost")) - All("expense")
<1> DEFINE years == AvailableYears(txs)
           P(h) == h = [s \in SUBSET years |->
                          IF s = {} THEN 0
                          ELSE NetProfit(txs, categories, CHOOSE x \in s : TRUE, 13)
                                 + h[s \ {CHOOSE x \in s : TRUE}]]
           iter   == CHOOSE h : P(h)
           gross  == [y \in years |-> GroupOfYear("income")[y] - GroupOfYear("cost")[y]]
           profit == [y \in years |-> NetProfit(txs, categories, y, 13)]
<1>1. MapThenSumSet(LAMBDA y : NetProfit(txs, categories, y, 13), years) = iter[years]
  BY DEF MapThenSumSet, MapThenFoldSet
<1>2. IsFiniteSet(years)
  BY YearsFinite
<1>3. \A y \in years : /\ GroupOfYear("income")[y] \in Int /\ GroupOfYear("cost")[y] \in Int
                       /\ GroupOfYear("expense")[y] \in Int
  BY GroupYears
<1>4. \A y \in years : /\ gross[y] \in Int
                       /\ gross[y] = GroupOfYear("income")[y] - GroupOfYear("cost")[y]
  BY <1>3
<1>5. \A y \in years : /\ profit[y] = NetProfit(txs, categories, y, 13)
                       /\ profit[y] = gross[y] - GroupOfYear("expense")[y]
                       /\ profit[y] \in Int
  <2> TAKE y \in years
  <2>1. /\ GroupOfYear("income")[y] = GroupTotal(txs, categories, "income", y, 13)
        /\ GroupOfYear("cost")[y] = GroupTotal(txs, categories, "cost", y, 13)
        /\ GroupOfYear("expense")[y] = GroupTotal(txs, categories, "expense", y, 13)
    BY GroupYears
  <2>2. profit[y] = NetProfit(txs, categories, y, 13)
    OBVIOUS
  <2> HIDE DEF profit, years
  <2>3. profit[y] = gross[y] - GroupOfYear("expense")[y]
    BY <1>4, <2>1, <2>2 DEF NetProfit, GrossProfit
  <2> HIDE DEF gross
  <2> QED BY <1>3, <1>4, <2>2, <2>3
<1> HIDE DEF years, gross, profit
<1>6. \A s \in SUBSET years :
        s # {} => profit[Pick(s)] = NetProfit(txs, categories, CHOOSE x \in s : TRUE, 13)
  BY <1>5, PickIn DEF Pick
<1>7. \A h : P(h) <=> IsSum(h, profit, years)
  BY <1>6 DEF IsSum, Pick
<1>8. \E h : IsSum(h, profit, years)
  BY <1>2, <1>5, SumExists
<1> HIDE DEF P
<1>9. P(iter)
  BY <1>7, <1>8
<1> HIDE DEF iter
<1>10. iter[years] = SumOf(profit, years)
  BY <1>2, <1>5, <1>7, <1>9, SumIs
<1>11. SumOf(profit, years) = SumOf(gross, years) - SumOf(GroupOfYear("expense"), years)
  BY <1>2, <1>3, <1>4, <1>5, SumMinus
<1>12. SumOf(gross, years)
         = SumOf(GroupOfYear("income"), years) - SumOf(GroupOfYear("cost"), years)
  BY <1>2, <1>3, <1>4, SumMinus
<1>13. /\ SumOf(GroupOfYear("income"), years) = SumOf(amount, GroupEntries("income", years))
       /\ SumOf(GroupOfYear("cost"), years) = SumOf(amount, GroupEntries("cost", years))
       /\ SumOf(GroupOfYear("expense"), years) = SumOf(amount, GroupEntries("expense", years))
  BY GroupYears DEF years
<1> QED BY <1>1, <1>10, <1>11, <1>12, <1>13 DEF years

\* Both sides of plain rows: all incomes are in the income group, all expenses in one
\* of the two others, and a transfer is in neither.
LEMMA PlainSides ==
  ASSUME Inv, \A t \in txs : Plain(t) \/ (Type(t) = "transfer" /\ t.cat = 0)
  PROVE  LET years == AvailableYears(txs) IN
           /\ GroupEntries("income", years) = {t \in txs : Type(t) = "income"}
           /\ GroupEntries("cost", years) \cup GroupEntries("expense", years)
                = {t \in txs : Type(t) = "expense"}
           /\ GroupEntries("cost", years) \cap GroupEntries("expense", years) = {}
<1> DEFINE years == AvailableYears(txs)
<1>1. \A t \in txs : Year(t) \in years
  BY DEF AvailableYears
<1>2. \A c, d \in categories : c.id = d.id => c = d
  BY DEF Inv, RowsHaveSides
<1>3. \A t \in txs : /\ Type(t) = "income" <=> (t.to # 0 /\ t.from = 0)
                     /\ Type(t) = "expense" <=> (t.from # 0 /\ t.to = 0)
                     /\ Type(t) = "transfer" <=> (t.from # 0 /\ t.to # 0)
  BY DEF Type, Inv, RowsHaveSides
<1>4. \A t \in txs : (\E c \in categories : c.id = t.cat) => Plain(t)
  BY DEF Inv, RowsHaveSides
<1>5. \A t \in txs : Plain(t) =>
        /\ Month(t) \in 1..12
        /\ \E c \in categories : /\ c.id = t.cat
                                 /\ \/ Type(t) = "income" /\ c.group = "income"
                                    \/ Type(t) = "expense" /\ c.group \in {"cost", "expense"}
  BY DEF Plain
<1> HIDE DEF years
<1>6. \A t \in txs, group \in {"income", "cost", "expense"} :
        t \in GroupEntries(group, years)
          <=> /\ \E c \in categories : c.id = t.cat /\ c.group = group
              /\ Month(t) \in 1..12 /\ Counts(t, group)
  BY <1>1 DEF GroupEntries
<1>7. \A group : GroupEntries(group, years) \subseteq txs
  BY DEF GroupEntries
<1>8. \A t \in txs : t \in GroupEntries("income", years) <=> Type(t) = "income"
  BY <1>2, <1>3, <1>4, <1>5, <1>6 DEF Counts
<1>9. \A t \in txs : (t \in GroupEntries("cost", years) \/ t \in GroupEntries("expense", years))
                       <=> Type(t) = "expense"
  BY <1>2, <1>3, <1>4, <1>5, <1>6 DEF Counts
<1>10. \A t \in txs : ~(t \in GroupEntries("cost", years) /\ t \in GroupEntries("expense", years))
  BY <1>2, <1>6
<1> QED BY <1>7, <1>8, <1>9, <1>10 DEF years

\* The statements of all years and the balances of all accounts agree on plain rows
\* (pnl.go:40, queries.go:105-146), although different queries compute them.
THEOREM ProfitsAgree == Spec => []ProfitsAddUpToBalances
<1>1. ASSUME Inv, \A t \in txs : Plain(t) \/ (Type(t) = "transfer" /\ t.cat = 0)
      PROVE  MapThenSumSet(LAMBDA y : NetProfit(txs, categories, y, 13), AvailableYears(txs))
               = MapThenSumSet(LAMBDA a : AccountBalance(txs, a), accounts)
  <2> DEFINE All(group) == GroupEntries(group, AvailableYears(txs))
             in    == {t \in txs : Type(t) = "income"}
             out   == {t \in txs : Type(t) = "expense"}
             moved == {t \in txs : Type(t) = "transfer"}
  <2>1. /\ All("income") = in /\ All("cost") \cup All("expense") = out
        /\ All("cost") \cap All("expense") = {}
    BY <1>1, PlainSides
  <2>2. /\ Incoming = in \cup moved /\ Outgoing = out \cup moved
        /\ in \cap moved = {} /\ out \cap moved = {}
    BY <1>1 DEF Incoming, Outgoing, Type, Inv, RowsHaveSides
  <2>3. /\ in \in SUBSET txs /\ out \in SUBSET txs /\ moved \in SUBSET txs
        /\ All("cost") \in SUBSET txs /\ All("expense") \in SUBSET txs
    BY DEF GroupEntries
  <2>4. MapThenSumSet(LAMBDA y : NetProfit(txs, categories, y, 13), AvailableYears(txs))
          = (SumOf(amount, All("income")) - SumOf(amount, All("cost")))
              - SumOf(amount, All("expense"))
    BY <1>1, ProfitsAre
  <2> HIDE DEF All, in, out, moved
  <2>5. SumOf(amount, in \cup moved) = SumOf(amount, in) + SumOf(amount, moved)
    <3>1. IsFiniteSet(in) /\ IsFiniteSet(moved) /\ \A t \in in \cup moved : amount[t] \in Int
      BY <1>1, <2>3, Selections
    <3> QED BY <2>2, <3>1, SumUnion
  <2>6. SumOf(amount, out \cup moved) = SumOf(amount, out) + SumOf(amount, moved)
    <3>1. IsFiniteSet(out) /\ IsFiniteSet(moved) /\ \A t \in out \cup moved : amount[t] \in Int
      BY <1>1, <2>3, Selections
    <3> QED BY <2>2, <3>1, SumUnion
  <2>7. SumOf(amount, All("cost") \cup All("expense"))
          = SumOf(amount, All("cost")) + SumOf(amount, All("expense"))
    <3>1. /\ IsFiniteSet(All("cost")) /\ IsFiniteSet(All("expense"))
          /\ \A t \in All("cost") \cup All("expense") : amount[t] \in Int
      BY <1>1, <2>3, Selections
    <3> QED BY <2>1, <3>1, SumUnion
  <2>8. /\ SumOf(amount, in) \in Int /\ SumOf(amount, moved) \in Int
        /\ SumOf(amount, All("cost")) \in Int /\ SumOf(amount, All("expense")) \in Int
    BY <1>1, <2>3, Selections
  <2>9. MapThenSumSet(LAMBDA a : AccountBalance(txs, a), accounts)
          = SumOf(amount, Incoming) - SumOf(amount, Outgoing)
    BY <1>1, BalancesAre
  <2>10. PICK i \in Int, m \in Int, c \in Int, e \in Int :
           /\ i = SumOf(amount, in) /\ m = SumOf(amount, moved)
           /\ c = SumOf(amount, All("cost")) /\ e = SumOf(amount, All("expense"))
    BY <2>8
  <2>11. /\ SumOf(amount, Incoming) = i + m /\ SumOf(amount, Outgoing) = (c + e) + m
         /\ SumOf(amount, All("income")) = i
    BY <2>1, <2>2, <2>5, <2>6, <2>7, <2>10
  <2> QED BY <2>4, <2>9, <2>10, <2>11
<1>2. Inv => ProfitsAddUpToBalances
  BY <1>1 DEF ProfitsAddUpToBalances
<1> QED BY <1>2, Invariance, PTL


-----------------------------------------------------------------------------
(* Running balances: undoing the list row by row from today's balances is  *)
(* adding up the rows that are left.                                       *)

\* Dates and ids order the rows, newest first, so any selection can be listed.
LEMMA Listed ==
  ASSUME Inv, NEW visible \in SUBSET txs
  PROVE  /\ Cardinality(visible) \in Nat
         /\ ListTransactions(visible) \in [1..Cardinality(visible) -> visible]
         /\ \A i, j \in 1..Cardinality(visible) :
              i < j => Newer(ListTransactions(visible)[i], ListTransactions(visible)[j])
<1> DEFINE R == {p \in visible \X visible : Newer(p[1], p[2])}
           n == Cardinality(visible)
           Sorts(list) == \A i, j \in 1..n : i < j => Newer(list[i], list[j])
<1>1. IsFiniteSet(visible) /\ n \in Nat
  BY Selections, FS_CardinalityType
<1>2. /\ \A t \in visible : t.date \in Int /\ t.id \in Int
      /\ \A t, u \in visible : t.id = u.id => t = u
  BY DEF Inv, IInv, TablesInv, KeysAndReferences, TxRow
<1>3. \A t, u \in visible : <<t, u>> \in R <=> Newer(t, u)
  OBVIOUS
<1> HIDE DEF R
<1>4. \A t \in visible : <<t, t>> \notin R
  BY <1>2, <1>3 DEF Newer
<1>5. \A t, u, v \in visible : <<t, u>> \in R /\ <<u, v>> \in R => <<t, v>> \in R
  BY <1>2, <1>3 DEF Newer
<1>6. \A t, u \in visible : t # u => <<t, u>> \in R \/ <<u, t>> \in R
  BY <1>2, <1>3 DEF Newer
<1>7. PICK list \in [1..n -> visible] : \A i, j \in 1..n : i < j => <<list[i], list[j]>> \in R
  BY <1>1, <1>4, <1>5, <1>6, Sorted
<1>8. \A i \in 1..n : list[i] \in visible
  BY <1>7
<1>9. Sorts(list)
  BY <1>3, <1>7, <1>8
<1>10. ListTransactions(visible) = CHOOSE l \in [1..n -> visible] : Sorts(l)
  BY DEF ListTransactions
<1> HIDE DEF Sorts
<1>11. /\ ListTransactions(visible) \in [1..n -> visible]
       /\ Sorts(ListTransactions(visible))
  BY <1>7, <1>9, <1>10
<1> QED BY <1>1, <1>11 DEF Sorts

\* What is left of a list after its first rows.
Rest(list, n, i) == {list[j] : j \in (i + 1)..n}

\* All of it, then one row less at a time; until a row is what is left before it.
LEMMA Rests ==
  ASSUME Inv, NEW visible \in SUBSET txs, NEW n \in Nat, n = Cardinality(visible),
         NEW list \in [1..n -> visible],
         \A i, j \in 1..n : i < j => Newer(list[i], list[j])
  PROVE  /\ Rest(list, n, 0) = visible
         /\ \A i \in 1..n : /\ list[i] \in visible \ Rest(list, n, i)
                            /\ Rest(list, n, i) \subseteq visible
                            /\ Rest(list, n, i - 1) = Rest(list, n, i) \cup {list[i]}
                            /\ Rest(list, n, i - 1) = {u \in visible : ~Newer(u, list[i])}
<1>1. /\ \A t \in visible : t.date \in Int /\ t.id \in Int
      /\ \A i \in 1..n : list[i] \in visible
  <2>1. \A t \in visible : t \in TxRow
    BY DEF Inv, IInv, TablesInv
  <2>2. \A t \in visible : t.date \in Int /\ t.id \in Int
    BY <2>1 DEF TxRow
  <2> QED BY <2>2
<1>2. \A t \in visible : ~Newer(t, t)
  BY <1>1 DEF Newer
<1>3. \A t, u \in visible : ~(Newer(t, u) /\ Newer(u, t))
  BY <1>1 DEF Newer
<1>4. \A i, j \in 1..n : list[i] = list[j] => i = j
  <2> SUFFICES ASSUME NEW i \in 1..n, NEW j \in 1..n, list[i] = list[j], i # j PROVE FALSE
    OBVIOUS
  <2>1. i < j \/ j < i
    OBVIOUS
  <2> QED BY <1>1, <1>2, <2>1
<1>5. IsFiniteSet(visible)
  BY Selections
<1>6. \A t \in visible : \E i \in 1..n : list[i] = t
  BY <1>4, <1>5, ListedAll
<1>7. Rest(list, n, 0) = visible
  BY <1>1, <1>6 DEF Rest
<1>8. ASSUME NEW i \in 1..n
      PROVE  /\ list[i] \in visible \ Rest(list, n, i)
             /\ Rest(list, n, i) \subseteq visible
             /\ Rest(list, n, i - 1) = Rest(list, n, i) \cup {list[i]}
  <2>1. \A j \in (i + 1)..n : j \in 1..n /\ i < j
    OBVIOUS
  <2>2. (i - 1) + 1 = i /\ i..n = {i} \cup ((i + 1)..n)
    OBVIOUS
  <2> QED BY <1>1, <1>4, <2>1, <2>2 DEF Rest
<1>9. ASSUME NEW i \in 1..n
      PROVE  Rest(list, n, i - 1) = {u \in visible : ~Newer(u, list[i])}
  <2>1. Rest(list, n, i - 1) = {list[j] : j \in i..n}
    BY DEF Rest
  <2>2. \A j \in 1..n : j \in i..n <=> ~Newer(list[j], list[i])
    <3> TAKE j \in 1..n
    <3>1. CASE j < i
      BY <1>1, <3>1
    <3>2. CASE j = i
      BY <1>1, <1>2, <3>2
    <3>3. CASE i < j
      <4>1. Newer(list[i], list[j])
        BY <3>3
      <4> QED BY <1>1, <1>3, <3>3, <4>1
    <3> QED BY <3>1, <3>2, <3>3
  <2>3. \A j \in i..n : j \in 1..n
    OBVIOUS
  <2> QED BY <1>1, <1>6, <2>1, <2>2, <2>3
<1> QED BY <1>7, <1>8, <1>9

LEMMA BalanceType ==
  ASSUME Inv, NEW rows \in SUBSET txs, NEW a
  PROVE  AccountBalance(rows, a) \in Int
<1> DEFINE to   == {t \in rows : t.to = a}
           from == {t \in rows : t.from = a}
<1>1. to \in SUBSET txs /\ from \in SUBSET txs
  OBVIOUS
<1>2. AccountBalance(rows, a) = Sum(to) - Sum(from)
  BY DEF AccountBalance
<1> HIDE DEF to, from
<1>3. Sum(to) \in Int /\ Sum(from) \in Int
  BY <1>1, RowsSum, Selections
<1> QED BY <1>2, <1>3

\* One row more changes the balances of its own accounts.
LEMMA OneRowMore ==
  ASSUME Inv, NEW rest \in SUBSET txs, NEW t \in txs \ rest, NEW a
  PROVE  /\ AccountBalance(rest, a) \in Int
         /\ AccountBalance(rest \cup {t}, a)
              = (AccountBalance(rest, a) + (IF t.to = a THEN t.cents ELSE 0))
                  - (IF t.from = a THEN t.cents ELSE 0)
<1> DEFINE to   == {u \in rest : u.to = a}
           from == {u \in rest : u.from = a}
<1>1. /\ to \in SUBSET txs /\ from \in SUBSET txs /\ rest \cup {t} \in SUBSET txs
      /\ to \cup {t} \in SUBSET txs /\ from \cup {t} \in SUBSET txs
      /\ t \notin to /\ t \notin from
  OBVIOUS
<1>2. /\ {u \in rest \cup {t} : u.to = a} = (IF t.to = a THEN to \cup {t} ELSE to)
      /\ {u \in rest \cup {t} : u.from = a} = (IF t.from = a THEN from \cup {t} ELSE from)
  OBVIOUS
<1>3. /\ AccountBalance(rest, a) = Sum(to) - Sum(from)
      /\ AccountBalance(rest \cup {t}, a)
           = Sum(IF t.to = a THEN to \cup {t} ELSE to)
               - Sum(IF t.from = a THEN from \cup {t} ELSE from)
  BY <1>2 DEF AccountBalance
<1> HIDE DEF to, from
<1>4. Sum(to) \in Int /\ Sum(from) \in Int /\ t.cents \in Int
  BY <1>1, RowsSum, Selections
<1>5. Sum(to \cup {t}) = Sum(to) + t.cents
  <2>1. IsFiniteSet(to) /\ amount[t] = t.cents /\ \A u \in to \cup {t} : amount[u] \in Int
    BY <1>1, Selections
  <2>2. SumOf(amount, to \cup {t}) = SumOf(amount, to) + amount[t]
    BY <1>1, <2>1, SumAdd
  <2> QED BY <1>1, <2>1, <2>2, RowsSum
<1>6. Sum(from \cup {t}) = Sum(from) + t.cents
  <2>1. IsFiniteSet(from) /\ amount[t] = t.cents /\ \A u \in from \cup {t} : amount[u] \in Int
    BY <1>1, Selections
  <2>2. SumOf(amount, from \cup {t}) = SumOf(amount, from) + amount[t]
    BY <1>1, <2>1, SumAdd
  <2> QED BY <1>1, <2>1, <2>2, RowsSum
<1>7. PICK i \in Int, o \in Int, c \in Int : i = Sum(to) /\ o = Sum(from) /\ c = t.cents
  BY <1>4
<1>8. /\ Sum(IF t.to = a THEN to \cup {t} ELSE to) = i + (IF t.to = a THEN c ELSE 0)
      /\ Sum(IF t.from = a THEN from \cup {t} ELSE from) = o + (IF t.from = a THEN c ELSE 0)
  BY <1>5, <1>6, <1>7
<1> QED BY <1>3, <1>7, <1>8


\* Undoing a row leads back to the balances without it.
LEMMA OneRowLess ==
  ASSUME Inv, NEW rest \in SUBSET txs, NEW t \in txs \ rest
  PROVE  Undo(AccountBalances(rest \cup {t}, accounts), t) = AccountBalances(rest, accounts)
<1> DEFINE b == AccountBalances(rest \cup {t}, accounts)
<1>1. b = [a \in accounts |-> AccountBalance(rest \cup {t}, a)]
  BY DEF AccountBalances
<1> HIDE DEF b
<1>2. /\ DOMAIN b = accounts
      /\ \A a \in accounts : b[a] = AccountBalance(rest \cup {t}, a)
  BY <1>1
<1>3. ASSUME NEW a \in accounts
      PROVE  AccountBalance(rest, a) = b[a] + ((IF a = t.from THEN t.cents ELSE 0)
                                                - (IF a = t.to THEN t.cents ELSE 0))
  <2>1. t.cents \in Int
    BY Selections
  <2>2. /\ AccountBalance(rest, a) \in Int
        /\ AccountBalance(rest \cup {t}, a)
             = (AccountBalance(rest, a) + (IF t.to = a THEN t.cents ELSE 0))
                 - (IF t.from = a THEN t.cents ELSE 0)
    BY OneRowMore
  <2>3. PICK x \in Int, c \in Int : x = AccountBalance(rest, a) /\ c = t.cents
    BY <2>1, <2>2
  <2>4. b[a] = (x + (IF t.to = a THEN c ELSE 0)) - (IF t.from = a THEN c ELSE 0)
    BY <1>2, <2>2, <2>3
  <2>5. ((x + (IF t.to = a THEN c ELSE 0)) - (IF t.from = a THEN c ELSE 0))
          + ((IF a = t.from THEN c ELSE 0) - (IF a = t.to THEN c ELSE 0)) = x
    OBVIOUS
  <2> QED BY <2>3, <2>4, <2>5
<1>4. AccountBalances(rest, accounts) = [a \in accounts |-> AccountBalance(rest, a)]
  BY DEF AccountBalances
<1>5. Undo(b, t) = [a \in accounts |-> b[a] + ((IF a = t.from THEN t.cents ELSE 0)
                                                - (IF a = t.to THEN t.cents ELSE 0))]
  BY <1>2 DEF Undo
<1> QED BY <1>3, <1>4, <1>5 DEF b

\* Undoing the next row of the list.
LEMMA OneStepBack ==
  ASSUME Inv, NEW visible \in SUBSET txs, NEW n \in Nat, NEW list \in [1..n -> visible],
         NEW i \in 1..n,
         list[i] \in visible \ Rest(list, n, i), Rest(list, n, i) \subseteq visible,
         Rest(list, n, i - 1) = Rest(list, n, i) \cup {list[i]}
  PROVE  AccountBalances(Rest(list, n, i), accounts)
           = Undo(AccountBalances(Rest(list, n, i - 1), accounts), list[i])
<1>1. Rest(list, n, i) \in SUBSET txs /\ list[i] \in txs \ Rest(list, n, i)
  OBVIOUS
<1>2. Undo(AccountBalances(Rest(list, n, i) \cup {list[i]}, accounts), list[i])
        = AccountBalances(Rest(list, n, i), accounts)
  BY <1>1, OneRowLess
<1> QED BY <1>2

\* The list loses one visible row at a time.
Peels(list, n, visible) ==
  /\ Rest(list, n, 0) = visible
  /\ \A i \in 1..n : /\ list[i] \in visible \ Rest(list, n, i)
                     /\ Rest(list, n, i) \subseteq visible
                     /\ Rest(list, n, i - 1) = Rest(list, n, i) \cup {list[i]}

\* Undoing its rows one after the other leads to nothing but the balances of the rest.
LEMMA UndoneBalances ==
  ASSUME Inv, NEW visible \in SUBSET txs, NEW n \in Nat, NEW list \in [1..n -> visible],
         Peels(list, n, visible),
         NEW balance, balance[0] = AccountBalances(visible, accounts),
         \A i \in 1..n : balance[i] = Undo(balance[i - 1], list[i])
  PROVE  \A i \in 0..n : balance[i] = AccountBalances(Rest(list, n, i), accounts)
<1> DEFINE closed == [i \in 0..n |-> AccountBalances(Rest(list, n, i), accounts)]
           P      == {k \in Nat : k <= n => balance[k] = closed[k]}
<1>1. closed[0] = AccountBalances(visible, accounts)
  BY DEF Peels
<1>2. ASSUME NEW i \in 1..n
      PROVE  closed[i] = Undo(closed[i - 1], list[i])
  <2>1. i \in 0..n /\ i - 1 \in 0..n
    OBVIOUS
  <2>2. AccountBalances(Rest(list, n, i), accounts)
          = Undo(AccountBalances(Rest(list, n, i - 1), accounts), list[i])
    BY OneStepBack DEF Peels
  <2> QED BY <2>1, <2>2
<1> HIDE DEF closed
<1>3. 0 \in P
  BY <1>1
<1>4. ASSUME NEW k \in Nat, k \in P PROVE k + 1 \in P
  <2>1. SUFFICES ASSUME k + 1 <= n PROVE balance[k + 1] = closed[k + 1]
    OBVIOUS
  <2>2. k + 1 \in 1..n /\ k + 1 \in 0..n /\ (k + 1) - 1 = k /\ k <= n /\ k + 1 # 0
    BY <2>1
  <2>3. balance[k] = closed[k]
    BY <1>4, <2>2
  <2>4. balance[k + 1] = Undo(balance[(k + 1) - 1], list[k + 1])
    BY <2>2
  <2>5. closed[k + 1] = Undo(closed[(k + 1) - 1], list[k + 1])
    BY <1>2, <2>2
  <2> QED BY <2>2, <2>3, <2>4, <2>5
<1> HIDE DEF P
<1>5. Nat \subseteq P
  BY <1>3, <1>4, NatSet
<1>6. \A i \in 0..n : balance[i] = closed[i]
  BY <1>5 DEF P
<1> QED BY <1>6 DEF closed


Until(visible, t) == {u \in visible : ~Newer(u, t)}

\* What the property says of a row and of what is shown beside it.
Shows(view, t, visible) ==
  /\ t.from # 0 => view.from = AccountBalance(Until(visible, t), t.from)
  /\ t.to # 0 => view.to = AccountBalance(Until(visible, t), t.to)

\* What the page shows beside a row (journal.go:118): both of its accounts as undoing
\* the rows before it has left them.
LEMMA ViewsAre ==
  ASSUME Inv, NEW visible \in SUBSET txs, NEW n \in Nat, n = Cardinality(visible),
         NEW list \in [1..n -> visible],
         \A i, j \in 1..n : i < j => Newer(list[i], list[j]),
         NEW views, views = TransactionViews(list, AccountBalances(visible, accounts)),
         NEW i \in 1..n, list[i].from # list[i].to
  PROVE  Shows(views[i], list[i], visible)
<1> DEFINE current == AccountBalances(visible, accounts)
           P(h)    == h = [k \in 0..Len(list) |->
                             IF k = 0 THEN current ELSE Undo(h[k - 1], list[k])]
           balance == CHOOSE h : P(h)
           After(k, a) == IF a = 0 THEN 0 ELSE balance[k - 1][a]
           until   == Until(visible, list[i])
<1>1. list \in Seq(visible) /\ Len(list) = n
  OBVIOUS
<1>2. TransactionViews(list, current)
        = [k \in 1..Len(list) |->
             [tx |-> list[k],
              from |-> After(k, list[k].from),
              to |-> After(k, list[k].to)
                       + (IF list[k].from = list[k].to THEN list[k].cents ELSE 0)]]
  BY DEF TransactionViews
<1>3. /\ Rest(list, n, 0) = visible
      /\ \A k \in 1..n : /\ list[k] \in visible \ Rest(list, n, k)
                         /\ Rest(list, n, k) \subseteq visible
                         /\ Rest(list, n, k - 1) = Rest(list, n, k) \cup {list[k]}
                         /\ Rest(list, n, k - 1) = {u \in visible : ~Newer(u, list[k])}
  BY Rests
<1>4. \E h : P(h)
  <2> DEFINE closed == [k \in 0..n |-> AccountBalances(Rest(list, n, k), accounts)]
  <2>1. ASSUME NEW k \in 0..n, k # 0
        PROVE  AccountBalances(Rest(list, n, k), accounts) = Undo(closed[k - 1], list[k])
    <3>1. k \in 1..n /\ k - 1 \in 0..n
      BY <2>1
    <3>2. AccountBalances(Rest(list, n, k), accounts)
            = Undo(AccountBalances(Rest(list, n, k - 1), accounts), list[k])
      BY <1>3, <3>1, OneStepBack
    <3> QED BY <3>1, <3>2
  <2>2. closed = [k \in 0..n |-> AccountBalances(Rest(list, n, k), accounts)]
    OBVIOUS
  <2> HIDE DEF closed
  <2>3. closed = [k \in 0..n |-> IF k = 0 THEN current ELSE Undo(closed[k - 1], list[k])]
    BY <1>3, <2>1, <2>2
  <2>4. P(closed)
    BY <1>1, <2>3
  <2> QED BY <2>4
<1> HIDE DEF P
<1>5. P(balance)
  BY <1>4
<1> HIDE DEF balance
<1>6. /\ balance[0] = AccountBalances(visible, accounts)
      /\ \A k \in 1..n : balance[k] = Undo(balance[k - 1], list[k])
  <2>1. balance = [k \in 0..n |-> IF k = 0 THEN current ELSE Undo(balance[k - 1], list[k])]
    BY <1>1, <1>5 DEF P
  <2>2. 0 \in 0..n /\ \A k \in 1..n : k \in 0..n /\ k # 0
    OBVIOUS
  <2> QED BY <2>1, <2>2
<1>7. \A k \in 0..n : balance[k] = AccountBalances(Rest(list, n, k), accounts)
  <2>1. Peels(list, n, visible)
    BY <1>3 DEF Peels
  <2> QED BY <1>6, <2>1, UndoneBalances
<1>8. balance[i - 1] = AccountBalances(until, accounts)
  <2>1. i - 1 \in 0..n /\ Rest(list, n, i - 1) = until
    BY <1>3 DEF Until
  <2> QED BY <1>7, <2>1
<1>9. \A a \in accounts : balance[i - 1][a] = AccountBalance(until, a)
  BY <1>8 DEF AccountBalances
<1>10. list[i] \in txs /\ list[i].to \in accounts \cup {0} /\ list[i].from \in accounts \cup {0}
  BY DEF Inv, IInv, TablesInv, KeysAndReferences, Refers
<1>11. AccountBalance(until, list[i].to) \in Int
  <2>1. until \in SUBSET txs
    BY DEF Until
  <2> QED BY <2>1, BalanceType
<1>12. /\ views[i].from = After(i, list[i].from)
       /\ views[i].to = After(i, list[i].to) + 0
  BY <1>1, <1>2
<1> HIDE DEF until
<1>13. /\ list[i].from # 0 => views[i].from = AccountBalance(until, list[i].from)
       /\ list[i].to # 0 => views[i].to = AccountBalance(until, list[i].to)
  BY <1>9, <1>10, <1>11, <1>12
<1> QED BY <1>13 DEF until, Shows

\* The balance beside each row is the balance right after it (journal.go:118), whatever
\* part of the journal is visible: the list is sorted, every row of it has been counted
\* once, and each of its accounts is one of those whose balance is undone.
THEOREM RunningBalancesRight == Spec => []RunningBalances
<1>1. ASSUME Inv, NEW visible \in SUBSET txs,
             NEW list, list = ListTransactions(visible),
             NEW views, views = TransactionViews(list, AccountBalances(visible, accounts)),
             NEW i \in 1..Len(list), list[i].from # list[i].to
      PROVE  Shows(views[i], list[i], visible)
  <2>1. PICK n \in Nat : n = Cardinality(visible)
    BY <1>1, Listed
  <2>2. /\ list \in [1..n -> visible]
        /\ \A j, k \in 1..n : j < k => Newer(list[j], list[k])
    BY <1>1, <2>1, Listed
  <2>3. i \in 1..n
    BY <1>1, <2>2
  <2> QED BY <1>1, <2>1, <2>2, <2>3, ViewsAre
<1>2. Inv => RunningBalances
  <2> SUFFICES ASSUME Inv, NEW visible \in SUBSET txs
               PROVE  LET list  == ListTransactions(visible)
                          views == TransactionViews(list, AccountBalances(visible, accounts))
                      IN \A i \in 1..Len(list) :
                           list[i].from # list[i].to => Shows(views[i], list[i], visible)
    BY DEF RunningBalances, Shows, Until
  <2>1. PICK list : list = ListTransactions(visible)
    OBVIOUS
  <2>2. PICK views : views = TransactionViews(list, AccountBalances(visible, accounts))
    OBVIOUS
  <2>3. \A i \in 1..Len(list) :
          list[i].from # list[i].to => Shows(views[i], list[i], visible)
    BY <1>1, <2>1, <2>2
  <2> QED BY <2>1, <2>2, <2>3
<1> QED BY <1>2, Invariance, PTL
=============================================================================
