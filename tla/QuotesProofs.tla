---------------------------- MODULE QuotesProofs ----------------------------
(***************************************************************************)
(* Theorems about Quotes, for any number of requests, versions, items and  *)
(* projects: its invariant, its refinement of LifeCycle, its amounts.      *)
(***************************************************************************)
EXTENDS Quotes, SetLemmas

\* The ids of a table come from its sequence and identify its rows.
IdsFromSequence ==
  /\ \A q \in quotes : q.id \in 1..seq.quote /\ q.parent \in 0..seq.quote
                       /\ q.project \in 0..seq.project
  /\ \A q, other \in quotes : q.id = other.id => q = other
  /\ \A p \in projects : p.id \in 1..seq.project
  /\ \A p, other \in projects : p.id = other.id => p = other

\* Requests name ids that were handed out.
RequestIds ==
  \A r \in Req : req[r].quote \in 0..seq.quote /\ req[r].row.project \in 0..seq.project

\* A version that was revised is no draft any more.
RevisedIsLocked == \A q, parent \in quotes : q.parent = parent.id => parent.status # "draft"

\* The version that a project came from.
ProjectsHaveOrigin ==
  \A p \in projects :
    \E q \in quotes : q.id = p.origin /\ q.status = "accepted" /\ q.project = p.id

\* While a version is a draft, an acceptance that has read it knows its
\* project, unless that project was deleted.
AcceptKnowsProject ==
  \A r \in Req : req[r].pc \in {"accept_items", "accept_commit"} =>
    \A q \in quotes : (q.id = req[r].quote /\ q.status = "draft") =>
      q.project \in {0, req[r].row.project}

\* What a revision knows of the version it revises: it does not become a
\* draft again; once copied it stays, because of the foreign key; and the copy
\* has its project, unless another request accepted it meanwhile.
ReviseKnowsParent ==
  \A r \in Req :
    /\ (req[r].pc \in {"revise_number", "revise_copy", "revise_commit"}
          /\ req[r].row.status # "draft") => ~IsDraft(req[r].quote)
    /\ Copying(r) =>
         /\ \E q \in quotes : q.id = req[r].quote
         /\ \A q \in quotes :
              (q.id = req[r].quote /\ (req[r].row.status = "draft" => q.status = "draft")
                 /\ q.project # 0) => q.project = req[r].row.project

\* The suffix of a number is the version, but for first versions, whose numbers users type.
NumbersAreVersions == \A q \in quotes : q.version # 1 => q.no.rev = q.version

RequestNumbers ==
  \A r \in Req : req[r].pc \in {"revise_copy", "revise_commit"} =>
    req[r].row.no.rev = req[r].row.version

VersionsBounded == \E n \in Nat : \A q \in quotes : q.version <= n

RequestsKnow == RequestNumbers /\ RequestIds /\ AcceptKnowsProject /\ ReviseKnowsParent

VersionsInv ==
  /\ RevisedIsLocked
  /\ ProjectsHaveOrigin
  /\ RevisionKeepsProject
  /\ EveryRevisionHasParent
  /\ NumbersAreVersions
  /\ VersionsBounded

IInv == RowsOK /\ IdsFromSequence /\ VersionsInv /\ RequestsKnow

USE DEF Discount, Status

\* The initial state satisfies the invariant: the tables are empty.
LEMMA IdleRequest ==
  Idle \in Request /\ Idle.pc = "idle" /\ Idle.quote = 0 /\ Idle.row.project = 0
BY ConstantsAssumption DEF Idle, Request, NoQuote, QuoteRow, QuoteNo

LEMMA InitIInv == Init => IInv
BY IdleRequest
   DEF Init, IInv, RowsOK, IdsFromSequence, VersionsInv, RequestsKnow, RequestIds,
       RevisedIsLocked, ProjectsHaveOrigin, RevisionKeepsProject, EveryRevisionHasParent,
       AcceptKnowsProject, ReviseKnowsParent, Copying, NumbersAreVersions, VersionsBounded,
       RequestNumbers

\* A step that changes neither quotes nor projects keeps the invariant if it
\* keeps what the requests know.
LEMMA QuietStep ==
  ASSUME IInv, UNCHANGED <<quotes, projects>>,
         seq' \in [quote: Nat, item: Nat, project: Nat],
         seq'.quote = seq.quote, seq'.project = seq.project,
         items' \subseteq ItemRow, grants' \subseteq Nat \X Accountant,
         req' \in [Req -> Request], RequestsKnow'
  PROVE  IInv'
BY DEF IInv, RowsOK, IdsFromSequence, VersionsInv, RevisedIsLocked, ProjectsHaveOrigin,
       RevisionKeepsProject, EveryRevisionHasParent, NumbersAreVersions, VersionsBounded

\* Answering a request keeps what the others know, if no quote changes.
LEMMA RespondKnows ==
  ASSUME RowsOK, RequestsKnow, UNCHANGED quotes, seq'.quote = seq.quote,
         seq'.project = seq.project, NEW r \in Req, Respond(r)
  PROVE  req' \in [Req -> Request] /\ RequestsKnow'
BY IdleRequest
   DEF RowsOK, RequestsKnow, RequestIds, AcceptKnowsProject, ReviseKnowsParent, Copying,
       RequestNumbers, IsDraft, Respond

\* A request that goes on with a new local state, which fits the tables.
LEMMA GoOnKnows ==
  ASSUME RowsOK, RequestsKnow, UNCHANGED tables, NEW r \in Req, NEW new \in Request,
         req' = [req EXCEPT ![r] = new],
         new.quote \in 0..seq.quote, new.row.project \in 0..seq.project,
         new.pc \in {"accept_items", "accept_commit"} =>
           \A q \in quotes : (q.id = new.quote /\ q.status = "draft") =>
             q.project \in {0, new.row.project},
         (new.pc \in {"revise_number", "revise_copy", "revise_commit"}
            /\ new.row.status # "draft") => ~IsDraft(new.quote),
         new.pc = "revise_commit" =>
           /\ \E q \in quotes : q.id = new.quote
           /\ \A q \in quotes :
                (q.id = new.quote /\ (new.row.status = "draft" => q.status = "draft")
                   /\ q.project # 0) => q.project = new.row.project,
         new.pc \in {"revise_copy", "revise_commit"} => new.row.no.rev = new.row.version
  PROVE  req' \in [Req -> Request] /\ RequestsKnow'
BY DEF RowsOK, RequestsKnow, RequestIds, AcceptKnowsProject, ReviseKnowsParent, Copying,
       RequestNumbers, IsDraft, tables

\* Answering a request without touching a table.
LEMMA RespondStep ==
  ASSUME IInv, UNCHANGED tables, NEW r \in Req, Respond(r)
  PROVE  IInv'
<1>1. req' \in [Req -> Request] /\ RequestsKnow'
  BY RespondKnows DEF IInv, tables
<1> QED BY <1>1, QuietStep DEF IInv, RowsOK, tables

\* Going on without touching a table.
LEMMA GoOnStep ==
  ASSUME IInv, UNCHANGED tables, req' \in [Req -> Request], RequestsKnow'
  PROVE  IInv'
BY QuietStep DEF IInv, RowsOK, tables

\* The statements of an acceptance that only read.
LEMMA AcceptReads ==
  ASSUME IInv, NEW r \in Req, StartAccept(r) \/ AcceptReadItems(r)
  PROVE  IInv'
<1> USE DEF IInv, RowsOK
<1>1. CASE StartAccept(r)
  <2>1. PICK q \in quotes :
          /\ q.status = "draft"
          /\ req' = [req EXCEPT ![r] =
               [Idle EXCEPT !.pc = "accept_items", !.quote = q.id, !.row = q]]
    BY <1>1 DEF StartAccept
  <2> DEFINE new == [Idle EXCEPT !.pc = "accept_items", !.quote = q.id, !.row = q]
  <2>2. /\ new \in Request /\ new.quote = q.id /\ new.row = q /\ new.pc = "accept_items"
    BY IdleRequest DEF Idle, Request, QuoteRow
  <2>3. req' = [req EXCEPT ![r] = new]
    BY <2>1
  <2> HIDE DEF new
  <2>4. UNCHANGED tables
    BY <1>1 DEF StartAccept
  <2>5. q.id \in 0..seq.quote /\ q.project \in 0..seq.project
    BY DEF IdsFromSequence
  <2>6. \A o \in quotes : o.id = new.quote => o = q
    BY <2>2 DEF IdsFromSequence
  <2>7. req' \in [Req -> Request] /\ RequestsKnow'
    BY <2>2, <2>3, <2>4, <2>5, <2>6, GoOnKnows
  <2> QED BY <2>4, <2>7, GoOnStep
<1>2. CASE AcceptReadItems(r)
  <2> DEFINE new == [req[r] EXCEPT !.pc = "accept_commit", !.copy = ItemsOf(req[r].quote)]
  <2>1. UNCHANGED tables /\ req[r].pc = "accept_items"
    BY <1>2 DEF AcceptReadItems
  <2>2. req' = [req EXCEPT ![r] = new]
    BY <1>2 DEF AcceptReadItems, Request
  <2>3. /\ new \in Request /\ new.quote = req[r].quote /\ new.row = req[r].row
        /\ new.pc = "accept_commit"
    BY DEF Request, ItemsOf
  <2> HIDE DEF new
  <2>4. req' \in [Req -> Request] /\ RequestsKnow'
    BY <2>1, <2>2, <2>3, GoOnKnows DEF RequestsKnow, RequestIds, AcceptKnowsProject
  <2> QED BY <2>1, <2>4, GoOnStep
<1> QED BY <1>1, <1>2

\* The next version is a number above every version of the base.
LEMMA NextVersionAbove ==
  ASSUME quotes \subseteq QuoteRow, VersionsBounded, NEW base
  PROVE  /\ NextVersion(base) \in Nat \ {0}
         /\ \A q \in quotes : q.no.base = base => q.version < NextVersion(base)
<1> DEFINE S == {0} \cup {q.version : q \in {x \in quotes : x.no.base = base}}
<1>1. S \subseteq Nat /\ 0 \in S
  BY DEF QuoteRow
<1>2. PICK n \in Nat : \A q \in quotes : q.version <= n
  BY DEF VersionsBounded
<1>3. \A x \in S : x <= n
  BY <1>2
<1>4. \A q \in quotes : q.no.base = base => q.version \in S
  OBVIOUS
<1>5. NextVersion(base) = 1 + Max(S)
  BY DEF NextVersion
<1> HIDE DEF S
<1>6. Max(S) \in Nat /\ \A x \in S : x <= Max(S)
  BY <1>1, <1>2, <1>3, MaxNat
<1>7. \A q \in quotes : q.no.base = base => q.version \in Nat /\ q.version <= Max(S)
  BY <1>1, <1>4, <1>6
<1> QED BY <1>5, <1>6, <1>7

\* The statements of a revision that only read.
LEMMA ReviseReads ==
  ASSUME IInv, NEW r \in Req,
         \/ StartRevise(r) \/ StartMcpNewVersion(r) \/ ReviseLoad(r) \/ ReviseNumber(r)
         \/ ReviseCopy(r)
  PROVE  IInv'
<1> USE DEF IInv, RowsOK
<1>0. UNCHANGED tables
  BY DEF StartRevise, StartMcpNewVersion, ReviseLoad, ReviseNumber, ReviseCopy
<1>1. CASE Respond(r)
  BY <1>0, <1>1, RespondStep
<1>2. CASE StartRevise(r)
  <2>1. PICK q \in quotes, edit \in {"none", "inside"}, d \in Discount :
          req' = [req EXCEPT ![r] = [Idle EXCEPT !.pc = "revise_number",
            !.quote = q.id, !.row = q, !.edit = edit, !.discount = d]]
    BY <1>2 DEF StartRevise
  <2> DEFINE new == [Idle EXCEPT !.pc = "revise_number", !.quote = q.id, !.row = q,
                                 !.edit = edit, !.discount = d]
  <2>2. new \in Request /\ new.quote = q.id /\ new.row = q /\ new.pc = "revise_number"
    BY IdleRequest DEF Idle, Request, QuoteRow
  <2>3. req' = [req EXCEPT ![r] = new]
    BY <2>1
  <2> HIDE DEF new
  <2>4. q.id \in 0..seq.quote /\ q.project \in 0..seq.project
    BY DEF IdsFromSequence
  <2>5. q.status # "draft" => ~IsDraft(q.id)
    BY DEF IdsFromSequence, IsDraft
  <2>6. req' \in [Req -> Request] /\ RequestsKnow'
    BY <1>0, <2>2, <2>3, <2>4, <2>5, GoOnKnows
  <2> QED BY <1>0, <2>6, GoOnStep
<1>3. CASE StartMcpNewVersion(r)
  <2>1. PICK q \in quotes, d \in Discount :
          req' = [req EXCEPT ![r] = [Idle EXCEPT !.pc = "revise_load",
            !.quote = q.id, !.edit = "after", !.discount = d]]
    BY <1>3 DEF StartMcpNewVersion
  <2> DEFINE new == [Idle EXCEPT !.pc = "revise_load", !.quote = q.id, !.edit = "after",
                                 !.discount = d]
  <2>2. /\ new \in Request /\ new.quote = q.id /\ new.row.project = 0
        /\ new.pc = "revise_load"
    BY IdleRequest DEF Idle, Request, QuoteRow
  <2>3. req' = [req EXCEPT ![r] = new]
    BY <2>1
  <2> HIDE DEF new
  <2>4. q.id \in 0..seq.quote /\ 0 \in 0..seq.project
    BY DEF IdsFromSequence
  <2>5. req' \in [Req -> Request] /\ RequestsKnow'
    BY <1>0, <2>2, <2>3, <2>4, GoOnKnows
  <2> QED BY <1>0, <2>5, GoOnStep
<1>4. CASE ReviseLoad(r) /\ ~Respond(r)
  <2>1. PICK q \in quotes :
          /\ q.id = req[r].quote
          /\ req' = [req EXCEPT ![r].pc = "revise_number", ![r].row = q]
    BY <1>4 DEF ReviseLoad
  <2> DEFINE new == [req[r] EXCEPT !.pc = "revise_number", !.row = q]
  <2>2. new \in Request /\ new.quote = q.id /\ new.row = q /\ new.pc = "revise_number"
    BY <2>1 DEF Request
  <2>3. req' = [req EXCEPT ![r] = new]
    BY <2>1 DEF Request
  <2> HIDE DEF new
  <2>4. q.id \in 0..seq.quote /\ q.project \in 0..seq.project
    BY DEF IdsFromSequence
  <2>5. q.status # "draft" => ~IsDraft(q.id)
    BY DEF IdsFromSequence, IsDraft
  <2>6. req' \in [Req -> Request] /\ RequestsKnow'
    BY <1>0, <2>2, <2>3, <2>4, <2>5, GoOnKnows
  <2> QED BY <1>0, <2>6, GoOnStep
<1>5. CASE ReviseNumber(r)
  <2> DEFINE v == NextVersion(req[r].row.no.base)
             no == [req[r].row.no EXCEPT !.rev = v]
             row == [req[r].row EXCEPT !.no = no, !.version = v]
             new == [req[r] EXCEPT !.pc = "revise_copy", !.row = row]
  <2>1. v \in Nat
    BY NextVersionAbove DEF VersionsInv
  <2>2. req[r] \in Request /\ req[r].row \in QuoteRow /\ req[r].row.no \in QuoteNo
    BY DEF Request, QuoteRow
  <2>3. req[r].pc = "revise_number" /\ req' = [req EXCEPT ![r] = new]
    BY <1>5, <2>2 DEF ReviseNumber, Request, QuoteRow, QuoteNo
  <2> HIDE DEF v
  <2>4. no \in QuoteNo /\ no.rev = v
    BY <2>1, <2>2 DEF QuoteNo
  <2> HIDE DEF no
  <2>5. /\ row \in QuoteRow /\ row.project = req[r].row.project
        /\ row.status = req[r].row.status /\ row.no.rev = row.version
    BY <2>1, <2>2, <2>4 DEF QuoteRow
  <2> HIDE DEF row
  <2>6. /\ new \in Request /\ new.quote = req[r].quote /\ new.pc = "revise_copy"
        /\ new.row = row
    BY <2>2, <2>5 DEF Request
  <2> HIDE DEF new
  <2>7. /\ req[r].quote \in 0..seq.quote /\ req[r].row.project \in 0..seq.project
        /\ req[r].row.status # "draft" => ~IsDraft(req[r].quote)
    BY <2>3 DEF RequestsKnow, RequestIds, ReviseKnowsParent
  <2>8. req' \in [Req -> Request] /\ RequestsKnow'
    BY <1>0, <2>3, <2>5, <2>6, <2>7, GoOnKnows
  <2> QED BY <1>0, <2>8, GoOnStep
<1>6. CASE ReviseCopy(r) /\ ~Respond(r)
  <2>1. PICK q \in quotes :
          /\ q.id = req[r].quote
          /\ req' = [req EXCEPT ![r] = [@ EXCEPT !.pc = "revise_commit",
               !.row.project = q.project, !.row.discount = q.discount,
               !.copy = ItemsOf(q.id)]]
    BY <1>6 DEF ReviseCopy
  <2> DEFINE row == [req[r].row EXCEPT !.project = q.project, !.discount = q.discount]
             new == [req[r] EXCEPT !.pc = "revise_commit", !.row = row, !.copy = ItemsOf(q.id)]
  <2>2. req[r] \in Request /\ req[r].row \in QuoteRow /\ q \in QuoteRow
    BY DEF Request
  <2>3. req[r].pc = "revise_copy" /\ req' = [req EXCEPT ![r] = new]
    BY <1>6, <2>1, <2>2 DEF ReviseCopy, Request, QuoteRow
  <2>4. /\ row \in QuoteRow /\ row.project = q.project /\ row.status = req[r].row.status
        /\ row.no = req[r].row.no /\ row.version = req[r].row.version
    BY <2>2 DEF QuoteRow
  <2> HIDE DEF row
  <2>5. /\ new \in Request /\ new.quote = req[r].quote /\ new.pc = "revise_commit"
        /\ new.row = row
    BY <2>2, <2>4 DEF Request, ItemsOf
  <2> HIDE DEF new
  <2>6. /\ req[r].quote \in 0..seq.quote
        /\ req[r].row.status # "draft" => ~IsDraft(req[r].quote)
        /\ req[r].row.no.rev = req[r].row.version
    BY <2>3 DEF RequestsKnow, RequestIds, ReviseKnowsParent, RequestNumbers
  <2>7. q.project \in 0..seq.project /\ \A o \in quotes : o.id = new.quote => o = q
    BY <2>1, <2>5 DEF IdsFromSequence
  <2>9. /\ \E o \in quotes : o.id = new.quote
        /\ \A o \in quotes : o.id = new.quote => o.project = new.row.project
    BY <2>1, <2>4, <2>5, <2>7
  <2>8. req' \in [Req -> Request] /\ RequestsKnow'
    <3>1. new.row.status # "draft" => ~IsDraft(new.quote)
      BY <2>4, <2>5, <2>6
    <3>2. new.row.no.rev = new.row.version
      BY <2>4, <2>5, <2>6
    <3>3. new.quote \in 0..seq.quote /\ new.row.project \in 0..seq.project
      BY <2>4, <2>5, <2>6, <2>7
    <3> QED BY <1>0, <2>3, <2>5, <2>9, <3>1, <3>2, <3>3, GoOnKnows
  <2> QED BY <1>0, <2>8, GoOnStep
<1> QED BY <1>1, <1>2, <1>3, <1>4, <1>5, <1>6

\* The statements of a deletion and of an MCP item that only read, and a
\* request that is given up.
LEMMA OtherReads ==
  ASSUME IInv, NEW r \in Req, StartDelete(r) \/ StartMcpItem(r) \/ RequestFails(r)
  PROVE  IInv'
<1> USE DEF IInv, RowsOK
<1>0. UNCHANGED tables
  BY DEF StartDelete, StartMcpItem, RequestFails
<1>1. CASE RequestFails(r)
  BY <1>0, <1>1, RespondStep DEF RequestFails
<1>2. CASE StartDelete(r) \/ StartMcpItem(r)
  <2>1. PICK q \in quotes, pc \in {"delete", "item"} :
          req' = [req EXCEPT ![r] = [Idle EXCEPT !.pc = pc, !.quote = q.id]]
    BY <1>2 DEF StartDelete, StartMcpItem
  <2> DEFINE new == [Idle EXCEPT !.pc = pc, !.quote = q.id]
  <2>2. /\ new \in Request /\ new.quote = q.id /\ new.row.project = 0
        /\ new.pc \in {"delete", "item"}
    BY IdleRequest DEF Idle, Request, QuoteRow
  <2>3. req' = [req EXCEPT ![r] = new]
    BY <2>1
  <2> HIDE DEF new
  <2>4. q.id \in 0..seq.quote /\ 0 \in 0..seq.project
    BY DEF IdsFromSequence
  <2>5. req' \in [Req -> Request] /\ RequestsKnow'
    BY <1>0, <2>2, <2>3, <2>4, GoOnKnows
  <2> QED BY <1>0, <2>5, GoOnStep, Zenon
<1> QED BY <1>1, <1>2

\* Rewriting the quotes row by row, with no version lost, renumbered, or made
\* a draft again.
LEMMA RelabelRows ==
  ASSUME IInv, seq' \in [quote: Nat, item: Nat, project: Nat],
         seq'.quote = seq.quote, seq.project <= seq'.project,
         \A p \in projects' : p.id \in 1..seq'.project,
         \A p, other \in projects' : p.id = other.id => p = other,
         NEW f \in [quotes -> QuoteRow], quotes' = {f[q] : q \in quotes},
         \A q \in quotes :
           /\ f[q].id = q.id /\ f[q].parent = q.parent /\ f[q].no = q.no
           /\ f[q].version = q.version /\ f[q].project \in 0..seq'.project
           /\ q.status # "draft" => f[q].status # "draft"
  PROVE  /\ quotes' \subseteq QuoteRow /\ IdsFromSequence'
         /\ RevisedIsLocked' /\ EveryRevisionHasParent'
         /\ NumbersAreVersions' /\ VersionsBounded'
<1> USE DEF IInv, RowsOK, VersionsInv
<1>1. IdsFromSequence'
  BY DEF IdsFromSequence
<1>2. RevisedIsLocked'
  BY DEF RevisedIsLocked
<1>3. EveryRevisionHasParent'
  BY DEF EveryRevisionHasParent
<1>4. NumbersAreVersions' /\ VersionsBounded'
  BY DEF NumbersAreVersions, VersionsBounded
<1> QED BY <1>1, <1>2, <1>3, <1>4

\* The flip of a draft to accepted, with the project P that it gets: the one
\* the request has read, or else a new one.
LEMMA AcceptDraft ==
  ASSUME IInv, NEW r \in Req, req[r].pc = "accept_commit", Respond(r),
         NEW q0 \in quotes, q0.id = req[r].quote, q0.status = "draft",
         NEW P \in Nat, quotes' = Accept(q0.id, P), UNCHANGED items,
         grants' \subseteq Nat \X Accountant,
         \/ /\ req[r].row.project = 0 /\ P = seq.project + 1
            /\ projects' = projects \cup {[id |-> P, origin |-> q0.id]}
            /\ seq' = [seq EXCEPT !.project = P]
         \/ /\ req[r].row.project = P /\ P # 0
            /\ UNCHANGED <<projects, seq>>
  PROVE  IInv'
<1> USE DEF IInv, RowsOK, VersionsInv
<1> DEFINE f == [q \in quotes |->
                   IF q.id = q0.id THEN [q EXCEPT !.status = "accepted", !.project = P] ELSE q]
<1>1. f \in [quotes -> QuoteRow]
  <2>1. \A q \in quotes : [q EXCEPT !.status = "accepted", !.project = P] \in QuoteRow
    BY DEF QuoteRow
  <2> QED BY <2>1
<1>2. quotes' = {f[q] : q \in quotes}
  BY DEF Accept
<1>3. \A q \in quotes :
        /\ q.id = q0.id => /\ q = q0 /\ f[q].status = "accepted" /\ f[q].project = P
        /\ q.id # q0.id => f[q] = q
        /\ f[q].id = q.id /\ f[q].parent = q.parent /\ f[q].no = q.no
        /\ f[q].version = q.version
  BY DEF QuoteRow, IdsFromSequence
<1> HIDE DEF f
<1>4. /\ seq' \in [quote: Nat, item: Nat, project: Nat] /\ seq'.quote = seq.quote
      /\ P \in 1..seq'.project /\ seq.project <= seq'.project
      /\ projects' \subseteq ProjectRow /\ projects \subseteq projects'
      /\ \A p \in projects' : p.id \in 1..seq'.project
      /\ \A p, other \in projects' : p.id = other.id => p = other
      /\ \A p \in projects' \ projects : p.id = P /\ p.origin = q0.id
  BY DEF IdsFromSequence, RequestsKnow, RequestIds, ProjectRow, QuoteRow
<1>5. \A q \in quotes : f[q].project \in 0..seq'.project
  BY <1>3, <1>4 DEF IdsFromSequence
<1>6. \A q \in quotes : q.status # "draft" => f[q].status # "draft"
  BY <1>3
<1>7. /\ quotes' \subseteq QuoteRow /\ IdsFromSequence' /\ RevisedIsLocked'
      /\ EveryRevisionHasParent' /\ NumbersAreVersions' /\ VersionsBounded'
  BY <1>1, <1>2, <1>3, <1>4, <1>5, <1>6, RelabelRows
<1>8. ProjectsHaveOrigin'
  BY <1>2, <1>3, <1>4 DEF ProjectsHaveOrigin
<1>9. q0.project \in {0, req[r].row.project}
  BY DEF RequestsKnow, AcceptKnowsProject
<1>10. RevisionKeepsProject'
  <2> SUFFICES ASSUME NEW q \in quotes, NEW parent \in quotes,
                      f[q].parent = f[parent].id, f[parent].project # 0
               PROVE  f[q].project = f[parent].project
    BY <1>2 DEF RevisionKeepsProject
  <2>1. parent.id # q0.id /\ f[parent] = parent /\ q.parent = parent.id
    BY <1>3 DEF RevisedIsLocked
  <2>2. q.project = parent.project
    BY <2>1 DEF RevisionKeepsProject
  <2> QED BY <1>3, <1>4, <1>9, <2>1, <2>2
<1>11. \A s \in Req : s # r => req'[s] = req[s]
  BY DEF Respond
<1>12. req'[r] = Idle /\ req' \in [Req -> Request]
  BY IdleRequest DEF Respond
<1>13. RequestIds' /\ RequestNumbers'
  BY <1>4, <1>11, <1>12, IdleRequest DEF RequestsKnow, RequestIds, RequestNumbers
<1>14. AcceptKnowsProject'
  BY <1>2, <1>3, <1>11, <1>12, IdleRequest DEF RequestsKnow, AcceptKnowsProject
<1>15. ReviseKnowsParent'
  <2> SUFFICES ASSUME NEW s \in Req, s # r
               PROVE  /\ (req[s].pc \in {"revise_number", "revise_copy", "revise_commit"}
                            /\ req[s].row.status # "draft") =>
                           \A q \in quotes : f[q].id = req[s].quote => f[q].status # "draft"
                      /\ req[s].pc = "revise_commit" =>
                           /\ \E q \in quotes : f[q].id = req[s].quote
                           /\ \A q \in quotes :
                                (f[q].id = req[s].quote
                                   /\ (req[s].row.status = "draft" => f[q].status = "draft")
                                   /\ f[q].project # 0) => f[q].project = req[s].row.project
    BY <1>2, <1>11, <1>12, IdleRequest DEF ReviseKnowsParent, Copying, IsDraft
  <2>1. (req[s].pc \in {"revise_number", "revise_copy", "revise_commit"}
           /\ req[s].row.status # "draft") =>
          \A q \in quotes : q.id = req[s].quote => q.status # "draft"
    BY DEF RequestsKnow, ReviseKnowsParent, IsDraft
  <2>2. req[s].pc = "revise_commit" =>
          /\ \E q \in quotes : q.id = req[s].quote
          /\ \A q \in quotes :
               (q.id = req[s].quote /\ (req[s].row.status = "draft" => q.status = "draft")
                  /\ q.project # 0) => q.project = req[s].row.project
    BY DEF RequestsKnow, ReviseKnowsParent, Copying
  <2> QED BY <1>3, <2>1, <2>2
<1> QED
  BY <1>4, <1>7, <1>8, <1>10, <1>12, <1>13, <1>14, <1>15 DEF RequestsKnow

\* The commit of an acceptance.
LEMMA AcceptCommits ==
  ASSUME IInv, NEW r \in Req, AcceptCommit(r)
  PROVE  IInv'
<1> USE DEF IInv, RowsOK
<1>1. PICK total \in TotalOptions(req[r].copy, req[r].row.discount) :
        \/ /\ AcceptPossible(r, total)
           /\ AcceptCreatesProject(r, total) \/ AcceptUpdatesBudget(r, total)
        \/ UNCHANGED <<quotes, projects, budgets, grants, seq>>
  BY DEF AcceptCommit
<1>2. Respond(r) /\ UNCHANGED items /\ req[r].pc = "accept_commit"
  BY DEF AcceptCommit
<1>3. CASE UNCHANGED <<quotes, projects, budgets, grants, seq>>
  BY <1>2, <1>3, RespondStep DEF tables
<1>4. CASE AcceptPossible(r, total) /\ AcceptCreatesProject(r, total)
  <2>1. PICK q0 \in quotes : q0.id = req[r].quote /\ q0.status = "draft"
    BY <1>4 DEF AcceptPossible, IsDraft
  <2>2. /\ req[r].row.project = 0
        /\ projects' = projects \cup {[id |-> seq.project + 1, origin |-> q0.id]}
        /\ quotes' = Accept(q0.id, seq.project + 1)
        /\ seq' = [seq EXCEPT !.project = seq.project + 1]
        /\ seq.project + 1 \in Nat
    BY <1>4, <2>1 DEF AcceptCreatesProject
  <2>3. grants' \subseteq Nat \X Accountant
    BY <1>4, <2>2 DEF AcceptCreatesProject
  <2> DEFINE P == seq.project + 1
  <2> QED BY <1>2, <2>1, <2>2, <2>3, AcceptDraft
<1>5. CASE AcceptPossible(r, total) /\ AcceptUpdatesBudget(r, total)
  <2>1. PICK q0 \in quotes : q0.id = req[r].quote /\ q0.status = "draft"
    BY <1>5 DEF AcceptPossible, IsDraft
  <2>2. /\ req[r].row.project # 0 /\ req[r].row.project \in Nat
        /\ quotes' = Accept(q0.id, req[r].row.project)
        /\ UNCHANGED <<projects, grants, seq>>
    BY <1>5, <2>1 DEF AcceptUpdatesBudget, Request, QuoteRow
  <2> QED BY <1>2, <2>1, <2>2, AcceptDraft
<1> QED BY <1>1, <1>3, <1>4, <1>5

\* A new version, added while its parent leaves draft.
LEMMA AddVersion ==
  ASSUME IInv, NEW f \in [quotes -> QuoteRow], NEW new \in QuoteRow,
         quotes' = {f[q] : q \in quotes} \cup {new},
         \A q \in quotes :
           /\ f[q].id = q.id /\ f[q].parent = q.parent /\ f[q].no = q.no
           /\ f[q].version = q.version /\ f[q].project = q.project
           /\ f[q].status # q.status => f[q].status = "sent" /\ q.status = "draft",
         new.id = seq.quote + 1, new.status = "draft", new.project \in 0..seq.project,
         new.version # 1 => new.no.rev = new.version,
         \/ new.parent = 0 /\ new.version = 1
         \/ \E q \in quotes : /\ q.id = new.parent /\ f[q].status # "draft"
                              /\ q.project # 0 => new.project = q.project,
         seq' = [seq EXCEPT !.quote = @ + 1],
         items' \subseteq ItemRow, UNCHANGED <<projects, grants>>,
         req' \in [Req -> Request],
         \A s \in Req : \/ req'[s] = req[s]
                        \/ /\ req'[s].pc \in {"idle", "revise_edit"}
                           /\ req'[s].quote \in 0..seq'.quote /\ req'[s].row.project = 0
  PROVE  IInv'
<1> USE DEF IInv, RowsOK, VersionsInv
<1>1. /\ seq' \in [quote: Nat, item: Nat, project: Nat] /\ seq'.quote = seq.quote + 1
      /\ seq'.project = seq.project
  OBVIOUS
<1>2. new.parent \in 0..seq.quote /\ \A q \in quotes : q.id # new.id /\ q.parent # new.id
  BY DEF IdsFromSequence
<1>3. IdsFromSequence'
  <2>1. \A q \in quotes : /\ f[q].id \in 1..seq'.quote /\ f[q].parent \in 0..seq'.quote
                          /\ f[q].project \in 0..seq'.project
    BY <1>1 DEF IdsFromSequence
  <2>2. \A q, other \in quotes : f[q].id = f[other].id => f[q] = f[other]
    BY DEF IdsFromSequence
  <2>3. /\ \A p \in projects' : p.id \in 1..seq'.project
        /\ \A p, other \in projects' : p.id = other.id => p = other
    BY <1>1 DEF IdsFromSequence
  <2>4. new.id \in 1..seq'.quote /\ new.parent \in 0..seq'.quote
    BY <1>1, <1>2
  <2> QED BY <1>1, <1>2, <2>1, <2>2, <2>3, <2>4 DEF IdsFromSequence
<1>4. RevisedIsLocked'
  BY <1>2 DEF RevisedIsLocked, IdsFromSequence
<1>5. ProjectsHaveOrigin'
  BY DEF ProjectsHaveOrigin
<1>6. RevisionKeepsProject'
  BY <1>2 DEF RevisionKeepsProject, IdsFromSequence
<1>7. EveryRevisionHasParent'
  BY DEF EveryRevisionHasParent
<1>8. NumbersAreVersions'
  BY DEF NumbersAreVersions
<1>9. VersionsBounded'
  <2>1. PICK n \in Nat : \A q \in quotes : q.version <= n
    BY DEF VersionsBounded
  <2>2. new.version \in Nat /\ \A q \in quotes : q.version \in Nat
    BY DEF QuoteRow
  <2>3. n + new.version \in Nat /\ \A q \in quotes' : q.version <= n + new.version
    BY <2>1, <2>2
  <2> QED BY <2>3 DEF VersionsBounded
<1>10. RequestIds' /\ RequestNumbers'
  BY <1>1 DEF RequestsKnow, RequestIds, RequestNumbers
<1>11. \A s \in Req : req[s].quote # new.id
  BY DEF RequestsKnow, RequestIds
<1>12. AcceptKnowsProject'
  BY <1>11 DEF RequestsKnow, AcceptKnowsProject
<1>13. ReviseKnowsParent'
  BY <1>11 DEF RequestsKnow, ReviseKnowsParent, Copying, IsDraft
<1> QED
  BY <1>1, <1>3, <1>4, <1>5, <1>6, <1>7, <1>8, <1>9, <1>10, <1>12, <1>13
     DEF RequestsKnow

\* The commit of a revision: the version it revised has left draft.
LEMMA ReviseCommits ==
  ASSUME IInv, NEW r \in Req, ReviseCommit(r)
  PROVE  IInv'
<1> USE DEF IInv, RowsOK
<1>1. CASE Respond(r) /\ UNCHANGED <<quotes, items, seq>>
  BY <1>1, RespondStep DEF ReviseCommit, tables
<1>2. CASE ~(Respond(r) /\ UNCHANGED <<quotes, items, seq>>)
  <2> DEFINE new == NewVersion(r)
             f == [q \in quotes |->
                     IF req[r].row.status = "draft" /\ q.id = req[r].quote /\ q.status = "draft"
                       THEN [q EXCEPT !.status = "sent"] ELSE q]
  <2>1. /\ RevisePossible(r) /\ req[r].pc = "revise_commit"
        /\ quotes' = (IF req[r].row.status = "draft" THEN Send(req[r].quote) ELSE quotes)
                       \cup {new}
        /\ items' = items \cup {[i EXCEPT !.quote = seq.quote + 1] : i \in req[r].copy}
        /\ seq' = [seq EXCEPT !.quote = @ + 1]
        /\ UNCHANGED <<projects, budgets, grants>>
    BY <1>2 DEF ReviseCommit
  <2>2. req[r] \in Request /\ req[r].row \in QuoteRow
    BY DEF Request
  <2>3. /\ new \in QuoteRow /\ new.id = seq.quote + 1 /\ new.status = "draft"
        /\ new.project = req[r].row.project /\ new.parent = req[r].quote
        /\ new.no = req[r].row.no /\ new.version = req[r].row.version
    BY <2>2 DEF NewVersion, QuoteRow, Request
  <2>4. f \in [quotes -> QuoteRow]
    <3>1. \A q \in quotes : [q EXCEPT !.status = "sent"] \in QuoteRow
      BY DEF QuoteRow
    <3> QED BY <3>1
  <2>5. quotes' = {f[q] : q \in quotes} \cup {new}
    BY <2>1 DEF Send
  <2>6. \A q \in quotes :
          /\ f[q].id = q.id /\ f[q].parent = q.parent /\ f[q].no = q.no
          /\ f[q].version = q.version /\ f[q].project = q.project
          /\ f[q].status # q.status => f[q].status = "sent" /\ q.status = "draft"
    <3> TAKE q \in quotes
    <3>1. \/ f[q] = q
          \/ f[q] = [q EXCEPT !.status = "sent"] /\ q.status = "draft"
      OBVIOUS
    <3> HIDE DEF f
    <3>2. CASE f[q] = [q EXCEPT !.status = "sent"] /\ q.status = "draft"
      BY <3>2 DEF QuoteRow
    <3> QED BY <3>1, <3>2
  <2>7. \A q \in quotes : (q.id = req[r].quote /\ req[r].row.status = "draft") =>
          f[q].status = "sent" /\ q.status = "draft"
    BY <2>1 DEF RevisePossible, IsDraft, IdsFromSequence, QuoteRow
  <2> HIDE DEF new, f
  <2>8. \E q \in quotes : /\ q.id = new.parent /\ f[q].status # "draft"
                          /\ q.project # 0 => new.project = q.project
    <3>1. PICK q \in quotes : q.id = req[r].quote
      BY <2>1 DEF RequestsKnow, ReviseKnowsParent, Copying
    <3>2. q.project # 0 => q.project = req[r].row.project
      BY <2>1, <2>7, <3>1 DEF RequestsKnow, ReviseKnowsParent, Copying
    <3>3. req[r].row.status # "draft" => q.status # "draft"
      BY <2>1, <3>1 DEF RequestsKnow, ReviseKnowsParent, IsDraft
    <3>4. f[q].status # "draft"
      BY <2>6, <2>7, <3>1, <3>3
    <3> QED BY <2>3, <3>1, <3>2, <3>4
  <2>9. items' \subseteq ItemRow
    <3>1. \A i \in req[r].copy : [i EXCEPT !.quote = seq.quote + 1] \in ItemRow
      BY <2>2 DEF Request, ItemRow
    <3> QED BY <2>1, <3>1
  <2>10. new.project \in 0..seq.project /\ new.no.rev = new.version
    BY <2>1, <2>3 DEF RequestsKnow, RequestIds, RequestNumbers
  <2>11. PICK next \in Request :
           /\ req' = [req EXCEPT ![r] = next]
           /\ next.pc \in {"idle", "revise_edit"} /\ next.quote \in 0..seq'.quote
           /\ next.row.project = 0
    <3>0. seq'.quote = seq.quote + 1 /\ seq.quote \in Nat
      BY <2>1
    <3>1. CASE Respond(r)
      <4>1. req' = [req EXCEPT ![r] = Idle] /\ 0 \in 0..seq'.quote
        BY <3>0, <3>1 DEF Respond
      <4> QED BY <4>1, IdleRequest
    <3>2. CASE ~Respond(r)
      <4> DEFINE next == [Idle EXCEPT !.pc = "revise_edit", !.quote = seq.quote + 1,
                                      !.discount = req[r].discount]
      <4>1. req' = [req EXCEPT ![r] = next]
        BY <1>2, <3>2 DEF ReviseCommit
      <4>2. /\ next \in Request /\ next.pc = "revise_edit" /\ next.quote = seq.quote + 1
            /\ next.row.project = 0
        <5>1. seq.quote + 1 \in Nat /\ req[r].discount \in Discount
          BY <2>2 DEF Request
        <5> QED BY <5>1, IdleRequest DEF Idle, Request
      <4> HIDE DEF next
      <4>3. next.quote \in 0..seq'.quote
        BY <3>0, <4>2
      <4> QED BY <4>1, <4>2, <4>3
    <3> QED BY <3>1, <3>2
  <2>12. /\ req' \in [Req -> Request]
         /\ \A s \in Req : \/ req'[s] = req[s]
                           \/ /\ req'[s].pc \in {"idle", "revise_edit"}
                              /\ req'[s].quote \in 0..seq'.quote /\ req'[s].row.project = 0
    BY <2>11
  <2> QED BY <2>1, <2>3, <2>4, <2>5, <2>6, <2>8, <2>9, <2>10, <2>12, AddVersion
<1> QED BY <1>1, <1>2

\* The creation of a quote.
LEMMA QuoteCreates ==
  ASSUME IInv, QuoteCreate
  PROVE  IInv'
<1> USE DEF IInv, RowsOK
<1>1. PICK no \in [base: Base, rev: TypedRev], d \in Discount :
        quotes' = quotes \cup
          {[id |-> seq.quote + 1, no |-> no, version |-> 1, status |-> "draft",
            project |-> 0, parent |-> 0, discount |-> d]}
  BY DEF QuoteCreate
<1> DEFINE new == [id |-> seq.quote + 1, no |-> no, version |-> 1, status |-> "draft",
                   project |-> 0, parent |-> 0, discount |-> d]
           f == [q \in quotes |-> q]
<1>2. no \in QuoteNo
  BY ConstantsAssumption DEF QuoteNo
<1>3. /\ new \in QuoteRow /\ new.id = seq.quote + 1 /\ new.status = "draft"
      /\ new.project = 0 /\ new.parent = 0 /\ new.version = 1 /\ new.no = no
  BY <1>2 DEF QuoteRow
<1>4. f \in [quotes -> QuoteRow] /\ \A q \in quotes : f[q] = q
  OBVIOUS
<1>5. quotes' = {f[q] : q \in quotes} \cup {new}
  BY <1>1
<1> HIDE DEF new, f
<1>6. /\ seq' = [seq EXCEPT !.quote = @ + 1]
      /\ UNCHANGED <<items, projects, budgets, grants, req>>
      /\ 0 \in 0..seq.project
  BY DEF QuoteCreate
<1>7. \A q \in quotes :
        /\ f[q].id = q.id /\ f[q].parent = q.parent /\ f[q].no = q.no
        /\ f[q].version = q.version /\ f[q].project = q.project
        /\ f[q].status # q.status => f[q].status = "sent" /\ q.status = "draft"
  BY <1>4
<1>8. /\ items' \subseteq ItemRow /\ UNCHANGED <<projects, grants>>
      /\ req' \in [Req -> Request] /\ \A s \in Req : req'[s] = req[s]
      /\ new.project \in 0..seq.project /\ new.parent = 0 /\ new.version = 1
  BY <1>3, <1>6
<1> QED BY <1>3, <1>4, <1>5, <1>6, <1>7, <1>8, AddVersion

\* Edits of headers.
LEMMA HeaderEdits ==
  ASSUME IInv, NEW id, NEW d \in Discount, quotes' = EditHeader(id, d),
         UNCHANGED <<items, projects, grants, seq>>,
         req' \in [Req -> Request], \A s \in Req : req'[s] \in {req[s], Idle}
  PROVE  IInv'
<1> USE DEF IInv, RowsOK, VersionsInv
<1> DEFINE f == [q \in quotes |->
                   IF q.id = id /\ q.status = "draft" THEN [q EXCEPT !.discount = d] ELSE q]
<1>1. f \in [quotes -> QuoteRow]
  <2>1. \A q \in quotes : [q EXCEPT !.discount = d] \in QuoteRow
    BY DEF QuoteRow
  <2> QED BY <2>1
<1>2. quotes' = {f[q] : q \in quotes}
  BY DEF EditHeader
<1>3. \A q \in quotes :
        /\ f[q].id = q.id /\ f[q].parent = q.parent /\ f[q].no = q.no
        /\ f[q].version = q.version /\ f[q].project = q.project /\ f[q].status = q.status
  BY DEF QuoteRow
<1> HIDE DEF f
<1>4. \A q \in quotes : f[q].project \in 0..seq.project
  BY <1>3 DEF IdsFromSequence
<1>5. /\ \A p \in projects : p.id \in 1..seq.project
      /\ \A p, other \in projects : p.id = other.id => p = other
  BY DEF IdsFromSequence
<1>6. seq.project <= seq.project
  OBVIOUS
<1>7. /\ quotes' \subseteq QuoteRow /\ IdsFromSequence' /\ RevisedIsLocked'
      /\ EveryRevisionHasParent' /\ NumbersAreVersions' /\ VersionsBounded'
  BY <1>1, <1>2, <1>3, <1>4, <1>5, <1>6, RelabelRows
<1>8. ProjectsHaveOrigin' /\ RevisionKeepsProject'
  BY <1>2, <1>3 DEF ProjectsHaveOrigin, RevisionKeepsProject
<1>9. RequestIds' /\ RequestNumbers'
  BY IdleRequest DEF RequestsKnow, RequestIds, RequestNumbers
<1>10. AcceptKnowsProject' /\ ReviseKnowsParent'
  BY <1>2, <1>3, IdleRequest
     DEF RequestsKnow, AcceptKnowsProject, ReviseKnowsParent, Copying, IsDraft
<1> QED BY <1>7, <1>8, <1>9, <1>10 DEF RequestsKnow

\* The deletion of a draft: nothing was revised from it, and no open revision
\* has copied it.
LEMMA QuoteDeletes ==
  ASSUME IInv, NEW r \in Req, QuoteDelete(r)
  PROVE  IInv'
<1> USE DEF IInv, RowsOK, VersionsInv
<1>1. CASE ~IsDraft(req[r].quote)
  BY <1>1, RespondStep DEF QuoteDelete, tables
<1>2. CASE IsDraft(req[r].quote)
  <2> DEFINE id == req[r].quote
  <2>1. /\ quotes' = {[q EXCEPT !.parent = IF @ = id THEN 0 ELSE @]
                        : q \in {x \in quotes : x.id # id}}
        /\ items' = items \ ItemsOf(id) /\ Respond(r) /\ ~LocksQuote(id)
        /\ UNCHANGED <<projects, budgets, grants, seq>>
    BY <1>2 DEF QuoteDelete
  <2>2. \A q \in quotes : q.id = id => q.status = "draft"
    BY <1>2 DEF IsDraft, IdsFromSequence
  <2>3. \A q \in quotes : q.parent # id
    BY <1>2, <2>2 DEF RevisedIsLocked, IsDraft
  <2>4. \A q \in quotes : [q EXCEPT !.parent = IF @ = id THEN 0 ELSE @] = q
    <3> TAKE q \in quotes
    <3>1. [q EXCEPT !.parent = IF @ = id THEN 0 ELSE @] = [q EXCEPT !.parent = q.parent]
      BY <2>3
    <3> QED BY <3>1 DEF QuoteRow
  <2>5. quotes' = {q \in quotes : q.id # id}
    BY <2>1, <2>4
  <2>6. quotes' \subseteq QuoteRow /\ IdsFromSequence' /\ RevisedIsLocked' /\ NumbersAreVersions'
        /\ VersionsBounded' /\ RevisionKeepsProject'
    BY <2>1, <2>5
       DEF IdsFromSequence, RevisedIsLocked, NumbersAreVersions, VersionsBounded,
           RevisionKeepsProject
  <2>7. ProjectsHaveOrigin'
    BY <2>1, <2>2, <2>5 DEF ProjectsHaveOrigin
  <2>8. EveryRevisionHasParent'
    BY <2>3, <2>5 DEF EveryRevisionHasParent
  <2>9. req' \in [Req -> Request] /\ \A s \in Req : req'[s] \in {req[s], Idle}
    BY <2>1, IdleRequest DEF Respond
  <2>10. \A s \in Req : Copying(s) => req[s].quote # id
    BY <2>1 DEF LocksQuote
  <2>11. RequestIds' /\ RequestNumbers' /\ AcceptKnowsProject'
    BY <2>1, <2>5, <2>9, IdleRequest
       DEF RequestsKnow, RequestIds, RequestNumbers, AcceptKnowsProject
  <2>12. ReviseKnowsParent'
    BY <2>5, <2>9, <2>10, IdleRequest DEF RequestsKnow, ReviseKnowsParent, Copying, IsDraft
  <2> QED BY <2>1, <2>6, <2>7, <2>8, <2>9, <2>11, <2>12 DEF RequestsKnow
<1> QED BY <1>1, <1>2

\* The deletion of a project.
LEMMA ProjectDeletes ==
  ASSUME IInv, ProjectDelete
  PROVE  IInv'
<1> USE DEF IInv, RowsOK, VersionsInv
<1>1. PICK gone \in projects :
        /\ ~LocksProject(gone.id)
        /\ projects' = projects \ {gone}
        /\ grants' = {g \in grants : g[1] # gone.id}
        /\ quotes' = {[q EXCEPT !.project = IF @ = gone.id THEN 0 ELSE @] : q \in quotes}
  BY DEF ProjectDelete
<1>2. UNCHANGED <<items, seq, req>>
  BY DEF ProjectDelete
<1> DEFINE f == [q \in quotes |-> [q EXCEPT !.project = IF q.project = gone.id THEN 0 ELSE q.project]]
<1>3. \A q \in quotes :
        [q EXCEPT !.project = IF @ = gone.id THEN 0 ELSE @]
          = [q EXCEPT !.project = IF q.project = gone.id THEN 0 ELSE q.project]
  BY DEF QuoteRow
<1>4. quotes' = {f[q] : q \in quotes}
  BY <1>1, <1>3
<1>5. f \in [quotes -> QuoteRow]
  <2>1. \A q \in quotes :
          [q EXCEPT !.project = IF q.project = gone.id THEN 0 ELSE q.project] \in QuoteRow
    BY DEF QuoteRow
  <2> QED BY <2>1
<1>6. \A q \in quotes :
        /\ f[q].id = q.id /\ f[q].parent = q.parent /\ f[q].no = q.no
        /\ f[q].version = q.version /\ f[q].status = q.status
        /\ f[q].project = IF q.project = gone.id THEN 0 ELSE q.project
  BY DEF QuoteRow
<1> HIDE DEF f
<1>7. \A q \in quotes : f[q].project \in 0..seq.project
  BY <1>6 DEF IdsFromSequence
<1>8. /\ \A p \in projects' : p.id \in 1..seq.project
      /\ \A p, other \in projects' : p.id = other.id => p = other
  BY <1>1 DEF IdsFromSequence
<1>9. seq.project <= seq.project
  OBVIOUS
<1>10. /\ quotes' \subseteq QuoteRow /\ IdsFromSequence' /\ RevisedIsLocked'
       /\ EveryRevisionHasParent' /\ NumbersAreVersions' /\ VersionsBounded'
  BY <1>2, <1>4, <1>5, <1>6, <1>7, <1>8, <1>9, RelabelRows
<1>11. \A p \in projects : p.id = gone.id => p = gone
  BY DEF IdsFromSequence
<1>12. ProjectsHaveOrigin'
  BY <1>1, <1>4, <1>6, <1>11 DEF ProjectsHaveOrigin
<1>13. RevisionKeepsProject'
  BY <1>4, <1>6 DEF RevisionKeepsProject
<1>14. RequestIds' /\ RequestNumbers'
  BY <1>2 DEF RequestsKnow, RequestIds, RequestNumbers
<1>15. AcceptKnowsProject' /\ ReviseKnowsParent'
  BY <1>2, <1>4, <1>6
     DEF RequestsKnow, AcceptKnowsProject, ReviseKnowsParent, Copying, IsDraft
<1> QED BY <1>1, <1>2, <1>10, <1>12, <1>13, <1>14, <1>15 DEF RequestsKnow

\* Changes of items only.
LEMMA ItemSteps ==
  ASSUME IInv,
         \/ QuoteItemCreate \/ QuoteItemUpdate \/ QuoteItemDelete
         \/ \E r \in Req : McpItemInsert(r)
  PROVE  IInv'
<1> USE DEF IInv, RowsOK
<1>1. UNCHANGED <<quotes, projects, grants>>
  BY DEF QuoteItemCreate, QuoteItemUpdate, QuoteItemDelete, McpItemInsert, AddItem, tables
<1>2. /\ seq' \in [quote: Nat, item: Nat, project: Nat]
      /\ seq'.quote = seq.quote /\ seq'.project = seq.project
  <2>1. seq' = seq \/ seq' = [seq EXCEPT !.item = @ + 1]
    BY DEF QuoteItemCreate, QuoteItemUpdate, QuoteItemDelete, McpItemInsert, AddItem, tables
  <2> QED BY <2>1
<1>3. ASSUME NEW id \in Nat, AddItem(id) PROVE items' \subseteq ItemRow
  BY <1>3 DEF AddItem, ItemRow
<1>4. CASE QuoteItemUpdate
  <2>1. PICK i \in items, cents \in Cents, choice \in BOOLEAN :
          items' = (items \ {i}) \cup {[i EXCEPT !.cents = cents, !.choice = choice]}
    BY <1>4 DEF QuoteItemUpdate
  <2>2. [i EXCEPT !.cents = cents, !.choice = choice] \in ItemRow
    BY DEF ItemRow
  <2> QED BY <2>1, <2>2, <1>1, <1>2, <1>4, QuietStep
     DEF QuoteItemUpdate, RequestsKnow, RequestIds, RequestNumbers, AcceptKnowsProject,
         ReviseKnowsParent, Copying, IsDraft
<1>5. CASE QuoteItemCreate \/ QuoteItemDelete
  <2>1. items' \subseteq ItemRow /\ UNCHANGED req
    BY <1>3, <1>5 DEF QuoteItemCreate, QuoteItemDelete, QuoteRow
  <2> QED BY <2>1, <1>1, <1>2, QuietStep
     DEF RequestsKnow, RequestIds, RequestNumbers, AcceptKnowsProject, ReviseKnowsParent,
         Copying, IsDraft
<1>6. ASSUME NEW r \in Req, McpItemInsert(r) PROVE IInv'
  <2>1. items' \subseteq ItemRow /\ Respond(r)
    BY <1>3, <1>6 DEF McpItemInsert, Request, tables
  <2>2. req' \in [Req -> Request] /\ RequestsKnow'
    BY <1>1, <1>2, <2>1, RespondKnows
  <2> QED BY <1>1, <1>2, <2>1, <2>2, QuietStep
<1> QED BY <1>4, <1>5, <1>6

\* Every step keeps the invariant.
LEMMA NextIInv == IInv /\ [Next]_vars => IInv'
<1> SUFFICES ASSUME IInv, [Next]_vars PROVE IInv'
  OBVIOUS
<1>1. CASE UNCHANGED vars
  BY <1>1, QuietStep
     DEF vars, IInv, RowsOK, RequestsKnow, RequestIds, RequestNumbers, AcceptKnowsProject,
         ReviseKnowsParent, Copying, IsDraft
<1>2. ASSUME NEW r \in Req, ReviseEdit(r) PROVE IInv'
  <2>1. req[r].discount \in Discount
    BY DEF IInv, RowsOK, Request
  <2>2. req' \in [Req -> Request] /\ \A s \in Req : req'[s] \in {req[s], Idle}
    BY <1>2, IdleRequest DEF ReviseEdit, Respond, IInv, RowsOK
  <2> QED BY <1>2, <2>1, <2>2, HeaderEdits DEF ReviseEdit
<1>3. CASE QuoteUpdate
  <2>1. PICK id \in 1..seq.quote, d \in Discount : quotes' = EditHeader(id, d)
    BY <1>3 DEF QuoteUpdate
  <2>2. req' \in [Req -> Request] /\ \A s \in Req : req'[s] \in {req[s], Idle}
    BY <1>3 DEF QuoteUpdate, IInv, RowsOK
  <2> QED BY <1>3, <2>1, <2>2, HeaderEdits DEF QuoteUpdate
<1>4. ASSUME NEW r \in Req, Step(r) PROVE IInv'
  BY <1>2, <1>4, AcceptReads, AcceptCommits, ReviseReads, ReviseCommits, QuoteDeletes,
     OtherReads, ItemSteps DEF Step
<1> QED
  BY <1>1, <1>3, <1>4, ItemSteps, QuoteCreates, ProjectDeletes DEF Next

\* The inductive invariant holds in every reachable state.
LEMMA Invariance == Spec => []IInv
BY InitIInv, NextIInv, PTL DEF Spec

\* However many requests accept, revise and delete it at the same time, an
\* accepted version creates one project, which stays linked to it.
THEOREM ExactlyOneProject == Spec => []OneProjectPerAcceptedVersion
<1>1. IInv => OneProjectPerAcceptedVersion
  BY DEF IInv, RowsOK, VersionsInv, ProjectsHaveOrigin, IdsFromSequence, ProjectRow,
         OneProjectPerAcceptedVersion
<1> QED BY <1>1, Invariance, PTL

\* A revision keeps the project of the version it revises.
THEOREM ProjectKept == Spec => []RevisionKeepsProject
<1>1. IInv => RevisionKeepsProject
  BY DEF IInv, VersionsInv
<1> QED BY <1>1, Invariance, PTL

\* No deletion breaks the chain of versions.
THEOREM ParentsStay == Spec => []EveryRevisionHasParent
<1>1. IInv => EveryRevisionHasParent
  BY DEF IInv, VersionsInv
<1> QED BY <1>1, Invariance, PTL

\* Whatever users type and whatever is deleted, no revision stands in the way of the
\* next one: only a first version can have its number.
THEOREM NumberFree == Spec => []OnlyTypedNumbersBlock
<1>1. IInv => OnlyTypedNumbersBlock
  <2> SUFFICES ASSUME IInv, NEW q \in quotes, NEW x \in quotes,
                      x.no = [base |-> q.no.base, rev |-> NextVersion(q.no.base)],
                      x.version # 1
               PROVE  FALSE
    BY DEF OnlyTypedNumbersBlock
  <2>1. x.no.base = q.no.base /\ x.no.rev = NextVersion(q.no.base)
    OBVIOUS
  <2>2. NextVersion(q.no.base) \in Nat /\ x.version < NextVersion(q.no.base)
    BY <2>1, NextVersionAbove DEF IInv, RowsOK, VersionsInv
  <2>3. x.version = x.no.rev
    BY DEF IInv, VersionsInv, NumbersAreVersions
  <2> QED BY <2>1, <2>2, <2>3
<1> QED BY <1>1, Invariance, PTL

\* A step that leaves the rows of locked versions, and their items, alone.
LEMMA RowsStay ==
  ASSUME \A q \in quotes : q.status # "draft" => q \in quotes',
         \A q \in quotes : q.status # "draft" => ItemsOf(q.id) \subseteq items'
  PROVE  KeepsLocked
BY DEF KeepsLocked

\* No step of a request touches a locked version.
LEMMA RequestsKeepLocked ==
  ASSUME IInv, NEW r \in Req, Step(r)
  PROVE  KeepsLocked
<1> USE DEF IInv, RowsOK
<1>1. CASE UNCHANGED <<quotes, items>>
  BY <1>1, RowsStay DEF ItemsOf
<1>2. CASE AcceptCommit(r) /\ quotes' # quotes
  <2>1. PICK P \in Nat : quotes' = Accept(req[r].quote, P)
    <3>1. seq.project + 1 \in Nat /\ req[r].row.project \in Nat
      BY DEF Request, QuoteRow
    <3> QED BY <1>2, <3>1 DEF AcceptCommit, AcceptCreatesProject, AcceptUpdatesBudget
  <2>2. UNCHANGED items /\ IsDraft(req[r].quote)
    BY <1>2 DEF AcceptCommit, AcceptPossible
  <2>3. \A q \in quotes : q.status # "draft" => q.id # req[r].quote
    BY <2>2 DEF IsDraft, IdsFromSequence
  <2>4. \A q \in quotes : q.status # "draft" => q \in quotes'
    BY <2>1, <2>3 DEF Accept
  <2> QED BY <2>2, <2>4, RowsStay DEF ItemsOf
<1>3. CASE ReviseCommit(r)
  <2>1. /\ items \subseteq items'
        /\ \A q \in quotes : q.status # "draft" => q \in quotes'
    BY <1>3 DEF ReviseCommit, Send
  <2> QED BY <2>1, RowsStay DEF ItemsOf
<1>4. CASE ReviseEdit(r)
  <2>1. /\ UNCHANGED items
        /\ \A q \in quotes : q.status # "draft" => q \in quotes'
    BY <1>4 DEF ReviseEdit, EditHeader
  <2> QED BY <2>1, RowsStay DEF ItemsOf
<1>5. CASE QuoteDelete(r) /\ ~UNCHANGED <<quotes, items>>
  <2> DEFINE id == req[r].quote
  <2>1. /\ quotes' = {[q EXCEPT !.parent = IF @ = id THEN 0 ELSE @]
                        : q \in {x \in quotes : x.id # id}}
        /\ items' = items \ ItemsOf(id) /\ IsDraft(id)
    BY <1>5 DEF QuoteDelete
  <2>2. \A q \in quotes : q.status # "draft" => q.id # id
    BY <2>1 DEF IsDraft, IdsFromSequence
  <2> SUFFICES ASSUME NEW q \in quotes, q.status # "draft"
               PROVE  /\ \E next \in quotes' : [next EXCEPT !.project = 0, !.parent = 0]
                                                 = [q EXCEPT !.project = 0, !.parent = 0]
                      /\ ItemsOf(q.id) \subseteq items'
    BY DEF KeepsLocked
  <2> DEFINE next == [q EXCEPT !.parent = IF @ = id THEN 0 ELSE @]
  <2>3. next \in quotes'
    BY <2>1, <2>2
  <2>4. [next EXCEPT !.project = 0, !.parent = 0] = [q EXCEPT !.project = 0, !.parent = 0]
    BY DEF QuoteRow
  <2>5. ItemsOf(q.id) \subseteq items'
    BY <2>1, <2>2 DEF ItemsOf
  <2> QED BY <2>3, <2>4, <2>5
<1>6. CASE McpItemInsert(r)
  <2>1. UNCHANGED quotes /\ items \subseteq items'
    BY <1>6 DEF McpItemInsert, AddItem, tables
  <2> QED BY <2>1, RowsStay DEF ItemsOf
<1>7. CASE AcceptCommit(r) /\ quotes' = quotes
  BY <1>1, <1>7 DEF AcceptCommit
<1> QED
  BY <1>1, <1>2, <1>3, <1>4, <1>5, <1>6, <1>7
     DEF Step, StartAccept, AcceptReadItems, StartRevise, StartMcpNewVersion, ReviseLoad,
         ReviseNumber, ReviseCopy, StartDelete, StartMcpItem, RequestFails, tables

\* Neither does a handler of one statement, except that the deletion of a
\* project unlinks its versions.
LEMMA HandlersKeepLocked ==
  ASSUME IInv,
         \/ QuoteItemCreate \/ QuoteItemUpdate \/ QuoteItemDelete \/ QuoteCreate
         \/ QuoteUpdate \/ ProjectDelete
  PROVE  KeepsLocked
<1> USE DEF IInv, RowsOK
<1>1. CASE QuoteItemCreate \/ QuoteCreate
  <2>1. quotes \subseteq quotes' /\ items \subseteq items'
    BY <1>1 DEF QuoteItemCreate, AddItem, QuoteCreate
  <2> QED BY <2>1, RowsStay DEF ItemsOf
<1>2. CASE QuoteItemUpdate \/ QuoteItemDelete
  <2>1. PICK i \in items : ItemOpen(i) /\ items \ {i} \subseteq items'
    BY <1>2 DEF QuoteItemUpdate, QuoteItemDelete
  <2>2. \A q \in quotes : q.status # "draft" => q.id # i.quote
    BY <2>1 DEF ItemOpen, IsDraft, IdsFromSequence
  <2>3. UNCHANGED quotes
    BY <1>2 DEF QuoteItemUpdate, QuoteItemDelete
  <2> QED BY <2>1, <2>2, <2>3, RowsStay DEF ItemsOf
<1>3. CASE QuoteUpdate
  <2>1. UNCHANGED items /\ \A q \in quotes : q.status # "draft" => q \in quotes'
    BY <1>3 DEF QuoteUpdate, EditHeader
  <2> QED BY <2>1, RowsStay DEF ItemsOf
<1>4. CASE ProjectDelete
  <2>1. PICK p \in projects :
          quotes' = {[q EXCEPT !.project = IF @ = p.id THEN 0 ELSE @] : q \in quotes}
    BY <1>4 DEF ProjectDelete
  <2>2. UNCHANGED items
    BY <1>4 DEF ProjectDelete
  <2> SUFFICES ASSUME NEW q \in quotes
               PROVE  \E next \in quotes' : [next EXCEPT !.project = 0, !.parent = 0]
                                              = [q EXCEPT !.project = 0, !.parent = 0]
    BY <2>2 DEF KeepsLocked, ItemsOf
  <2> DEFINE next == [q EXCEPT !.project = IF @ = p.id THEN 0 ELSE @]
  <2>3. next \in quotes'
    BY <2>1
  <2>4. [next EXCEPT !.project = 0, !.parent = 0] = [q EXCEPT !.project = 0, !.parent = 0]
    BY DEF QuoteRow
  <2> QED BY <2>3, <2>4
<1> QED BY <1>1, <1>2, <1>3, <1>4

\* A version that left draft is frozen for good, with its items.
THEOREM LockedFrozen == Spec => LockedVersionsFrozen
<1>1. IInv /\ [Next]_vars => [KeepsLocked]_vars
  BY RequestsKeepLocked, HandlersKeepLocked DEF Next
<1> QED BY <1>1, Invariance, PTL DEF Spec, LockedVersionsFrozen

-----------------------------------------------------------------------------
(* Quotes implements LifeCycle: every step of a request is a whole step of *)
(* a version's life, or none.                                              *)


View(q) == [id |-> q.id, stage |-> q.status, before |-> q.parent]

\* Versions are seen by their ids.
LEMMA Views ==
  ASSUME IInv
  PROVE  /\ VersionsOf = {View(q) : q \in quotes}
         /\ \A q, o \in quotes : View(q) = View(o) => q = o
         /\ \A q \in quotes : View(q).id = q.id /\ View(q).stage = q.status
BY DEF IInv, IdsFromSequence, VersionsOf, View

\* A step that changes no id, status or parent.
LEMMA ViewsStay ==
  ASSUME \A q \in quotes : \E n \in quotes' : View(n) = View(q),
         \A n \in quotes' : \E q \in quotes : View(n) = View(q)
  PROVE  VersionsOf' = VersionsOf
<1>1. VersionsOf = {View(q) : q \in quotes} /\ VersionsOf' = {View(q) : q \in quotes'}
  BY DEF VersionsOf, View
<1> QED BY <1>1

\* One row is replaced.
LEMMA ViewsReplaced ==
  ASSUME IInv, NEW q \in quotes, NEW n,
         quotes' = (quotes \ {q}) \cup {n}
  PROVE  VersionsOf' = (VersionsOf \ {View(q)}) \cup {View(n)}
<1>1. VersionsOf = {View(x) : x \in quotes} /\ VersionsOf' = {View(x) : x \in quotes'}
  BY DEF VersionsOf, View
<1>2. \A o \in quotes : View(o) = View(q) => o = q
  BY Views
<1> QED BY <1>1, <1>2

\* One row is added.
LEMMA ViewsAdded ==
  ASSUME NEW n, quotes' = quotes \cup {n}
  PROVE  VersionsOf' = VersionsOf \cup {View(n)}
<1>1. VersionsOf = {View(x) : x \in quotes} /\ VersionsOf' = {View(x) : x \in quotes'}
  BY DEF VersionsOf, View
<1> QED BY <1>1

Quiet == UNCHANGED <<seq.quote, VersionsOf, MadeBy>>

\* An action of the abstract specification, or nothing that it sees.
LifeStep ==
  \/ Quiet
  \/ Life!Write
  \/ \E v \in VersionsOf : Life!Revise(v) \/ Life!AcceptInto(v) \/ Life!AcceptAgain(v) \/ Life!Delete(v)
  \/ Life!Drop

LEMMA LifeSteps == LifeStep => [Life!LifeNext]_(Life!lifeVars)
BY DEF LifeStep, Quiet, Life!LifeNext, Life!lifeVars

\* The acceptance of a draft replaces its row.
LEMMA AcceptReplaces ==
  ASSUME IInv, NEW q \in quotes, NEW p, quotes' = Accept(q.id, p)
  PROVE  VersionsOf' = (VersionsOf \ {View(q)}) \cup {[View(q) EXCEPT !.stage = "accepted"]}
<1> DEFINE n == [q EXCEPT !.status = "accepted", !.project = p]
<1>1. q \in QuoteRow /\ \A o \in quotes : o.id = q.id => o = q
  BY DEF IInv, RowsOK, IdsFromSequence
<1>2. quotes' = (quotes \ {q}) \cup {n}
  BY <1>1 DEF Accept
<1>3. View(n) = [View(q) EXCEPT !.stage = "accepted"]
  BY <1>1 DEF View, QuoteRow
<1> HIDE DEF n
<1> QED BY <1>2, <1>3, ViewsReplaced

\* A first acceptance makes a project, a later one joins the project that there is.
LEMMA AcceptLives ==
  ASSUME IInv, NEW r \in Req, AcceptCommit(r)
  PROVE  LifeStep
<1> USE DEF IInv, RowsOK
<1>1. req[r] \in Request /\ seq.project \in Nat
  OBVIOUS
<1>2. CASE UNCHANGED <<quotes, projects, seq>>
  BY <1>2 DEF LifeStep, Quiet, VersionsOf, MadeBy
<1>3. ASSUME NEW total, AcceptPossible(r, total), AcceptCreatesProject(r, total)
      PROVE  LifeStep
  <2>1. PICK q \in quotes : q.id = req[r].quote /\ q.status = "draft"
    BY <1>3 DEF AcceptPossible, IsDraft
  <2>2. PICK p : p = seq.project + 1
    OBVIOUS
  <2>3. /\ projects' = projects \cup {[id |-> p, origin |-> q.id]}
        /\ quotes' = Accept(q.id, p) /\ seq'.quote = seq.quote
    BY <1>1, <1>3, <2>1, <2>2 DEF AcceptCreatesProject
  <2>4. VersionsOf' = (VersionsOf \ {View(q)}) \cup {[View(q) EXCEPT !.stage = "accepted"]}
    BY <2>3, AcceptReplaces
  <2>5. MadeBy' = MadeBy \cup {<<q.id, p>>}
    <3>1. PICK x : x = [id |-> p, origin |-> q.id]
      OBVIOUS
    <3>2. projects' = projects \cup {x} /\ x.id = p /\ x.origin = q.id
      BY <2>3, <3>1
    <3> QED BY <3>2 DEF MadeBy
  <2>6. ASSUME NEW m \in MadeBy PROVE m[1] # q.id /\ m[2] # p
    <3>1. PICK x \in projects : m = <<x.origin, x.id>>
      BY DEF MadeBy
    <3>2. x.id \in 1..seq.project
      BY DEF IdsFromSequence
    <3>3. \E o \in quotes : o.id = x.origin /\ o.status = "accepted"
      BY DEF VersionsInv, ProjectsHaveOrigin
    <3>4. x.origin # q.id
      BY <2>1, <3>3 DEF IdsFromSequence
    <3> QED BY <1>1, <2>2, <3>1, <3>2, <3>4
  <2>7. PICK v, m : v = View(q) /\ m = <<q.id, p>>
    OBVIOUS
  <2>8. v \in VersionsOf /\ v.stage = "draft" /\ v.id = q.id
    BY <2>1, <2>7, Views
  <2>9. /\ m \in MadeBy' /\ m[1] = v.id /\ m[2] = p /\ MadeBy' \ {m} = MadeBy
        /\ \A n \in MadeBy : n[1] # v.id /\ n[2] # m[2]
    BY <2>5, <2>6, <2>7, <2>8
  <2>10. Life!AcceptInto(v)
    BY <2>3, <2>4, <2>7, <2>8, <2>9 DEF Life!AcceptInto, Life!Accepted
  <2> QED BY <2>8, <2>10 DEF LifeStep
<1>4. ASSUME NEW total, AcceptPossible(r, total), AcceptUpdatesBudget(r, total)
      PROVE  LifeStep
  <2>1. PICK q \in quotes : q.id = req[r].quote /\ q.status = "draft"
    BY <1>4 DEF AcceptPossible, IsDraft
  <2>2. quotes' = Accept(q.id, req[r].row.project) /\ UNCHANGED <<projects, seq>>
    BY <1>4, <2>1 DEF AcceptUpdatesBudget
  <2>3. VersionsOf' = (VersionsOf \ {View(q)}) \cup {[View(q) EXCEPT !.stage = "accepted"]}
    BY <2>2, AcceptReplaces
  <2>4. PICK x \in projects : x.id = req[r].row.project
    BY <1>4 DEF AcceptPossible, AcceptUpdatesBudget, ProjectLive
  <2>5. PICK o \in quotes : o.id = x.origin /\ o.status = "accepted"
    BY DEF VersionsInv, ProjectsHaveOrigin
  <2>6. PICK w, m : w = View(o) /\ m = <<x.origin, x.id>>
    OBVIOUS
  <2>7. w \in VersionsOf /\ w.stage = "accepted" /\ m \in MadeBy /\ m[1] = w.id
    BY <2>5, <2>6, Views DEF MadeBy
  <2>8. View(q) \in VersionsOf /\ View(q).stage = "draft" /\ MadeBy' = MadeBy
    BY <2>1, <2>2, Views DEF MadeBy
  <2>9. PICK v : v = View(q)
    OBVIOUS
  <2>10. Life!AcceptAgain(v)
    BY <2>2, <2>3, <2>7, <2>8, <2>9 DEF Life!AcceptAgain, Life!Accepted
  <2> QED BY <2>8, <2>9, <2>10 DEF LifeStep
<1> QED BY <1>2, <1>3, <1>4 DEF AcceptCommit

\* A revision sends the draft that it revises.
LEMMA ReviseLives ==
  ASSUME IInv, NEW r \in Req, ReviseCommit(r)
  PROVE  LifeStep
<1> USE DEF IInv, RowsOK
<1>1. req[r] \in Request /\ seq.quote \in Nat /\ Copying(r)
  BY DEF ReviseCommit, Copying
<1>2. CASE UNCHANGED <<quotes, seq>>
  BY <1>2 DEF LifeStep, Quiet, VersionsOf, MadeBy, ReviseCommit
<1>3. CASE /\ RevisePossible(r)
           /\ quotes' = (IF req[r].row.status = "draft" THEN Send(req[r].quote) ELSE quotes)
                          \cup {NewVersion(r)}
           /\ seq' = [seq EXCEPT !.quote = @ + 1]
  <2>1. PICK q \in quotes : q.id = req[r].quote
    BY <1>1 DEF RequestsKnow, ReviseKnowsParent
  <2>2. q \in QuoteRow /\ \A o \in quotes : o.id = q.id => o = q
    BY DEF IdsFromSequence
  <2>3. (req[r].row.status = "draft") <=> (q.status = "draft")
    BY <1>1, <1>3, <2>1, <2>2 DEF RevisePossible, IsDraft, RequestsKnow, ReviseKnowsParent, Copying
  <2>4. PICK sent : sent = IF q.status = "draft" THEN [q EXCEPT !.status = "sent"] ELSE q
    OBVIOUS
  <2>5. PICK new : new = NewVersion(r)
    OBVIOUS
  <2>6. quotes' = ((quotes \ {q}) \cup {sent}) \cup {new}
    BY <1>3, <2>1, <2>2, <2>3, <2>4, <2>5 DEF Send
  <2>7. /\ View(sent) = [View(q) EXCEPT !.stage = IF @ = "draft" THEN "sent" ELSE @]
        /\ View(new) = [id |-> seq.quote + 1, stage |-> "draft", before |-> View(q).id]
    BY <2>1, <2>2, <2>4, <2>5 DEF View, NewVersion, QuoteRow
  <2>8. VersionsOf' = (VersionsOf \ {View(q)}) \cup {View(sent), View(new)}
    <3>1. /\ VersionsOf = {View(x) : x \in quotes} /\ VersionsOf' = {View(x) : x \in quotes'}
          /\ \A o \in quotes : View(o) = View(q) => o = q
      BY Views DEF VersionsOf, View
    <3> QED BY <2>6, <3>1
  <2>9. PICK v : v = View(q)
    OBVIOUS
  <2>10. v \in VersionsOf
    BY <2>9, Views
  <2>11. seq'.quote = seq.quote + 1 /\ MadeBy' = MadeBy
    BY <1>1, <1>3 DEF ReviseCommit, MadeBy
  <2>12. Life!Revise(v)
    BY <2>7, <2>8, <2>9, <2>11 DEF Life!Revise, Life!Version
  <2> QED BY <2>10, <2>12 DEF LifeStep
<1> QED BY <1>2, <1>3 DEF ReviseCommit

\* The deletion of a draft makes orphans of its revisions.
LEMMA DeleteLives ==
  ASSUME IInv, NEW r \in Req, QuoteDelete(r)
  PROVE  LifeStep
<1> USE DEF IInv, RowsOK
<1>1. CASE UNCHANGED quotes
  BY <1>1 DEF LifeStep, Quiet, VersionsOf, MadeBy, QuoteDelete
<1>2. CASE /\ IsDraft(req[r].quote)
           /\ quotes' = {[q EXCEPT !.parent = IF @ = req[r].quote THEN 0 ELSE @]
                           : q \in {x \in quotes : x.id # req[r].quote}}
  <2>1. PICK q \in quotes : q.id = req[r].quote /\ q.status = "draft"
    BY <1>2 DEF IsDraft
  <2>2. PICK v, id : v = View(q) /\ id = q.id
    OBVIOUS
  <2>3. v \in VersionsOf /\ v.id = id /\ v.stage = "draft"
    BY <2>1, <2>2, Views
  <2> DEFINE Orphan(x) == [x EXCEPT !.parent = IF @ = id THEN 0 ELSE @]
             Bereft(x) == IF x.before \in {id} THEN [x EXCEPT !.before = 0] ELSE x
  <2>4. \A x \in quotes : View(Orphan(x)) = Bereft(View(x)) /\ View(x).id = x.id
    BY DEF View, QuoteRow
  <2>5. quotes' = {Orphan(x) : x \in {x \in quotes : x.id # id}}
    BY <1>2, <2>1, <2>2
  <2>6. VersionsOf = {View(x) : x \in quotes} /\ VersionsOf' = {View(x) : x \in quotes'}
    BY DEF VersionsOf, View
  <2>7. VersionsOf \ {v} = {View(x) : x \in {x \in quotes : x.id # id}}
    BY <2>1, <2>2, <2>6, Views DEF IdsFromSequence
  <2>8. VersionsOf' = {Bereft(x) : x \in VersionsOf \ {v}}
    <3> HIDE DEF Orphan, Bereft
    <3> QED BY <2>4, <2>5, <2>6, <2>7
  <2>9. {x.id : x \in {v}} = {id}
    BY <2>3
  <2>10. Life!Without({v}) = {Bereft(x) : x \in VersionsOf \ {v}}
    BY <2>9 DEF Life!Without
  <2>11. seq' = seq /\ MadeBy' = MadeBy
    BY DEF QuoteDelete, MadeBy
  <2>12. Life!Delete(v)
    BY <2>3, <2>8, <2>10, <2>11 DEF Life!Delete
  <2> QED BY <2>3, <2>12 DEF LifeStep
<1> QED BY <1>1, <1>2 DEF QuoteDelete

\* A new quote is a draft that was made from nothing.
LEMMA CreateLives ==
  ASSUME IInv, QuoteCreate
  PROVE  LifeStep
<1>1. seq.quote \in Nat
  BY DEF IInv, RowsOK
<1>2. PICK new : /\ quotes' = quotes \cup {new}
                 /\ new.id = seq.quote + 1 /\ new.status = "draft" /\ new.parent = 0
  <2> DEFINE Draft(no, d) == [id |-> seq.quote + 1, no |-> no, version |-> 1,
                              status |-> "draft", project |-> 0, parent |-> 0, discount |-> d]
  <2>1. PICK no, d : quotes' = quotes \cup {Draft(no, d)}
    BY DEF QuoteCreate
  <2>2. /\ Draft(no, d).id = seq.quote + 1
        /\ Draft(no, d).status = "draft" /\ Draft(no, d).parent = 0
    OBVIOUS
  <2> HIDE DEF Draft
  <2> QED BY <2>1, <2>2
<1>3. seq'.quote = seq.quote + 1 /\ MadeBy' = MadeBy
  BY <1>1 DEF QuoteCreate, MadeBy, IInv, RowsOK
<1>4. VersionsOf' = VersionsOf \cup {View(new)}
  BY <1>2, ViewsAdded
<1>5. Life!Write
  BY <1>2, <1>3, <1>4 DEF Life!Write, Life!Version, View
<1> QED BY <1>5 DEF LifeStep

\* Nobody owns a standalone quote: with a project only its link goes.
LEMMA ProjectLives ==
  ASSUME IInv, ProjectDelete
  PROVE  LifeStep
<1> USE DEF IInv, RowsOK
<1>1. PICK p \in projects :
        /\ projects' = projects \ {p}
        /\ quotes' = {[q EXCEPT !.project = IF @ = p.id THEN 0 ELSE @] : q \in quotes}
  BY DEF ProjectDelete
<1>2. VersionsOf' = VersionsOf
  <2> DEFINE Unlinked(q) == [q EXCEPT !.project = IF @ = p.id THEN 0 ELSE @]
  <2>1. \A q \in quotes : View(Unlinked(q)) = View(q)
    BY DEF View, QuoteRow
  <2>2. quotes' = {Unlinked(q) : q \in quotes}
    BY <1>1
  <2> HIDE DEF Unlinked
  <2> QED BY <2>1, <2>2, ViewsStay
<1>3. MadeBy' = {m \in MadeBy : m[2] # p.id}
  BY <1>1 DEF MadeBy, IdsFromSequence
<1>4. \E x \in {0} \cup {m[2] : m \in MadeBy} : MadeBy' = {m \in MadeBy : m[2] # x}
  <2>1. <<p.origin, p.id>> \in MadeBy
    BY DEF MadeBy
  <2>2. PICK m \in MadeBy : m[2] = p.id
    BY <2>1
  <2> QED BY <1>3, <2>2
<1>5. VersionsOf' = Life!Without({})
  BY <1>2 DEF Life!Without
<1>6. seq' = seq
  BY DEF ProjectDelete
<1>7. Life!Drop
  BY <1>4, <1>5, <1>6 DEF Life!Drop
<1> QED BY <1>7 DEF LifeStep

\* A header that is edited is seen by nobody here.
LEMMA HeaderLives ==
  ASSUME IInv, NEW id, NEW d, quotes' = EditHeader(id, d), UNCHANGED <<projects, seq>>
  PROVE  LifeStep
<1> USE DEF IInv, RowsOK
<1> DEFINE Edited(q) == IF q.id = id /\ q.status = "draft" THEN [q EXCEPT !.discount = d] ELSE q
<1>1. \A q \in quotes : View(Edited(q)) = View(q)
  BY DEF View, QuoteRow
<1>2. quotes' = {Edited(q) : q \in quotes}
  BY DEF EditHeader
<1> HIDE DEF Edited
<1>3. VersionsOf' = VersionsOf
  BY <1>1, <1>2, ViewsStay
<1> QED BY <1>3 DEF LifeStep, Quiet, MadeBy

LEMMA QuietLives ==
  ASSUME UNCHANGED <<quotes, projects>>, seq'.quote = seq.quote
  PROVE  LifeStep
BY DEF LifeStep, Quiet, VersionsOf, MadeBy

\* Every step is a step of the life cycle, or one that it does not see.
LEMMA NextLives == IInv /\ [Next]_vars => LifeStep
<1> SUFFICES ASSUME IInv, [Next]_vars PROVE LifeStep
  OBVIOUS
<1>1. seq \in [quote: Nat, item: Nat, project: Nat]
  BY DEF IInv, RowsOK
<1>2. ASSUME UNCHANGED vars PROVE LifeStep
  <2>1. UNCHANGED <<quotes, projects>> /\ seq'.quote = seq.quote
    BY <1>2 DEF vars
  <2> QED BY <2>1, QuietLives
<1>3. ASSUME NEW r \in Req, Step(r) PROVE LifeStep
  <2>1. CASE UNCHANGED tables
    BY <2>1, QuietLives DEF tables
  <2>2. CASE McpItemInsert(r)
    BY <1>1, <2>2, QuietLives DEF McpItemInsert, AddItem, tables
  <2>3. CASE ReviseEdit(r)
    BY <2>3, HeaderLives DEF ReviseEdit
  <2> QED BY <1>3, <2>1, <2>2, <2>3, AcceptLives, ReviseLives, DeleteLives
          DEF Step, StartAccept, AcceptReadItems, StartRevise, StartMcpNewVersion, ReviseLoad,
              ReviseNumber, ReviseCopy, StartDelete, StartMcpItem, RequestFails
<1>4. ASSUME QuoteItemCreate \/ QuoteItemUpdate \/ QuoteItemDelete PROVE LifeStep
  BY <1>1, <1>4, QuietLives DEF QuoteItemCreate, AddItem, QuoteItemUpdate, QuoteItemDelete
<1>5. ASSUME QuoteUpdate PROVE LifeStep
  BY <1>5, HeaderLives DEF QuoteUpdate
<1> QED BY <1>2, <1>3, <1>4, <1>5, CreateLives, ProjectLives DEF Next

\* quotes.go:555-660 and mcp/management.go:463: the statements of any number of
\* overlapping acceptances, revisions, edits and deletions add up to whole steps of the
\* life of single versions, in the order in which they commit.
THEOREM LifeCycleImplemented == Spec => ImplementsLifeCycle
<1>1. Init => Life!LifeInit
  BY DEF Init, Life!LifeInit, VersionsOf, MadeBy
<1>2. IInv /\ [Next]_vars => [Life!LifeNext]_(Life!lifeVars)
  BY NextLives, LifeSteps
<1> QED BY <1>1, <1>2, Invariance, PTL DEF Spec, ImplementsLifeCycle, Life!LifeSpec

-----------------------------------------------------------------------------
(* Amounts.  A budget is written with a total that was computed from rows  *)
(* read before, so that total is a number only because these rows are      *)
(* finitely many items; only its CHECK keeps it from being negative.       *)

cost == [i \in ItemRow |-> i.cents]

\* Summing items with the fold of the model is summing their prices.
LEMMA SumIsNat ==
  ASSUME NEW rows \in SUBSET ItemRow, IsFiniteSet(rows)
  PROVE  Sum(rows) \in Nat
<1> DEFINE P(h) == h = [s \in SUBSET rows |->
                          IF s = {} THEN 0
                          ELSE (CHOOSE x \in s : TRUE).cents + h[s \ {CHOOSE x \in s : TRUE}]]
           iter == CHOOSE h : P(h)
<1>1. Sum(rows) = iter[rows]
  BY DEF Sum, MapThenSumSet, MapThenFoldSet
<1>2. \A x \in rows : cost[x] = x.cents /\ cost[x] \in Nat /\ cost[x] \in Int
  BY DEF cost, ItemRow, Cents
<1>3. \A s \in SUBSET rows : s # {} => cost[Pick(s)] = (CHOOSE x \in s : TRUE).cents
  BY <1>2, PickIn DEF Pick
<1>4. \A h : P(h) <=> IsSum(h, cost, rows)
  BY <1>3 DEF IsSum, Pick
<1>5. \E h : IsSum(h, cost, rows)
  BY <1>2, SumExists
<1> HIDE DEF P
<1>6. P(iter)
  BY <1>4, <1>5
<1> HIDE DEF iter
<1>7. iter[rows] = SumOf(cost, rows)
  BY <1>2, <1>4, <1>6, SumIs
<1>8. SumOf(cost, rows) \in Nat
  BY <1>2, SumType
<1> QED BY <1>1, <1>7, <1>8

\* What a customer can be asked for is a number, though a fixed discount can
\* make it negative.
LEMMA TotalsAreNumbers ==
  ASSUME NEW rows \in SUBSET ItemRow, IsFiniteSet(rows), NEW discount \in Nat
  PROVE  TotalOptions(rows, discount) \subseteq Int
<1> DEFINE choices == {i \in rows : i.choice}
<1>1. rows \ choices \in SUBSET ItemRow /\ IsFiniteSet(rows \ choices)
  BY FS_Subset
<1>2. Sum(rows) \in Nat /\ Sum(rows \ choices) \in Nat
  BY <1>1, SumIsNat
<1>3. \A c \in choices : c.cents \in Nat
  BY DEF ItemRow, Cents
<1>4. \A c \in choices : Sum(rows \ choices) + c.cents - discount \in Int
  BY <1>2, <1>3
<1>5. Sum(rows) - discount \in Int
  BY <1>2
<1>6. TotalOptions(rows, discount)
        = IF Cardinality(choices) >= 2
            THEN {Sum(rows \ choices) + c.cents - discount : c \in choices}
            ELSE {Sum(rows) - discount}
  BY DEF TotalOptions
<1>7. CASE Cardinality(choices) >= 2
  BY <1>4, <1>6, <1>7
<1>8. CASE ~(Cardinality(choices) >= 2)
  BY <1>5, <1>6, <1>8
<1> QED BY <1>7, <1>8

AmountsInv ==
  /\ IsFiniteSet(items)
  /\ \A r \in Req : IsFiniteSet(req[r].copy)
  /\ BudgetsOK

LEMMA IdleCopiesNothing == Idle \in Request /\ Idle.copy = {} /\ IsFiniteSet({})
BY IdleRequest, FS_EmptySet DEF Idle

\* A request that copied finitely many items.
LEMMA FiniteStep ==
  ASSUME IInv, AmountsInv, NEW r \in Req, NEW state, IsFiniteSet(state.copy),
         req' = [req EXCEPT ![r] = state], IsFiniteSet(items'), budgets' \subseteq BudgetRow
  PROVE  AmountsInv'
BY DEF IInv, RowsOK, AmountsInv, BudgetsOK

\* Items that are there are finitely many.
LEMMA ItemsFinite ==
  ASSUME IsFiniteSet(items), NEW id
  PROVE  IsFiniteSet(ItemsOf(id))
<1>1. ItemsOf(id) \subseteq items
  BY DEF ItemsOf
<1> QED BY <1>1, FS_Subset

\* The acceptance writes a total that passed the CHECK.
LEMMA AcceptAmounts ==
  ASSUME IInv, AmountsInv, NEW r \in Req, AcceptCommit(r)
  PROVE  AmountsInv'
<1> USE DEF IInv, RowsOK
<1>1. /\ req' = [req EXCEPT ![r] = Idle] /\ items' = items
      /\ req[r].row.project \in Nat /\ seq.project + 1 \in Nat
      /\ req[r].copy \in SUBSET ItemRow /\ req[r].row.discount \in Nat
  BY ConstantsAssumption DEF AcceptCommit, Respond, Request, QuoteRow, Discount
<1>2. PICK total \in TotalOptions(req[r].copy, req[r].row.discount) :
        \/ /\ AcceptPossible(r, total)
           /\ AcceptCreatesProject(r, total) \/ AcceptUpdatesBudget(r, total)
        \/ /\ ~AcceptPossible(r, total)
           /\ UNCHANGED <<quotes, projects, budgets, grants, seq>>
  BY DEF AcceptCommit
<1>3. total \in Int
  <2>1. IsFiniteSet(req[r].copy)
    BY DEF AmountsInv
  <2> QED BY <1>1, <1>2, <2>1, TotalsAreNumbers
<1>4. budgets' \subseteq BudgetRow
  <2>1. CASE budgets' = budgets
    BY <2>1 DEF AmountsInv, BudgetsOK
  <2>2. CASE AcceptPossible(r, total) /\ AcceptCreatesProject(r, total)
    <3>1. total \in Nat
      BY <1>3, <2>2 DEF AcceptPossible
    <3>2. budgets' = budgets \cup {[project |-> seq.project + 1, cents |-> total]}
      BY <2>2 DEF AcceptCreatesProject
    <3> QED BY <1>1, <3>1, <3>2 DEF AmountsInv, BudgetsOK, BudgetRow
  <2>3. CASE AcceptPossible(r, total) /\ AcceptUpdatesBudget(r, total)
    <3>1. total \in Nat
      BY <1>3, <2>3 DEF AcceptPossible
    <3>2. budgets' = {b \in budgets : b.project # req[r].row.project}
                       \cup {[project |-> req[r].row.project, cents |-> total]}
      BY <2>3 DEF AcceptUpdatesBudget
    <3> QED BY <1>1, <3>1, <3>2 DEF AmountsInv, BudgetsOK, BudgetRow
  <2> QED BY <1>2, <2>1, <2>2, <2>3
<1>5. IsFiniteSet(items')
  BY <1>1 DEF AmountsInv
<1> QED BY <1>1, <1>4, <1>5, IdleCopiesNothing, FiniteStep

\* The other actions of a request.
LEMMA RequestAmounts ==
  ASSUME IInv, AmountsInv, NEW r \in Req, Step(r), ~AcceptCommit(r)
  PROVE  AmountsInv'
<1> USE DEF IInv, RowsOK
<1>1. budgets' \subseteq BudgetRow
  <2>1. budgets' = budgets
    BY DEF Step, tables, StartAccept, AcceptReadItems, StartRevise, StartMcpNewVersion,
           ReviseLoad, ReviseNumber, ReviseCopy, ReviseCommit, ReviseEdit, StartDelete,
           QuoteDelete, StartMcpItem, McpItemInsert, AddItem, RequestFails
  <2> QED BY <2>1 DEF AmountsInv, BudgetsOK
<1>2. IsFiniteSet(items) /\ req[r] \in Request /\ IsFiniteSet(req[r].copy)
  BY DEF AmountsInv
<1>3. CASE items' = items /\ Respond(r)
  BY <1>1, <1>2, <1>3, IdleCopiesNothing, FiniteStep DEF Respond
<1>4. CASE StartAccept(r) \/ StartDelete(r) \/ StartMcpItem(r)
           \/ StartRevise(r) \/ StartMcpNewVersion(r)
  <2>1. items' = items
    BY <1>4 DEF StartAccept, StartDelete, StartMcpItem, StartRevise, StartMcpNewVersion, tables
  <2>2. \E state : state.copy = {} /\ req' = [req EXCEPT ![r] = state]
    <3> USE DEF Idle
    <3>1. CASE StartAccept(r)
      BY <3>1 DEF StartAccept
    <3>2. CASE StartDelete(r)
      BY <3>2 DEF StartDelete
    <3>3. CASE StartMcpItem(r)
      BY <3>3 DEF StartMcpItem
    <3>4. CASE StartRevise(r)
      BY <3>4 DEF StartRevise
    <3>5. CASE StartMcpNewVersion(r)
      BY <3>5 DEF StartMcpNewVersion
    <3> QED BY <1>4, <3>1, <3>2, <3>3, <3>4, <3>5
  <2>3. PICK state : state.copy = {} /\ req' = [req EXCEPT ![r] = state]
    BY <2>2
  <2>4. IsFiniteSet(state.copy) /\ IsFiniteSet(items')
    BY <1>2, <2>1, <2>3, IdleCopiesNothing
  <2> QED BY <1>1, <2>3, <2>4, FiniteStep
<1>5. ASSUME NEW state, items' = items, req' = [req EXCEPT ![r] = state],
             state.copy = req[r].copy \/ state.copy = ItemsOf(req[r].quote)
      PROVE  AmountsInv'
  <2>1. IsFiniteSet(ItemsOf(req[r].quote))
    BY <1>2, ItemsFinite
  <2>2. IsFiniteSet(state.copy) /\ IsFiniteSet(items')
    BY <1>2, <1>5, <2>1
  <2> QED BY <1>1, <1>5, <2>2, FiniteStep
<1>6. CASE AcceptReadItems(r)
  <2> DEFINE state == [req[r] EXCEPT !.pc = "accept_commit", !.copy = ItemsOf(req[r].quote)]
  <2>1. state.copy = ItemsOf(req[r].quote)
    BY <1>2 DEF Request
  <2>2. req' = [req EXCEPT ![r] = state] /\ items' = items
    BY <1>6 DEF AcceptReadItems, tables
  <2> HIDE DEF state
  <2> QED BY <1>5, <2>1, <2>2
<1>7. CASE ReviseLoad(r) /\ ~Respond(r)
  <2>1. PICK q \in quotes : req' = [req EXCEPT ![r].pc = "revise_number", ![r].row = q]
    BY <1>7 DEF ReviseLoad
  <2> DEFINE state == [req[r] EXCEPT !.pc = "revise_number", !.row = q]
  <2>2. state.copy = req[r].copy
    BY <1>2 DEF Request
  <2>3. req' = [req EXCEPT ![r] = state] /\ items' = items
    BY <1>7, <2>1 DEF ReviseLoad, tables
  <2> HIDE DEF state
  <2> QED BY <1>5, <2>2, <2>3
<1>8. CASE ReviseNumber(r)
  <2>1. PICK v : req' = [req EXCEPT ![r] =
          [@ EXCEPT !.pc = "revise_copy", !.row.no.rev = v, !.row.version = v]]
    BY <1>8 DEF ReviseNumber
  <2> DEFINE state == [req[r] EXCEPT !.pc = "revise_copy", !.row.no.rev = v,
                                     !.row.version = v]
  <2>2. state.copy = req[r].copy
    BY <1>2 DEF Request
  <2>3. req' = [req EXCEPT ![r] = state] /\ items' = items
    BY <1>8, <2>1 DEF ReviseNumber, tables
  <2> HIDE DEF state
  <2> QED BY <1>5, <2>2, <2>3
<1>9. CASE ReviseCopy(r) /\ ~Respond(r)
  <2>1. PICK q \in quotes :
          /\ q.id = req[r].quote
          /\ req' = [req EXCEPT ![r] = [@ EXCEPT !.pc = "revise_commit",
               !.row.project = q.project, !.row.discount = q.discount,
               !.copy = ItemsOf(q.id)]]
    BY <1>9 DEF ReviseCopy
  <2> DEFINE state == [req[r] EXCEPT !.pc = "revise_commit",
                         !.row.project = q.project, !.row.discount = q.discount,
                         !.copy = ItemsOf(q.id)]
  <2>2. state.copy = ItemsOf(req[r].quote)
    BY <1>2, <2>1 DEF Request
  <2>3. req' = [req EXCEPT ![r] = state] /\ items' = items
    BY <1>9, <2>1 DEF ReviseCopy, tables
  <2> HIDE DEF state
  <2> QED BY <1>5, <2>2, <2>3
<1>10. CASE ReviseCommit(r) /\ ~(items' = items /\ Respond(r))
  <2> DEFINE move == [i \in items \cup req[r].copy |-> [i EXCEPT !.quote = seq.quote + 1]]
  <2>1. items' = items \cup {[i EXCEPT !.quote = seq.quote + 1] : i \in req[r].copy}
    BY <1>10 DEF ReviseCommit
  <2>2. items' = items \cup {move[i] : i \in req[r].copy}
    BY <2>1
  <2> HIDE DEF move
  <2>3. IsFiniteSet({move[i] : i \in req[r].copy})
    BY <1>2, ImageFinite
  <2>4. IsFiniteSet(items')
    BY <1>2, <2>2, <2>3, FS_Union
  <2>5. \E state : state.copy = {} /\ req' = [req EXCEPT ![r] = state]
    BY <1>10, IdleCopiesNothing DEF ReviseCommit, Respond, Idle
  <2>6. PICK state : state.copy = {} /\ req' = [req EXCEPT ![r] = state]
    BY <2>5
  <2> QED BY <1>1, <2>4, <2>6, IdleCopiesNothing, FiniteStep
<1>11. CASE QuoteDelete(r)
  <2>1. items' \subseteq items /\ req' = [req EXCEPT ![r] = Idle]
    BY <1>11 DEF QuoteDelete, Respond
  <2>2. IsFiniteSet(items')
    BY <1>2, <2>1, FS_Subset
  <2> QED BY <1>1, <2>1, <2>2, IdleCopiesNothing, FiniteStep
<1>12. CASE McpItemInsert(r)
  <2>1. \E i : items' \subseteq items \cup {i}
    BY <1>12 DEF McpItemInsert, AddItem, tables
  <2>2. IsFiniteSet(items')
    BY <1>2, <2>1, FS_AddElement, FS_Subset
  <2>3. req' = [req EXCEPT ![r] = Idle]
    BY <1>12 DEF McpItemInsert, Respond
  <2> QED BY <1>1, <2>2, <2>3, IdleCopiesNothing, FiniteStep
<1>13. CASE ReviseEdit(r) \/ RequestFails(r)
  BY <1>3, <1>13 DEF ReviseEdit, RequestFails, tables
<1>14. ReviseLoad(r) \/ ReviseCopy(r) => items' = items
  BY DEF ReviseLoad, ReviseCopy, tables
<1> QED
  BY <1>3, <1>4, <1>6, <1>7, <1>8, <1>9, <1>10, <1>11, <1>12, <1>13, <1>14 DEF Step

\* Adding, editing or removing an item leaves finitely many, and deleting a
\* project takes its budget away.
LEMMA HandlerAmounts ==
  ASSUME IInv, AmountsInv,
         \/ QuoteItemCreate \/ QuoteItemUpdate \/ QuoteItemDelete
         \/ QuoteCreate \/ QuoteUpdate \/ ProjectDelete
  PROVE  AmountsInv'
<1>1. req' = req /\ budgets' \subseteq budgets
  BY DEF QuoteItemCreate, AddItem, QuoteItemUpdate, QuoteItemDelete, QuoteCreate,
         QuoteUpdate, ProjectDelete
<1>2. \E i : items' \subseteq items \cup {i}
  <2>1. CASE QuoteItemCreate
    BY <2>1 DEF QuoteItemCreate, AddItem
  <2>2. CASE QuoteItemUpdate
    BY <2>2 DEF QuoteItemUpdate
  <2>3. CASE items' \subseteq items
    BY <2>3
  <2>4. QuoteItemDelete \/ QuoteCreate \/ QuoteUpdate \/ ProjectDelete => items' \subseteq items
    BY DEF QuoteItemDelete, QuoteCreate, QuoteUpdate, ProjectDelete
  <2> QED BY <2>1, <2>2, <2>3, <2>4
<1>3. PICK i : items' \subseteq items \cup {i}
  BY <1>2
<1>4. IsFiniteSet(items')
  BY <1>3, FS_AddElement, FS_Subset DEF AmountsInv
<1> QED BY <1>1, <1>4 DEF AmountsInv, BudgetsOK

\* Type correctness: the tables have the types of the schema and every budget
\* an amount that is not negative, although the acceptance computes it from
\* rows that may have changed.
THEOREM TypeCorrect == Spec => []TypeOK
<1>1. Init => AmountsInv
  BY IdleCopiesNothing DEF Init, AmountsInv, BudgetsOK
<1>2. IInv /\ AmountsInv /\ [Next]_vars => AmountsInv'
  <2> SUFFICES ASSUME IInv, AmountsInv, [Next]_vars PROVE AmountsInv'
    OBVIOUS
  <2>1. CASE UNCHANGED vars
    BY <2>1 DEF vars, AmountsInv, BudgetsOK
  <2>2. ASSUME NEW r \in Req, Step(r) PROVE AmountsInv'
    BY <2>2, AcceptAmounts, RequestAmounts
  <2> QED BY <2>1, <2>2, HandlerAmounts DEF Next
<1>3. IInv /\ AmountsInv => TypeOK
  BY DEF IInv, AmountsInv, TypeOK
<1> QED BY <1>1, <1>2, <1>3, Invariance, PTL DEF Spec
=============================================================================
