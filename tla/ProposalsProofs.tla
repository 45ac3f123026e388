--------------------------- MODULE ProposalsProofs ---------------------------
(***************************************************************************)
(* Theorems about Proposals, for any number of requests, versions, items   *)
(* and projects.                                                           *)
(***************************************************************************)
EXTENDS Proposals, SetLemmas

\* The ids of a table come from its sequence and identify its rows.
IdsFromSequence ==
  /\ \A q \in quotes : /\ q.id \in 1..seq.quote /\ q.parent \in 0..seq.quote
                       /\ q.project \in 1..seq.project
  /\ \A q, o \in quotes : q.id = o.id => q = o
  /\ \A p \in projects : p.id \in 1..seq.project /\ p.source \in 0..seq.quote
  /\ \A p, o \in projects : p.id = o.id => p = o
  /\ \A i \in items : i.quote \in 1..seq.quote
  /\ \A r \in Req : req[r].quote \in 0..seq.quote

\* There are finitely many names and versions to search.
Bounded ==
  /\ IsFiniteSet(projects)
  /\ \E n \in Nat : \A q \in quotes : q.version <= n

\* The version that an execution project came from is accepted for good.
SourcesAccepted ==
  \A p \in projects, q \in quotes : p.source = q.id => q.status = "accepted"

\* What joined a version before its acceptance is known as such.
ItemsStaged ==
  \A i \in items, q \in quotes :
    (i.quote = q.id /\ q.status # "accepted") => i.stage # "accepted"

\* A revision in flight has a later version than what it revises.
RevisionsAhead ==
  \A r \in Req, q \in quotes :
    (req[r].pc \in {"copy", "send"} /\ q.id = req[r].quote) => req[r].version > q.version

Holding(r) == req[r].pc \in {"project", "read", "accept"}

\* An acceptance is the only one of its version, which is not accepted before
\* it commits, and has a name.
HoldersExclude ==
  \A r \in Req : Holding(r) =>
    /\ req[r].name # 0
    /\ \A o \in Req : (Holding(o) /\ req[o].quote = req[r].quote) => o = r
    /\ \A q \in quotes : q.id = req[r].quote => q.status # "accepted"

\* No item joins or leaves the version after the acceptance has read them.
ReadIsTotal == \A r \in Req : req[r].pc = "accept" => req[r].read = ItemsOf(req[r].quote)

RequestsKnow == RevisionsAhead /\ HoldersExclude /\ ReadIsTotal

TablesInv ==
  /\ Bounded
  /\ SourcesAccepted
  /\ ItemsStaged
  /\ OneExecution
  /\ BudgetIsAcceptedTotal
  /\ HistoryAscends

IInv == TypeOK /\ IdsFromSequence /\ TablesInv /\ RequestsKnow

-----------------------------------------------------------------------------
(* Requests.                                                               *)

LEMMA IdleRequest ==
  Idle \in Request /\ Idle.pc = "idle" /\ Idle.quote = 0 /\ Idle.name = 0 /\ Idle.read = {}
BY DEF Idle, Request

LEMMA RequestStarts ==
  ASSUME NEW id \in Nat
  PROVE  /\ [Idle EXCEPT !.pc = "item", !.quote = id] \in
              {q \in Request : q.pc = "item" /\ q.quote = id}
         /\ [Idle EXCEPT !.pc = "lock", !.quote = id] \in
              {q \in Request : q.pc = "lock" /\ q.quote = id}
BY IdleRequest DEF Request

LEMMA InitIInv == Init => IInv
<1> SUFFICES ASSUME Init PROVE IInv
  OBVIOUS
<1>1. TypeOK
  <2>1. projects \subseteq ProjectRow
    BY DEF Init, ProjectRow
  <2>2. seq \in [quote: Nat, item: Nat, project: Nat] /\ req \in [Req -> Request]
    BY IdleRequest DEF Init
  <2> QED BY <2>1, <2>2 DEF Init, TypeOK
<1>2. \A r \in Req : req[r] = Idle
  BY DEF Init
<1>3. IsFiniteSet(projects)
  BY FS_Singleton DEF Init
<1>4. IdsFromSequence
  BY <1>2, IdleRequest DEF Init, IdsFromSequence
<1>5. TablesInv
  BY <1>3 DEF Init, TablesInv, Bounded, SourcesAccepted, ItemsStaged, OneExecution,
              BudgetIsAcceptedTotal, HistoryAscends
<1>6. RequestsKnow
  BY <1>2, IdleRequest
     DEF RequestsKnow, RevisionsAhead, HoldersExclude, Holding, ReadIsTotal
<1> QED BY <1>1, <1>4, <1>5, <1>6 DEF IInv

\* What a request may know when it has reached a local state.
Fits(r, new) ==
  /\ new.quote \in 0..seq.quote
  /\ new.pc \in {"copy", "send"} =>
       \A q \in quotes : q.id = new.quote => new.version > q.version
  /\ new.pc \in {"project", "read", "accept"} =>
       /\ new.name # 0
       /\ \A o \in Req \ {r} : Holding(o) => req[o].quote # new.quote
       /\ \A q \in quotes : q.id = new.quote => q.status # "accepted"
  /\ new.pc = "accept" => new.read = ItemsOf(new.quote)

\* A request that goes on with such a state and touches no version or project.
LEMMA GoOn ==
  ASSUME IInv, UNCHANGED <<projects, quotes, items, seq>>, staffed' \subseteq Nat,
         NEW r \in Req, NEW new \in Request,
         req' = [req EXCEPT ![r] = new], Fits(r, new)
  PROVE  IInv'
<1>1. TypeOK'
  BY DEF IInv, TypeOK
<1>2. req \in [Req -> Request] /\ req'[r] = new /\ \A o \in Req \ {r} : req'[o] = req[o]
  BY DEF IInv, TypeOK
<1>3. IdsFromSequence'
  BY <1>2 DEF IInv, IdsFromSequence, Fits
<1>4. TablesInv'
  BY DEF IInv, TablesInv, Bounded, SourcesAccepted, ItemsStaged, OneExecution,
         BudgetIsAcceptedTotal, HistoryAscends
<1>5. RevisionsAhead'
  BY <1>2 DEF IInv, RequestsKnow, RevisionsAhead, Fits
<1>6. HoldersExclude'
  <2>1. \A o \in Req \ {r} : Holding(o)' <=> Holding(o)
    BY <1>2 DEF Holding
  <2>2. Holding(r)' <=> new.pc \in {"project", "read", "accept"}
    BY <1>2 DEF Holding
  <2> QED BY <1>2, <2>1, <2>2 DEF IInv, RequestsKnow, HoldersExclude, Fits
<1>7. ReadIsTotal'
  <2>1. \A id : ItemsOf(id)' = ItemsOf(id)
    BY DEF ItemsOf
  <2> QED BY <1>2, <2>1 DEF IInv, RequestsKnow, ReadIsTotal, Fits
<1> QED BY <1>1, <1>3, <1>4, <1>5, <1>6, <1>7 DEF IInv, RequestsKnow

\* A request is answered.
LEMMA Answer ==
  ASSUME IInv, UNCHANGED tables, NEW r \in Req, Respond(r)
  PROVE  IInv'
<1>1. seq.quote \in Nat /\ staffed \subseteq Nat
  BY DEF IInv, TypeOK
<1>2. Fits(r, Idle)
  BY <1>1, IdleRequest DEF Fits
<1> QED BY <1>1, <1>2, IdleRequest, GoOn DEF Respond, Become, tables

\* The form of an item is opened.
LEMMA ItemStarts ==
  ASSUME IInv, NEW r \in Req, StartItem(r)
  PROVE  IInv'
<1>1. UNCHANGED tables
  BY DEF StartItem
<1>2. PICK q \in quotes : Become(r, [Idle EXCEPT !.pc = "item", !.quote = q.id])
  BY DEF StartItem
<1> DEFINE new == [Idle EXCEPT !.pc = "item", !.quote = q.id]
<1>3. q.id \in 0..seq.quote /\ seq.quote \in Nat /\ staffed \subseteq Nat
  BY DEF IInv, TypeOK, IdsFromSequence
<1>4. new \in Request /\ new.pc = "item" /\ new.quote = q.id
  <2>1. q.id \in Nat
    BY <1>3
  <2> QED BY <2>1, RequestStarts
<1>5. req' = [req EXCEPT ![r] = new]
  BY <1>2 DEF Become
<1> HIDE DEF new
<1>6. Fits(r, new)
  BY <1>3, <1>4 DEF Fits
<1> QED BY <1>1, <1>3, <1>4, <1>5, <1>6, GoOn DEF tables

\* The button of the acceptance is pressed.
LEMMA AcceptStarts ==
  ASSUME IInv, NEW r \in Req, StartAccept(r)
  PROVE  IInv'
<1>1. UNCHANGED tables
  BY DEF StartAccept
<1>2. PICK id \in {0} \cup {q.id : q \in quotes} : Become(r, [Idle EXCEPT !.pc = "lock", !.quote = id])
  BY DEF StartAccept
<1> DEFINE new == [Idle EXCEPT !.pc = "lock", !.quote = id]
<1>3. id \in 0..seq.quote /\ seq.quote \in Nat /\ staffed \subseteq Nat
  BY DEF IInv, TypeOK, IdsFromSequence
<1>4. new \in Request /\ new.pc = "lock" /\ new.quote = id
  <2>1. id \in Nat
    BY <1>3
  <2> QED BY <2>1, RequestStarts
<1>5. req' = [req EXCEPT ![r] = new]
  BY <1>2 DEF Become
<1> HIDE DEF new
<1>6. Fits(r, new)
  BY <1>3, <1>4 DEF Fits
<1> QED BY <1>1, <1>3, <1>4, <1>5, <1>6, GoOn DEF tables

-----------------------------------------------------------------------------
(* What the operators return.                                              *)

\* The next version is later than every version of the proposal.
LEMMA NextVersionAbove ==
  ASSUME quotes \subseteq QuoteRow, Bounded, NEW key
  PROVE  /\ NextVersion(key) \in Nat
         /\ \A q \in quotes : q.key = key => q.version < NextVersion(key)
<1> DEFINE S == {q.version : q \in {p \in quotes : p.key = key}} \cup {0}
<1>1. S \subseteq Nat /\ 0 \in S
  BY DEF QuoteRow
<1>2. PICK n \in Nat : \A q \in quotes : q.version <= n
  BY DEF Bounded
<1>3. \A x \in S : x <= n
  BY <1>2
<1>4. \A q \in quotes : q.key = key => q.version \in S
  OBVIOUS
<1>5. NextVersion(key) = Max(S) + 1
  BY DEF NextVersion
<1> HIDE DEF S
<1>6. Max(S) \in Nat /\ \A x \in S : x <= Max(S)
  BY <1>1, <1>2, <1>3, MaxNat
<1>7. \A q \in quotes : q.key = key => q.version \in Nat /\ q.version <= Max(S)
  BY <1>1, <1>4, <1>6
<1> QED BY <1>5, <1>6, <1>7

\* Suffixes make a number of a number.
LEMMA RevisedNumberType ==
  ASSUME NEW no \in Number, NEW n \in Nat
  PROVE  RevisedNumber(no, n) \in Number
<1> DEFINE revisions == {i \in 2..Len(no) : no[i] # Exec}
           base      == IF revisions = {} THEN no ELSE SubSeq(no, 1, Min(revisions) - 1)
<1>1. base \in Seq(Nat)
  <2>1. CASE revisions = {}
    BY <2>1 DEF Number
  <2>2. CASE revisions # {}
    <3>1. Len(no) \in Nat /\ no \in Seq(Nat)
      BY DEF Number
    <3>2. revisions \subseteq Nat
      BY <3>1
    <3>3. Min(revisions) \in revisions
      BY <2>2, <3>2, MinOf
    <3>4. Min(revisions) - 1 \in 1..Len(no)
      BY <3>1, <3>3
    <3> HIDE DEF revisions
    <3>5. SubSeq(no, 1, Min(revisions) - 1) \in Seq(Nat)
      BY <3>1, <3>4
    <3> QED BY <2>2, <3>5
  <2> QED BY <2>1, <2>2
<1>2. RevisedNumber(no, n) = Append(base, n)
  BY DEF RevisedNumber
<1> HIDE DEF base
<1> QED BY <1>1, <1>2 DEF Number

\* One of the names has not been given yet.
LEMMA FreeNameType ==
  ASSUME projects \subseteq ProjectRow, IsFiniteSet(projects)
  PROVE  FreeName \in Nat \ {0} /\ \A p \in projects : p.name # FreeName
<1> DEFINE name == [p \in projects |-> p.name]
           S    == {n \in 1..(Cardinality(projects) + 1) : \A p \in projects : p.name # n}
<1>1. PICK n \in 1..(Cardinality(projects) + 1) : \A p \in projects : name[p] # n
  <2> HIDE DEF name
  <2> QED BY FreeNumber
<1>2. Cardinality(projects) \in Nat
  BY FS_CardinalityType
<1>3. S # {} /\ S \subseteq Nat
  BY <1>1, <1>2
<1>4. Min(S) \in S
  BY <1>3, MinOf
<1>5. FreeName = Min(S)
  BY DEF FreeName
<1> QED BY <1>2, <1>4, <1>5

-----------------------------------------------------------------------------
(* Statements that only read, or whose writes show at the commit.          *)

LEMMA ItemsType == ASSUME TypeOK, NEW id PROVE ItemsOf(id) \subseteq Nat
BY DEF TypeOK, ItemRow, ItemsOf

LEMMA ReviseStarts ==
  ASSUME IInv, NEW r \in Req, StartRevise(r)
  PROVE  IInv'
<1>1. UNCHANGED tables
  BY DEF StartRevise
<1>2. PICK q \in quotes :
        Become(r, [Idle EXCEPT !.pc = "copy", !.quote = q.id, !.version = NextVersion(q.key)])
  BY DEF StartRevise
<1>3. q.id \in 0..seq.quote /\ seq.quote \in Nat /\ staffed \subseteq Nat /\ q.id \in Nat
  BY DEF IInv, TypeOK, IdsFromSequence
<1>4. NextVersion(q.key) \in Nat /\ q.version < NextVersion(q.key)
  BY NextVersionAbove DEF IInv, TypeOK, TablesInv
<1>5. \A o \in quotes : o.id = q.id => o.version = q.version
  BY DEF IInv, IdsFromSequence
<1>6. PICK version \in Nat : version = NextVersion(q.key)
  BY <1>4
<1> DEFINE new == [Idle EXCEPT !.pc = "copy", !.quote = q.id, !.version = version]
<1>7. new \in Request /\ new.pc = "copy" /\ new.quote = q.id /\ new.version = version
  BY <1>3, <1>6, IdleRequest DEF Request
<1>8. req' = [req EXCEPT ![r] = new]
  BY <1>2, <1>6 DEF Become
<1> HIDE DEF new
<1>9. q.version \in Nat
  BY DEF IInv, TypeOK, QuoteRow
<1>10. Fits(r, new)
  BY <1>3, <1>4, <1>5, <1>6, <1>7, <1>9 DEF Fits
<1> QED BY <1>1, <1>3, <1>7, <1>8, <1>10, GoOn DEF tables

\* Requests that go on from where they are.
LEMMA Goes ==
  ASSUME TypeOK, NEW r \in Req
  PROVE  /\ \A read \in SUBSET Nat :
              [req[r] EXCEPT !.pc = "send", !.read = read] \in
                {q \in Request : q.pc = "send" /\ q.quote = req[r].quote
                                  /\ q.version = req[r].version}
         /\ \A name \in Nat :
              [req[r] EXCEPT !.pc = "project", !.name = name] \in
                {q \in Request : q.pc = "project" /\ q.quote = req[r].quote /\ q.name = name}
         /\ [req[r] EXCEPT !.pc = "read"] \in
              {q \in Request : q.pc = "read" /\ q.quote = req[r].quote
                                /\ q.name = req[r].name}
         /\ \A read \in SUBSET Nat :
              [req[r] EXCEPT !.pc = "accept", !.read = read] \in
                {q \in Request : q.pc = "accept" /\ q.quote = req[r].quote
                                  /\ q.name = req[r].name /\ q.read = read}
<1>1. req[r] \in Request
  BY DEF TypeOK
<1> QED BY <1>1 DEF Request

LEMMA ReviseCopies ==
  ASSUME IInv, NEW r \in Req, ReviseCopy(r)
  PROVE  IInv'
<1>1. UNCHANGED tables /\ req[r].pc = "copy"
  BY DEF ReviseCopy
<1>2. CASE Respond(r)
  BY <1>1, <1>2, Answer
<1>3. CASE Become(r, [req[r] EXCEPT !.pc = "send", !.read = ItemsOf(req[r].quote)])
  <2>1. PICK read \in SUBSET Nat : read = ItemsOf(req[r].quote)
    BY ItemsType DEF IInv
  <2> DEFINE new == [req[r] EXCEPT !.pc = "send", !.read = read]
  <2>2. /\ new \in Request /\ new.pc = "send" /\ new.quote = req[r].quote
        /\ new.version = req[r].version
    <3>1. new \in {q \in Request : q.pc = "send" /\ q.quote = req[r].quote
                                   /\ q.version = req[r].version}
      BY Goes DEF IInv
    <3> HIDE DEF new
    <3> QED BY <3>1
  <2>3. req' = [req EXCEPT ![r] = new]
    BY <1>3, <2>1 DEF Become
  <2> HIDE DEF new
  <2>4. Fits(r, new)
    BY <1>1, <2>2 DEF Fits, IInv, IdsFromSequence, RequestsKnow, RevisionsAhead
  <2>5. staffed \subseteq Nat
    BY DEF IInv, TypeOK
  <2> QED BY <1>1, <2>2, <2>3, <2>4, <2>5, GoOn DEF tables
<1> QED BY <1>2, <1>3 DEF ReviseCopy

\* FOR UPDATE makes the request the only one to accept the version.
LEMMA AcceptLocks ==
  ASSUME IInv, NEW r \in Req, AcceptLock(r)
  PROVE  IInv'
<1>1. UNCHANGED tables /\ req[r].pc = "lock"
  BY DEF AcceptLock
<1>2. CASE Respond(r)
  BY <1>1, <1>2, Answer
<1>3. CASE /\ ~Locked(req[r].quote)
           /\ \E q \in quotes : q.id = req[r].quote /\ Acceptable(q)
           /\ Become(r, [req[r] EXCEPT !.pc = "project", !.name = FreeName])
  <2>1. FreeName \in Nat \ {0}
    BY FreeNameType DEF IInv, TypeOK, TablesInv, Bounded
  <2>2. PICK name \in Nat \ {0} : name = FreeName
    BY <2>1
  <2> DEFINE new == [req[r] EXCEPT !.pc = "project", !.name = name]
  <2>3. new \in Request /\ new.pc = "project" /\ new.quote = req[r].quote /\ new.name = name
    <3>1. name \in Nat
      OBVIOUS
    <3>2. new \in {q \in Request : q.pc = "project" /\ q.quote = req[r].quote /\ q.name = name}
      BY <3>1, Goes DEF IInv
    <3> HIDE DEF new
    <3> QED BY <3>2
  <2>4. req' = [req EXCEPT ![r] = new]
    BY <1>3, <2>2 DEF Become
  <2> HIDE DEF new
  <2>5. \A o \in Req : Holding(o) => req[o].quote # req[r].quote
    BY <1>3 DEF Locked, Holding
  <2>6. \A q \in quotes : q.id = req[r].quote => q.status # "accepted"
    BY <1>3 DEF Acceptable, IInv, IdsFromSequence
  <2>7. Fits(r, new)
    BY <2>2, <2>3, <2>5, <2>6 DEF Fits, IInv, IdsFromSequence
  <2>8. staffed \subseteq Nat
    BY DEF IInv, TypeOK
  <2> QED BY <1>1, <2>3, <2>4, <2>7, <2>8, GoOn DEF tables
<1> QED BY <1>2, <1>3 DEF AcceptLock

\* What a request that holds the lock may still rely on.
LEMMA HolderGoesOn ==
  ASSUME IInv, UNCHANGED tables, NEW r \in Req, Holding(r), NEW new \in Request,
         req' = [req EXCEPT ![r] = new], new.pc \in {"read", "accept"},
         new.quote = req[r].quote, new.name = req[r].name,
         new.pc = "accept" => new.read = ItemsOf(req[r].quote)
  PROVE  IInv'
<1>1. Fits(r, new)
  BY DEF Fits, IInv, IdsFromSequence, RequestsKnow, HoldersExclude
<1>2. staffed \subseteq Nat
  BY DEF IInv, TypeOK
<1> QED BY <1>1, <1>2, GoOn DEF tables

LEMMA AcceptReads ==
  ASSUME IInv, NEW r \in Req, AcceptProject(r) \/ AcceptRead(r)
  PROVE  IInv'
<1>1. CASE AcceptProject(r)
  <2> DEFINE new == [req[r] EXCEPT !.pc = "read"]
  <2>1. new \in {q \in Request : q.pc = "read" /\ q.quote = req[r].quote
                                /\ q.name = req[r].name}
    <3>1. TypeOK
      BY DEF IInv
    <3> QED BY <3>1, Goes
  <2>2. req' = [req EXCEPT ![r] = new] /\ UNCHANGED tables /\ Holding(r)
    BY <1>1 DEF AcceptProject, Become, Holding
  <2> HIDE DEF new
  <2> QED BY <2>1, <2>2, HolderGoesOn
<1>2. CASE AcceptRead(r)
  <2>1. PICK read \in SUBSET Nat : read = ItemsOf(req[r].quote)
    BY ItemsType DEF IInv
  <2> DEFINE new == [req[r] EXCEPT !.pc = "accept", !.read = read]
  <2>2. new \in {q \in Request : q.pc = "accept" /\ q.quote = req[r].quote
                                /\ q.name = req[r].name /\ q.read = read}
    <3>1. TypeOK
      BY DEF IInv
    <3> QED BY <3>1, Goes
  <2>3. req' = [req EXCEPT ![r] = new] /\ UNCHANGED tables /\ Holding(r)
    BY <1>2, <2>1 DEF AcceptRead, Become, Holding
  <2> HIDE DEF new
  <2> QED BY <2>1, <2>2, <2>3, HolderGoesOn
<1> QED BY <1>1, <1>2

-----------------------------------------------------------------------------
(* Versions that come.                                                     *)

\* What no change of a version touches.
SameVersion(k, q) ==
  k.id = q.id /\ k.project = q.project /\ k.version = q.version /\ k.parent = q.parent

\* A version joins the others, of which some may change their status, and an
\* item with the status of its version joins the items of the new one.
Joined(kept, new, what) ==
  /\ new \in QuoteRow /\ new.id = seq.quote + 1
  /\ new.parent \in 0..seq.quote /\ new.project \in 1..seq'.project
  /\ kept \subseteq QuoteRow
  /\ \A k \in kept : \E q \in quotes :
       SameVersion(k, q) /\ (q.status = "accepted" => k.status = "accepted")
  /\ \A k, o \in kept : k.id = o.id => k = o
  /\ quotes' = kept \cup {new}
  /\ what \subseteq Nat
  /\ items' = items \cup [quote: {seq.quote + 1}, what: what, stage: {new.status}]
  /\ seq' \in [quote: Nat, item: Nat, project: Nat]
  /\ seq'.quote = seq.quote + 1 /\ seq'.project \in {seq.project, seq.project + 1}

LEMMA JoinedIds ==
  ASSUME IInv, NEW kept, NEW new, NEW what, Joined(kept, new, what)
  PROVE  /\ seq.quote \in Nat /\ seq.project \in Nat
         /\ \A k \in kept : k.id \in 1..seq.quote
         /\ \A q \in quotes' : q.id \in 1..seq'.quote /\ q.parent \in 0..seq'.quote
                               /\ q.project \in 1..seq'.project
         /\ \A q, o \in quotes' : q.id = o.id => q = o
         /\ \A i \in items' : i.quote \in 1..seq'.quote
<1>1. seq.quote \in Nat /\ seq.project \in Nat
  BY DEF IInv, TypeOK
<1>2. \A k \in kept : /\ k.id \in 1..seq.quote /\ k.parent \in 0..seq.quote
                      /\ k.project \in 1..seq.project
  BY DEF Joined, SameVersion, IInv, IdsFromSequence
<1>3. \A q \in quotes' : q \in kept \/ q = new
  BY DEF Joined
<1>4. \A q \in quotes' : q.id \in 1..seq'.quote /\ q.parent \in 0..seq'.quote
                        /\ q.project \in 1..seq'.project
  BY <1>1, <1>2, <1>3 DEF Joined
<1>5. \A q, o \in quotes' : q.id = o.id => q = o
  BY <1>1, <1>2, <1>3 DEF Joined
<1>6. \A i \in items' : i.quote \in 1..seq'.quote
  BY <1>1 DEF Joined, IInv, IdsFromSequence
<1> QED BY <1>1, <1>2, <1>4, <1>5, <1>6

LEMMA JoinedTypes ==
  ASSUME IInv, NEW kept, NEW new, NEW what, Joined(kept, new, what)
  PROVE  /\ quotes' \subseteq QuoteRow /\ items' \subseteq ItemRow
         /\ \A id \in 0..seq.quote : \A i \in items' : i.quote = id <=> (i \in items /\ i.quote = id)
         /\ \E n \in Nat : \A q \in quotes' : q.version <= n
<1>1. seq.quote \in Nat /\ items \subseteq ItemRow
  BY DEF IInv, TypeOK
<1>2. quotes' \subseteq QuoteRow
  BY DEF Joined
<1>3. \A i \in items' : i \in items \/ i \in [quote: {seq.quote + 1}, what: what, stage: {new.status}]
  BY DEF Joined
<1>4. new.status \in Status
  BY DEF Joined, QuoteRow
<1>5. items' \subseteq ItemRow
  BY <1>1, <1>3, <1>4 DEF Joined, ItemRow
<1>6. \A id \in 0..seq.quote : \A i \in items' : i.quote = id <=> (i \in items /\ i.quote = id)
  BY <1>1, <1>3
<1>7. \E n \in Nat : \A q \in quotes' : q.version <= n
  <2>1. PICK n \in Nat : \A q \in quotes : q.version <= n
    BY DEF IInv, TablesInv, Bounded
  <2>2. new.version \in Nat
    BY DEF Joined, QuoteRow
  <2>3. \A k \in kept : k.version <= n
    BY <2>1 DEF Joined, SameVersion
  <2>4. \A k \in kept : k.version \in Nat
    BY DEF Joined, QuoteRow
  <2>5. \A q \in quotes' : q.version <= n + new.version
    BY <2>1, <2>2, <2>3, <2>4 DEF Joined
  <2>6. n + new.version \in Nat
    BY <2>2
  <2> QED BY <2>5, <2>6
<1> QED BY <1>2, <1>5, <1>6, <1>7

LEMMA JoinedTables ==
  ASSUME IInv, NEW kept, NEW new, NEW what, Joined(kept, new, what),
         \A q \in quotes : q.id = new.parent =>
           IF new.project = q.project THEN new.version > q.version ELSE new.version = q.version
  PROVE  ItemsStaged' /\ HistoryAscends'
<1>1. \A q \in quotes' : q \in kept \/ q = new
  BY DEF Joined
<1>2. ItemsStaged'
  <2> SUFFICES ASSUME NEW i \in items', NEW q \in quotes', i.quote = q.id, q.status # "accepted"
               PROVE  i.stage # "accepted"
    BY DEF ItemsStaged
  <2>1. CASE i \in items /\ q \in kept
    BY <2>1 DEF Joined, SameVersion, IInv, TablesInv, ItemsStaged
  <2>2. CASE i \in [quote: {seq.quote + 1}, what: what, stage: {new.status}]
    <3>1. i.stage = new.status /\ i.quote = new.id
      BY <2>2 DEF Joined
    <3>2. new \in quotes'
      BY DEF Joined
    <3>3. q = new
      BY <3>1, <3>2, JoinedIds
    <3> QED BY <3>1, <3>3
  <2>3. CASE i \in items /\ q = new
    <3>1. i.quote \in 1..seq.quote /\ seq.quote \in Nat /\ new.id = seq.quote + 1
      BY <2>3 DEF Joined, IInv, TypeOK, IdsFromSequence
    <3> QED BY <2>3, <3>1
  <2> QED BY <1>1, <2>1, <2>2, <2>3 DEF Joined
<1>3. HistoryAscends'
  <2> SUFFICES ASSUME NEW q \in quotes', NEW p \in quotes', q.parent = p.id
               PROVE  IF q.project = p.project THEN q.version > p.version
                      ELSE q.version = p.version
    BY DEF HistoryAscends
  <2>1. CASE q \in kept /\ p \in kept
    BY <2>1 DEF Joined, SameVersion, IInv, TablesInv, HistoryAscends
  <2>2. CASE q = new /\ p \in kept
    BY <2>2 DEF Joined, SameVersion
  <2>3. CASE p = new
    <3>1. q.parent \in 0..seq.quote /\ seq.quote \in Nat /\ new.id = seq.quote + 1
      BY <1>1 DEF Joined, SameVersion, IInv, TypeOK, IdsFromSequence
    <3> QED BY <2>3, <3>1
  <2> QED BY <1>1, <2>1, <2>2, <2>3
<1> QED BY <1>2, <1>3

\* What the requests know, of which one may be answered.
LEMMA JoinedRequests ==
  ASSUME IInv, NEW kept, NEW new, NEW what, Joined(kept, new, what),
         \/ req' = req
         \/ \E r \in Req : req' = [req EXCEPT ![r] = Idle],
         \A o \in Req, k \in kept :
           ((Holding(o))' /\ k.id = req[o].quote) => k.status # "accepted"
  PROVE  /\ req' \in [Req -> Request]
         /\ \A r \in Req : req'[r].quote \in 0..seq'.quote
         /\ RequestsKnow'
<1>1. req \in [Req -> Request] /\ seq.quote \in Nat /\ seq'.quote = seq.quote + 1
  BY DEF IInv, TypeOK, Joined
<1>2. req' \in [Req -> Request]
  BY <1>1, IdleRequest
<1>3. \A o \in Req : req'[o] \in {Idle, req[o]}
  BY <1>1
<1>4. \A o \in Req : req'[o].pc # "idle" => req'[o] = req[o]
  BY <1>3, IdleRequest
<1>5. \A r \in Req : req'[r].quote \in 0..seq.quote
  BY <1>1, <1>3, IdleRequest DEF IInv, IdsFromSequence
<1>6. \A q \in quotes' : \A o \in Req : q.id = req'[o].quote => q \in kept
  <2>1. \A q \in quotes' : q \in kept \/ q.id = seq.quote + 1
    BY DEF Joined
  <2> QED BY <1>1, <1>5, <2>1
<1>7. RevisionsAhead'
  <2> SUFFICES ASSUME NEW r \in Req, NEW q \in quotes', req'[r].pc \in {"copy", "send"},
                      q.id = req'[r].quote
               PROVE  req'[r].version > q.version
    BY DEF RevisionsAhead
  <2>1. q \in kept /\ req'[r] = req[r]
    BY <1>4, <1>6
  <2> QED BY <2>1 DEF Joined, SameVersion, IInv, RequestsKnow, RevisionsAhead
<1>8. HoldersExclude'
  <2>1. \A o \in Req : Holding(o)' => Holding(o) /\ req'[o] = req[o]
    BY <1>4 DEF Holding
  <2> SUFFICES ASSUME NEW r \in Req, Holding(r)'
               PROVE  /\ req'[r].name # 0
                      /\ \A o \in Req : (Holding(o)' /\ req'[o].quote = req'[r].quote) => o = r
                      /\ \A q \in quotes' : q.id = req'[r].quote => q.status # "accepted"
    BY DEF HoldersExclude
  <2>2. \A q \in quotes' : q.id = req'[r].quote => q.status # "accepted"
    BY <1>6, <2>1
  <2>3. /\ req[r].name # 0
        /\ \A o \in Req : (Holding(o) /\ req[o].quote = req[r].quote) => o = r
    BY <2>1 DEF IInv, RequestsKnow, HoldersExclude
  <2> QED BY <2>1, <2>2, <2>3
<1>9. ReadIsTotal'
  <2> SUFFICES ASSUME NEW r \in Req, req'[r].pc = "accept"
               PROVE  req'[r].read =
                        {i.what : i \in {j \in items' : j.quote = req'[r].quote}}
    BY DEF ReadIsTotal, ItemsOf
  <2>1. req'[r] = req[r] /\ req[r].quote \in 0..seq.quote
    BY <1>4, <1>5
  <2>2. {i \in items' : i.quote = req[r].quote} = {i \in items : i.quote = req[r].quote}
    <3>1. items \subseteq items'
      BY DEF Joined
    <3> QED BY <2>1, <3>1, JoinedTypes
  <2>3. req[r].read = ItemsOf(req[r].quote)
    BY <2>1 DEF IInv, RequestsKnow, ReadIsTotal
  <2> QED BY <2>1, <2>2, <2>3 DEF ItemsOf
<1>10. \A r \in Req : req'[r].quote \in 0..seq'.quote
  BY <1>1, <1>5
<1> QED BY <1>2, <1>7, <1>8, <1>9, <1>10 DEF RequestsKnow

\* The new version is nobody's source, and the projects stay as they are.
LEMMA JoinedSources ==
  ASSUME IInv, NEW kept, NEW new, NEW what, Joined(kept, new, what), UNCHANGED projects
  PROVE  SourcesAccepted' /\ OneExecution' /\ BudgetIsAcceptedTotal'
<1>1. \A p \in projects : p.source \in 0..seq.quote
  BY DEF IInv, IdsFromSequence
<1>2. \A p \in projects, q \in quotes' : p.source = q.id => q \in kept
  <2>1. seq.quote \in Nat /\ \A q \in quotes' : q \in kept \/ q.id = seq.quote + 1
    BY DEF Joined, IInv, TypeOK
  <2> QED BY <1>1, <2>1
<1>3. SourcesAccepted'
  BY <1>2 DEF SourcesAccepted, IInv, TablesInv, Joined, SameVersion
<1>4. OneExecution'
  BY DEF OneExecution, IInv, TablesInv
<1>5. BudgetIsAcceptedTotal'
  <2> SUFFICES ASSUME NEW p \in projects, NEW q \in quotes', p.source = q.id
               PROVE  p.budget = {i.what : i \in {j \in items' : j.quote = q.id /\ j.stage # "accepted"}}
    BY DEF BudgetIsAcceptedTotal
  <2>1. q.id \in 0..seq.quote /\ items \subseteq items'
    BY <1>1 DEF Joined
  <2>2. {j \in items' : j.quote = q.id /\ j.stage # "accepted"}
          = {j \in items : j.quote = q.id /\ j.stage # "accepted"}
    BY <2>1, JoinedTypes
  <2>3. PICK o \in quotes : o.id = q.id
    BY <1>2 DEF Joined, SameVersion
  <2>4. p.budget = {i.what : i \in {j \in items : j.quote = o.id /\ j.stage # "accepted"}}
    BY <2>3 DEF BudgetIsAcceptedTotal, IInv, TablesInv
  <2> QED BY <2>2, <2>3, <2>4
<1> QED BY <1>3, <1>4, <1>5

\* All together, for the changes that leave the projects alone.
LEMMA VersionJoins ==
  ASSUME IInv, NEW kept, NEW new, NEW what, Joined(kept, new, what),
         UNCHANGED <<projects, staffed>>,
         \A q \in quotes : q.id = new.parent =>
           IF new.project = q.project THEN new.version > q.version ELSE new.version = q.version,
         \/ req' = req
         \/ \E r \in Req : req' = [req EXCEPT ![r] = Idle],
         \A o \in Req, k \in kept :
           ((Holding(o))' /\ k.id = req[o].quote) => k.status # "accepted"
  PROVE  IInv'
<1>1. TypeOK'
  <2>1. quotes' \subseteq QuoteRow /\ items' \subseteq ItemRow
    BY JoinedTypes
  <2>2. req' \in [Req -> Request]
    BY JoinedRequests
  <2>3. projects \subseteq ProjectRow /\ staffed \subseteq Nat
    BY DEF TypeOK, IInv
  <2>4. seq' \in [quote: Nat, item: Nat, project: Nat]
    BY DEF Joined
  <2> QED BY <2>1, <2>2, <2>3, <2>4 DEF TypeOK
<1>2. IdsFromSequence'
  <2>1. \A p \in projects : p.id \in 1..seq'.project /\ p.source \in 0..seq'.quote
    <3>1. \A p \in projects : p.id \in 1..seq.project /\ p.source \in 0..seq.quote
      BY DEF IInv, IdsFromSequence
    <3>2. /\ seq.quote \in Nat /\ seq.project \in Nat /\ seq'.quote = seq.quote + 1
          /\ seq'.project \in {seq.project, seq.project + 1}
      BY DEF Joined, IInv, TypeOK
    <3> QED BY <3>1, <3>2
  <2>2. \A p, o \in projects : p.id = o.id => p = o
    BY DEF IInv, IdsFromSequence
  <2>3. projects' = projects
    OBVIOUS
  <2> QED BY <2>1, <2>2, <2>3, JoinedIds, JoinedRequests DEF IdsFromSequence
<1>3. Bounded'
  BY JoinedTypes DEF Bounded, IInv, TablesInv
<1>4. TablesInv'
  BY <1>3, JoinedTables, JoinedSources DEF TablesInv
<1> QED BY <1>1, <1>2, <1>4, JoinedRequests DEF IInv

LEMMA Creates ==
  ASSUME IInv, QuoteCreate
  PROVE  IInv'
<1>1. seq.quote \in Nat /\ seq \in [quote: Nat, item: Nat, project: Nat]
  BY DEF IInv, TypeOK
<1>2. PICK p \in projects, b \in 1..MaxBase :
        quotes' = quotes \cup {[id |-> seq.quote + 1, project |-> p.id, no |-> <<b>>,
          key |-> <<b>>, version |-> 1, parent |-> 0, status |-> "draft"]}
  BY DEF QuoteCreate
<1>3. p.id \in Nat /\ p.id \in 1..seq.project /\ <<b>> \in Number
  <2>1. b \in Nat
    BY ConstantsAssumption
  <2>2. <<b>> \in Number
    BY <2>1 DEF Number
  <2> QED BY <2>2 DEF IInv, TypeOK, IdsFromSequence
<1> DEFINE new == [id |-> seq.quote + 1, project |-> p.id, no |-> <<b>>,
                   key |-> <<b>>, version |-> 1, parent |-> 0, status |-> "draft"]
<1>4. /\ new \in QuoteRow /\ new.id = seq.quote + 1 /\ new.parent = 0
      /\ new.project = p.id
  BY <1>1, <1>3 DEF QuoteRow, Status
<1>5. quotes' = quotes \cup {new}
  BY <1>2
<1> HIDE DEF new
<1>6. seq' = [seq EXCEPT !.quote = @ + 1] /\ UNCHANGED <<projects, items, staffed, req>>
  BY DEF QuoteCreate
<1>7. seq' \in [quote: Nat, item: Nat, project: Nat] /\ seq'.quote = seq.quote + 1
      /\ seq'.project = seq.project
  BY <1>1, <1>6
<1>8. Joined(quotes, new, {})
  <2>1. quotes \subseteq QuoteRow /\ \A q, o \in quotes : q.id = o.id => q = o
    BY DEF IInv, TypeOK, IdsFromSequence
  <2>2. items' = items \cup [quote: {seq.quote + 1}, what: {}, stage: {new.status}]
    BY <1>6
  <2>3. \A k \in quotes : \E q \in quotes :
          SameVersion(k, q) /\ (q.status = "accepted" => k.status = "accepted")
    BY DEF SameVersion
  <2> QED BY <1>1, <1>3, <1>4, <1>5, <1>7, <2>1, <2>2, <2>3 DEF Joined
<1>9. \A q \in quotes : q.id # new.parent
  BY <1>4 DEF IInv, IdsFromSequence
<1>10. \A o \in Req, k \in quotes :
         ((Holding(o))' /\ k.id = req[o].quote) => k.status # "accepted"
  BY <1>6 DEF Holding, IInv, RequestsKnow, HoldersExclude
<1> QED BY <1>6, <1>8, <1>9, <1>10, VersionJoins

\* The row of a revision.
RevisionCopy(q, id, no, n) ==
  [q EXCEPT !.id = id, !.no = no, !.version = n, !.parent = q.id, !.status = "draft"]

LEMMA RevisionCopied ==
  ASSUME NEW q \in QuoteRow, NEW id \in Nat, NEW no \in Number, NEW n \in Nat
  PROVE  /\ RevisionCopy(q, id, no, n) \in QuoteRow
         /\ RevisionCopy(q, id, no, n).id = id /\ RevisionCopy(q, id, no, n).parent = q.id
         /\ RevisionCopy(q, id, no, n).project = q.project
         /\ RevisionCopy(q, id, no, n).version = n
         /\ RevisionCopy(q, id, no, n).status = "draft"
BY DEF QuoteRow, Status, RevisionCopy

\* A revision that is abandoned, or that commits.
LEMMA Revises ==
  ASSUME IInv, NEW r \in Req, ReviseCommit(r)
  PROVE  IInv'
<1> USE DEF IInv
<1>1. req' = [req EXCEPT ![r] = Idle] /\ UNCHANGED <<projects, staffed>> /\ req[r].pc = "send"
  BY DEF ReviseCommit, Respond, Become
<1>2. CASE UNCHANGED <<quotes, items, seq>>
  BY <1>1, <1>2, Answer DEF tables, Respond, Become
<1>3. CASE ~ UNCHANGED <<quotes, items, seq>>
  <2> DEFINE n == req[r].version
  <2>1. PICK q \in quotes :
          /\ q.id = req[r].quote
          /\ quotes' = (quotes \ {q}) \cup {Revised(q),
               [q EXCEPT !.id = seq.quote + 1, !.no = RevisedNumber(q.no, n), !.version = n,
                         !.parent = q.id, !.status = "draft"]}
          /\ items' = items \cup [quote: {seq.quote + 1}, what: req[r].read, stage: {"draft"}]
          /\ seq' = [seq EXCEPT !.quote = @ + 1]
    BY <1>3 DEF ReviseCommit
  <2>2. /\ req[r] \in Request /\ q \in QuoteRow /\ seq \in [quote: Nat, item: Nat, project: Nat]
        /\ q.id \in 1..seq.quote /\ q.project \in 1..seq.project
    BY DEF TypeOK, IdsFromSequence
  <2>3. n \in Nat /\ req[r].read \subseteq Nat /\ q.no \in Number
    BY <2>2 DEF Request, QuoteRow
  <2>4. PICK no \in Number : no = RevisedNumber(q.no, n)
    BY <2>3, RevisedNumberType
  <2>5. PICK id \in Nat, v \in Nat : id = seq.quote + 1 /\ v = n
    BY <2>2, <2>3
  <2> DEFINE new  == RevisionCopy(q, id, no, v)
             kept == (quotes \ {q}) \cup {Revised(q)}
  <2>6. /\ new \in QuoteRow /\ new.id = seq.quote + 1 /\ new.parent = q.id
        /\ new.project = q.project /\ new.version = n /\ new.status = "draft"
    <3>1. q \in QuoteRow
      BY <2>2
    <3>2. /\ new \in QuoteRow /\ new.id = id /\ new.parent = q.id
          /\ new.project = q.project /\ new.version = v /\ new.status = "draft"
      BY <3>1, RevisionCopied
    <3> HIDE DEF new
    <3> QED BY <3>2, <2>5
  <2>7. quotes' = kept \cup {new}
    BY <2>1, <2>4, <2>5 DEF RevisionCopy
  <2> HIDE DEF new
  <2>8. /\ Revised(q) \in QuoteRow /\ SameVersion(Revised(q), q)
        /\ Revised(q).status = "accepted" <=> q.status = "accepted"
    BY <2>2 DEF Revised, QuoteRow, Status, SameVersion
  <2>9. Joined(kept, new, req[r].read)
    <3>1. quotes \subseteq QuoteRow /\ \A k, o \in quotes : k.id = o.id => k = o
      BY DEF TypeOK, IdsFromSequence
    <3>2. kept \subseteq QuoteRow
      BY <2>8, <3>1
    <3>3. \A k \in kept : \E o \in quotes :
            SameVersion(k, o) /\ (o.status = "accepted" => k.status = "accepted")
      BY <2>8 DEF SameVersion
    <3>4. \A k, o \in kept : k.id = o.id => k = o
      BY <2>8, <3>1 DEF SameVersion
    <3>5. /\ seq' \in [quote: Nat, item: Nat, project: Nat] /\ seq'.quote = seq.quote + 1
          /\ seq'.project = seq.project
      BY <2>1, <2>2
    <3>6. new.parent \in 0..seq.quote /\ new.project \in 1..seq'.project
      BY <2>2, <2>6, <3>5
    <3> HIDE DEF kept
    <3> QED BY <2>1, <2>3, <2>6, <2>7, <3>2, <3>3, <3>4, <3>5, <3>6 DEF Joined
  <2>10. \A o \in quotes : o.id = new.parent =>
          IF new.project = o.project THEN new.version > o.version ELSE new.version = o.version
    <3>1. \A o \in quotes : o.id = new.parent => o = q
      BY <2>6 DEF IdsFromSequence
    <3>2. n > q.version
      BY <1>1, <2>1 DEF RequestsKnow, RevisionsAhead
    <3> QED BY <2>6, <3>1, <3>2
  <2>11. \A o \in Req, k \in kept :
           ((Holding(o))' /\ k.id = req[o].quote) => k.status # "accepted"
    <3>1. \A o \in Req : (Holding(o))' => Holding(o)
      BY <1>1, IdleRequest DEF Holding, TypeOK
    <3> QED BY <2>8, <3>1 DEF RequestsKnow, HoldersExclude, SameVersion
  <2> HIDE DEF kept
  <2> QED BY <1>1, <2>9, <2>10, <2>11, VersionJoins
<1> QED BY <1>2, <1>3

\* An item joins a version that nobody is accepting.
LEMMA AddsItem ==
  ASSUME IInv, NEW r \in Req, AddItem(r)
  PROVE  IInv'
<1> USE DEF IInv
<1>1. req' = [req EXCEPT ![r] = Idle] /\ UNCHANGED <<projects, quotes, staffed>>
  BY DEF AddItem, Respond, Become
<1>2. CASE UNCHANGED <<items, seq>>
  BY <1>1, <1>2, Answer DEF tables, Respond, Become
<1>3. CASE ~ UNCHANGED <<items, seq>>
  <2>1. PICK q \in quotes :
          /\ q.id = req[r].quote
          /\ items' = items \cup {[quote |-> q.id, what |-> seq.item + 1, stage |-> q.status]}
    BY <1>3 DEF AddItem
  <2>2. ~Locked(req[r].quote) /\ seq' = [seq EXCEPT !.item = @ + 1]
    BY <1>3 DEF AddItem
  <2>3. /\ q \in QuoteRow /\ seq \in [quote: Nat, item: Nat, project: Nat]
        /\ req \in [Req -> Request] /\ q.id \in 1..seq.quote
    BY DEF TypeOK, IdsFromSequence
  <2> DEFINE new == [quote |-> q.id, what |-> seq.item + 1, stage |-> q.status]
  <2>4. new.quote = q.id /\ new.stage = q.status /\ new \in ItemRow
    BY <2>3 DEF ItemRow, QuoteRow
  <2>5. items' = items \cup {new}
    BY <2>1
  <2> HIDE DEF new
  <2>6. seq' \in [quote: Nat, item: Nat, project: Nat] /\ seq'.quote = seq.quote
        /\ seq'.project = seq.project
    BY <2>2, <2>3
  <2>7. req' \in [Req -> Request] /\ \A o \in Req : req'[o] \in {Idle, req[o]}
    BY <1>1, <2>3, IdleRequest
  <2>8. TypeOK'
    BY <1>1, <2>4, <2>5, <2>6, <2>7 DEF TypeOK
  <2>9. IdsFromSequence'
    <3>1. \A i \in items' : i.quote \in 1..seq.quote
      BY <2>3, <2>4, <2>5 DEF IdsFromSequence
    <3>2. \A o \in Req : req'[o].quote \in 0..seq.quote
      BY <2>3, <2>7, IdleRequest DEF IdsFromSequence
    <3> QED BY <1>1, <2>6, <3>1, <3>2 DEF IdsFromSequence
  <2>10. ItemsStaged'
    <3>1. \A o \in quotes : o.id = q.id => o = q
      BY DEF IdsFromSequence
    <3> QED BY <1>1, <2>4, <2>5, <3>1 DEF TablesInv, ItemsStaged
  <2>11. BudgetIsAcceptedTotal'
    <3> SUFFICES ASSUME NEW p \in projects, NEW o \in quotes, p.source = o.id
                 PROVE  p.budget = {i.what : i \in {j \in items' : j.quote = o.id /\ j.stage # "accepted"}}
      BY <1>1 DEF BudgetIsAcceptedTotal
    <3>1. o.status = "accepted"
      BY DEF TablesInv, SourcesAccepted
    <3>2. o.id = q.id => o = q
      BY DEF IdsFromSequence
    <3>3. {j \in items' : j.quote = o.id /\ j.stage # "accepted"}
            = {j \in items : j.quote = o.id /\ j.stage # "accepted"}
      BY <2>4, <2>5, <3>1, <3>2
    <3> QED BY <3>3 DEF TablesInv, BudgetIsAcceptedTotal
  <2>12. TablesInv'
    BY <1>1, <2>10, <2>11
       DEF TablesInv, Bounded, SourcesAccepted, OneExecution, HistoryAscends
  <2>13. \A o \in Req : req'[o].pc # "idle" => req'[o] = req[o]
    BY <2>7, IdleRequest
  <2>14. RevisionsAhead' /\ HoldersExclude'
    <3>1. \A o \in Req : Holding(o)' => Holding(o) /\ req'[o] = req[o]
      BY <2>13 DEF Holding
    <3>2. RevisionsAhead'
      BY <1>1, <2>13 DEF RequestsKnow, RevisionsAhead
    <3>3. HoldersExclude'
      BY <1>1, <3>1 DEF RequestsKnow, HoldersExclude
    <3> QED BY <3>2, <3>3
  <2>15. ReadIsTotal'
    <3> SUFFICES ASSUME NEW o \in Req, req'[o].pc = "accept"
                 PROVE  req'[o].read = {i.what : i \in {j \in items' : j.quote = req'[o].quote}}
      BY DEF ReadIsTotal, ItemsOf
    <3>1. req'[o] = req[o] /\ req[o].pc = "accept"
      BY <2>13
    <3>2. req[o].quote # q.id
      BY <2>1, <2>2, <3>1 DEF Locked
    <3>3. {j \in items' : j.quote = req[o].quote} = {j \in items : j.quote = req[o].quote}
      BY <2>4, <2>5, <3>2
    <3> QED BY <3>1, <3>3 DEF RequestsKnow, ReadIsTotal, ItemsOf
  <2> QED BY <2>8, <2>9, <2>12, <2>14, <2>15 DEF RequestsKnow
<1> QED BY <1>2, <1>3

-----------------------------------------------------------------------------
(* Versions that go.                                                       *)

\* Versions go with their items, and perhaps with projects.
VersionsGo(ids) ==
  /\ Deletable(ids)
  /\ quotes' = WithoutParents({q \in quotes : q.id \notin ids}, ids)
  /\ items' = {i \in items : i.quote \notin ids}
  /\ projects' \subseteq projects /\ staffed' \subseteq staffed
  /\ UNCHANGED <<seq, req>>

\* What is left of a version.
LEMMA Survivors ==
  ASSUME IInv, NEW ids, VersionsGo(ids)
  PROVE  \A n \in quotes' :
           /\ n \in QuoteRow /\ n.id \notin ids
           /\ \E q \in quotes :
                /\ n = IF q.parent \in ids THEN [q EXCEPT !.parent = 0] ELSE q
                /\ n.id = q.id /\ n.project = q.project /\ n.version = q.version
                /\ n.status = q.status /\ n.parent \in {0, q.parent}
<1>1. quotes \subseteq QuoteRow
  BY DEF IInv, TypeOK
<1>2. \A q \in QuoteRow : /\ [q EXCEPT !.parent = 0] \in QuoteRow
                          /\ [q EXCEPT !.parent = 0].id = q.id
                          /\ [q EXCEPT !.parent = 0].project = q.project
                          /\ [q EXCEPT !.parent = 0].version = q.version
                          /\ [q EXCEPT !.parent = 0].status = q.status
                          /\ [q EXCEPT !.parent = 0].parent = 0
  BY DEF QuoteRow
<1> DEFINE Left(q) == IF q.parent \in ids THEN [q EXCEPT !.parent = 0] ELSE q
<1>3. quotes' = {Left(q) : q \in {x \in quotes : x.id \notin ids}}
  BY DEF VersionsGo, WithoutParents
<1>4. \A q \in quotes : /\ Left(q) \in QuoteRow /\ Left(q).id = q.id
                        /\ Left(q).project = q.project /\ Left(q).version = q.version
                        /\ Left(q).status = q.status /\ Left(q).parent \in {0, q.parent}
  BY <1>1, <1>2
<1> SUFFICES ASSUME NEW n \in quotes'
             PROVE  /\ n \in QuoteRow /\ n.id \notin ids
                    /\ \E q \in quotes :
                         /\ n = Left(q)
                         /\ n.id = q.id /\ n.project = q.project /\ n.version = q.version
                         /\ n.status = q.status /\ n.parent \in {0, q.parent}
  OBVIOUS
<1> HIDE DEF Left
<1>5. PICK q \in quotes : q.id \notin ids /\ n = Left(q)
  BY <1>3
<1> QED BY <1>4, <1>5

LEMMA VersionsGone ==
  ASSUME IInv, NEW ids, VersionsGo(ids)
  PROVE  IInv'
<1> USE DEF IInv
<1>1. /\ \A i : i \in items' <=> (i \in items /\ i.quote \notin ids)
      /\ projects' \subseteq projects /\ staffed' \subseteq staffed /\ seq' = seq /\ req' = req
  BY DEF VersionsGo
<1>2. \A n \in quotes' :
        /\ n \in QuoteRow /\ n.id \notin ids
        /\ \E q \in quotes :
             /\ n.id = q.id /\ n.project = q.project /\ n.version = q.version
             /\ n.status = q.status /\ n.parent \in {0, q.parent}
  BY Survivors
<1>3. TypeOK'
  BY <1>1, <1>2 DEF TypeOK
<1>4. IdsFromSequence'
  <2>1. \A n, o \in quotes' : n.id = o.id => n = o
    <3> SUFFICES ASSUME NEW n \in quotes', NEW o \in quotes', n.id = o.id PROVE n = o
      OBVIOUS
    <3> DEFINE Left(q) == IF q.parent \in ids THEN [q EXCEPT !.parent = 0] ELSE q
    <3>1. PICK q \in quotes : n = Left(q) /\ n.id = q.id
      BY Survivors
    <3>2. PICK p \in quotes : o = Left(p) /\ o.id = p.id
      BY Survivors
    <3>3. q = p
      BY <3>1, <3>2 DEF IdsFromSequence
    <3> QED BY <3>1, <3>2, <3>3
  <2>2. \A n \in quotes' : /\ n.id \in 1..seq.quote /\ n.parent \in 0..seq.quote
                           /\ n.project \in 1..seq.project
    <3>1. seq.quote \in Nat
      BY DEF TypeOK
    <3> QED BY <1>2, <3>1 DEF IdsFromSequence
  <2> QED BY <1>1, <2>1, <2>2 DEF IdsFromSequence
<1>5. Bounded'
  <2>1. IsFiniteSet(projects')
    BY <1>1, FS_Subset DEF TablesInv, Bounded
  <2> QED BY <1>2, <2>1 DEF TablesInv, Bounded
<1>6. SourcesAccepted'
  BY <1>1, <1>2 DEF TablesInv, SourcesAccepted
<1>7. ItemsStaged'
  BY <1>1, <1>2 DEF TablesInv, ItemsStaged
<1>8. OneExecution'
  BY <1>1 DEF TablesInv, OneExecution
<1>9. BudgetIsAcceptedTotal'
  <2> SUFFICES ASSUME NEW p \in projects', NEW n \in quotes', p.source = n.id
               PROVE  p.budget = {i.what : i \in {j \in items' : j.quote = n.id /\ j.stage # "accepted"}}
    BY DEF BudgetIsAcceptedTotal
  <2>1. {j \in items' : j.quote = n.id /\ j.stage # "accepted"}
          = {j \in items : j.quote = n.id /\ j.stage # "accepted"}
    BY <1>1, <1>2
  <2>2. PICK q \in quotes : q.id = n.id
    BY <1>2
  <2>3. p.budget = {i.what : i \in {j \in items : j.quote = q.id /\ j.stage # "accepted"}}
    BY <1>1, <2>2 DEF TablesInv, BudgetIsAcceptedTotal
  <2> QED BY <2>1, <2>2, <2>3
<1>10. HistoryAscends'
  <2> SUFFICES ASSUME NEW n \in quotes', NEW m \in quotes', n.parent = m.id
               PROVE  IF n.project = m.project THEN n.version > m.version
                      ELSE n.version = m.version
    BY DEF HistoryAscends
  <2>1. PICK q \in quotes : /\ n.project = q.project /\ n.version = q.version
                            /\ n.parent \in {0, q.parent}
    BY <1>2
  <2>2. PICK p \in quotes : m.project = p.project /\ m.version = p.version /\ m.id = p.id
    BY <1>2
  <2>3. q.parent = p.id
    BY <2>1, <2>2 DEF IdsFromSequence
  <2> QED BY <2>1, <2>2, <2>3 DEF TablesInv, HistoryAscends
<1>11. RevisionsAhead' /\ HoldersExclude'
  <2>1. \A r \in Req : Holding(r)' <=> Holding(r)
    BY <1>1 DEF Holding
  <2>2. RevisionsAhead'
    BY <1>1, <1>2 DEF RequestsKnow, RevisionsAhead
  <2>3. HoldersExclude'
    BY <1>1, <1>2, <2>1 DEF RequestsKnow, HoldersExclude
  <2> QED BY <2>2, <2>3
<1>12. ReadIsTotal'
  <2> SUFFICES ASSUME NEW r \in Req, req[r].pc = "accept"
               PROVE  req[r].read = {i.what : i \in {j \in items' : j.quote = req[r].quote}}
    BY <1>1 DEF ReadIsTotal, ItemsOf
  <2>1. req[r].quote \notin ids
    BY DEF VersionsGo, Deletable, Locked
  <2>2. {j \in items' : j.quote = req[r].quote} = {j \in items : j.quote = req[r].quote}
    BY <1>1, <2>1
  <2> QED BY <2>2 DEF RequestsKnow, ReadIsTotal, ItemsOf
<1> QED BY <1>3, <1>4, <1>5, <1>6, <1>7, <1>8, <1>9, <1>10, <1>11, <1>12
        DEF TablesInv, RequestsKnow

LEMMA DeletesVersion ==
  ASSUME IInv, QuoteDelete
  PROVE  IInv'
<1>1. PICK q \in quotes :
        /\ Deletable({q.id})
        /\ quotes' = WithoutParents(quotes \ {q}, {q.id})
        /\ items' = {i \in items : i.quote # q.id}
  BY DEF QuoteDelete
<1>2. PICK ids : ids = {q.id}
  OBVIOUS
<1>3. quotes \ {q} = {x \in quotes : x.id \notin ids}
  BY <1>2 DEF IInv, IdsFromSequence
<1>4. VersionsGo(ids)
  BY <1>1, <1>2, <1>3 DEF VersionsGo, QuoteDelete
<1> QED BY <1>4, VersionsGone

LEMMA DeletesProject ==
  ASSUME IInv, ProjectDelete
  PROVE  IInv'
<1>1. PICK p \in projects :
        LET ids == {q.id : q \in {v \in quotes : v.project = p.id}} IN
          /\ Deletable(ids)
          /\ projects' = projects \ {p}
          /\ quotes' = WithoutParents({q \in quotes : q.id \notin ids}, ids)
          /\ items' = {i \in items : i.quote \notin ids}
          /\ staffed' = staffed \ {p.id}
  BY DEF ProjectDelete
<1>2. PICK ids : ids = {q.id : q \in {v \in quotes : v.project = p.id}}
  OBVIOUS
<1>3. VersionsGo(ids)
  BY <1>1, <1>2 DEF VersionsGo, ProjectDelete
<1> QED BY <1>3, VersionsGone

\* Nothing here depends on roles and costs.
LEMMA Staffs ==
  ASSUME IInv, RoleOrCostCreate \/ RoleOrCostDelete
  PROVE  IInv'
<1>1. UNCHANGED <<projects, quotes, items, seq, req>>
  BY DEF RoleOrCostCreate, RoleOrCostDelete
<1>2. staffed' \subseteq Nat
  BY DEF RoleOrCostCreate, RoleOrCostDelete, IInv, TypeOK, ProjectRow
<1>3. TypeOK' /\ IdsFromSequence'
  BY <1>1, <1>2 DEF IInv, TypeOK, IdsFromSequence
<1>4. TablesInv'
  BY <1>1 DEF IInv, TablesInv, Bounded, SourcesAccepted, ItemsStaged, OneExecution,
              BudgetIsAcceptedTotal, HistoryAscends
<1>5. RequestsKnow'
  BY <1>1 DEF IInv, RequestsKnow, RevisionsAhead, HoldersExclude, Holding, ReadIsTotal, ItemsOf
<1> QED BY <1>3, <1>4, <1>5 DEF IInv

-----------------------------------------------------------------------------
(* The commit of an acceptance.                                            *)

\* The accepted version, its copy and its project.
LEMMA ExecutionRows ==
  ASSUME seq \in [quote: Nat, item: Nat, project: Nat], NEW q \in QuoteRow,
         NEW name \in Nat \ {0}, NEW budget \in SUBSET Nat
  PROVE  /\ ExecutionCopy(q) \in QuoteRow
         /\ ExecutionCopy(q).id = seq.quote + 1 /\ ExecutionCopy(q).project = seq.project + 1
         /\ ExecutionCopy(q).version = q.version /\ ExecutionCopy(q).parent = q.id
         /\ ExecutionCopy(q).status = "accepted"
         /\ [q EXCEPT !.status = "accepted"] \in QuoteRow
         /\ SameVersion([q EXCEPT !.status = "accepted"], q)
         /\ [q EXCEPT !.status = "accepted"].status = "accepted"
         /\ [id |-> seq.project + 1, name |-> name, source |-> q.id, budget |-> budget] \in ProjectRow
<1>1. q.no \in Number /\ q.key \in Number
  BY DEF QuoteRow
<1>2. Append(q.no, Exec) \in Number /\ Append(q.key, Exec) \in Number
  BY <1>1 DEF Number, Exec
<1>3. /\ ExecutionCopy(q) \in QuoteRow
      /\ ExecutionCopy(q).id = seq.quote + 1 /\ ExecutionCopy(q).project = seq.project + 1
      /\ ExecutionCopy(q).version = q.version /\ ExecutionCopy(q).parent = q.id
      /\ ExecutionCopy(q).status = "accepted"
  BY <1>2 DEF ExecutionCopy, QuoteRow, Status
<1>4. /\ [q EXCEPT !.status = "accepted"] \in QuoteRow
      /\ SameVersion([q EXCEPT !.status = "accepted"], q)
      /\ [q EXCEPT !.status = "accepted"].status = "accepted"
  BY DEF QuoteRow, Status, SameVersion
<1>5. [id |-> seq.project + 1, name |-> name, source |-> q.id, budget |-> budget] \in ProjectRow
  BY DEF ProjectRow, QuoteRow
<1> QED BY <1>3, <1>4, <1>5

\* The step that accepts version q for request r.
Accepts(r, q, kept, new, p) ==
  /\ Holding(r) /\ q \in quotes /\ q.id = req[r].quote /\ q.status # "accepted"
  /\ kept = (quotes \ {q}) \cup {[q EXCEPT !.status = "accepted"]}
  /\ new = ExecutionCopy(q)
  /\ Joined(kept, new, req[r].read)
  /\ p \in ProjectRow /\ p.id = seq.project + 1 /\ p.source = q.id
  /\ p.budget = ItemsOf(q.id)
  /\ projects' = projects \cup {p}
  /\ seq'.project = seq.project + 1 /\ UNCHANGED staffed
  /\ req' = [req EXCEPT ![r] = Idle]

LEMMA TwoIds ==
  ASSUME seq \in [quote: Nat, item: Nat, project: Nat],
         seq' = [seq EXCEPT !.quote = @ + 1, !.project = @ + 1]
  PROVE  /\ seq' \in [quote: Nat, item: Nat, project: Nat]
         /\ seq'.quote = seq.quote + 1 /\ seq'.project = seq.project + 1
<1>1. seq' = [quote |-> seq.quote + 1, item |-> seq.item, project |-> seq.project + 1]
  OBVIOUS
<1> QED BY <1>1

LEMMA CommitAccepts ==
  ASSUME IInv, NEW r \in Req, AcceptCommit(r)
  PROVE  \E q, kept, new, p : Accepts(r, q, kept, new, p)
<1> USE DEF IInv
<1>1. PICK q \in quotes :
        /\ q.id = req[r].quote
        /\ projects' = projects \cup {[id |-> seq.project + 1, name |-> req[r].name,
                                       source |-> q.id, budget |-> req[r].read]}
        /\ quotes' = (quotes \ {q}) \cup {[q EXCEPT !.status = "accepted"], ExecutionCopy(q)}
        /\ items' = items \cup
             [quote: {seq.quote + 1}, what: req[r].read, stage: {"accepted"}]
        /\ seq' = [seq EXCEPT !.quote = @ + 1, !.project = @ + 1]
  BY DEF AcceptCommit
<1>2. /\ req' = [req EXCEPT ![r] = Idle] /\ UNCHANGED staffed /\ Holding(r)
      /\ req[r].pc = "accept"
  BY DEF AcceptCommit, Respond, Become, Holding
<1>3. /\ req[r] \in Request /\ q \in QuoteRow /\ quotes \subseteq QuoteRow
      /\ seq \in [quote: Nat, item: Nat, project: Nat]
      /\ q.id \in 1..seq.quote /\ \A k, o \in quotes : k.id = o.id => k = o
  BY DEF TypeOK, IdsFromSequence
<1>4. PICK name \in Nat \ {0}, budget \in SUBSET Nat : name = req[r].name /\ budget = req[r].read
  BY <1>2, <1>3 DEF Request, RequestsKnow, HoldersExclude
<1> DEFINE kept == (quotes \ {q}) \cup {[q EXCEPT !.status = "accepted"]}
           new  == ExecutionCopy(q)
           p    == [id |-> seq.project + 1, name |-> name, source |-> q.id, budget |-> budget]
           acc  == [q EXCEPT !.status = "accepted"]
<1>5. /\ new \in QuoteRow /\ new.id = seq.quote + 1 /\ new.project = seq.project + 1
      /\ new.version = q.version /\ new.parent = q.id /\ new.status = "accepted"
      /\ acc \in QuoteRow /\ SameVersion(acc, q) /\ acc.status = "accepted" /\ p \in ProjectRow
  BY <1>3, ExecutionRows
<1>6. p.id = seq.project + 1 /\ p.source = q.id /\ p.budget = budget
  OBVIOUS
<1>7. kept = (quotes \ {q}) \cup {acc}
  OBVIOUS
<1>8. quotes' = kept \cup {new} /\ projects' = projects \cup {p}
  BY <1>1, <1>4
<1> HIDE DEF p, acc
<1>9. /\ seq' \in [quote: Nat, item: Nat, project: Nat] /\ seq'.quote = seq.quote + 1
      /\ seq'.project = seq.project + 1
  <2>1. seq' = [seq EXCEPT !.quote = @ + 1, !.project = @ + 1]
    BY <1>1
  <2>2. seq \in [quote: Nat, item: Nat, project: Nat]
    BY <1>3
  <2> QED BY <2>1, <2>2, TwoIds
<1>10. Joined(kept, new, req[r].read)
  <2>1. kept \subseteq QuoteRow
    BY <1>3, <1>5, <1>7
  <2>2. \A k \in kept : \E o \in quotes :
          SameVersion(k, o) /\ (o.status = "accepted" => k.status = "accepted")
    BY <1>5, <1>7 DEF SameVersion
  <2>3. \A k, o \in kept : k.id = o.id => k = o
    BY <1>3, <1>5, <1>7 DEF SameVersion
  <2>4. new.parent \in 0..seq.quote /\ new.project \in 1..seq'.project
    BY <1>3, <1>5, <1>9
  <2>5. items' = items \cup [quote: {seq.quote + 1}, what: req[r].read, stage: {new.status}]
    BY <1>1, <1>5
  <2> HIDE DEF kept, new
  <2> QED BY <1>4, <1>5, <1>8, <1>9, <2>1, <2>2, <2>3, <2>4, <2>5 DEF Joined
<1>11. q.status # "accepted" /\ budget = ItemsOf(q.id)
  BY <1>1, <1>2, <1>4 DEF RequestsKnow, HoldersExclude, ReadIsTotal
<1>12. Accepts(r, q, kept, new, p)
  BY <1>1, <1>2, <1>5, <1>6, <1>8, <1>9, <1>10, <1>11 DEF Accepts
<1> QED BY <1>12

LEMMA AcceptedTables ==
  ASSUME IInv, NEW r \in Req, NEW q, NEW kept, NEW new, NEW p, Accepts(r, q, kept, new, p)
  PROVE  TablesInv'
<1> USE DEF IInv
<1>1. /\ Joined(kept, new, req[r].read) /\ q \in quotes /\ q.status # "accepted"
      /\ p.source = q.id /\ p.budget = ItemsOf(q.id) /\ projects' = projects \cup {p}
      /\ quotes' = kept \cup {new}
  BY DEF Accepts, Joined
<1>2. /\ seq \in [quote: Nat, item: Nat, project: Nat] /\ q \in QuoteRow
      /\ q.id \in 1..seq.quote /\ q.project \in 1..seq.project
  BY <1>1 DEF TypeOK, IdsFromSequence
<1>3. /\ new.id = seq.quote + 1 /\ new.project = seq.project + 1
      /\ new.version = q.version /\ new.parent = q.id
  BY <1>2 DEF Accepts, ExecutionCopy
<1>4. ItemsStaged' /\ HistoryAscends'
  <2>1. \A o \in quotes : o.id = new.parent =>
          IF new.project = o.project THEN new.version > o.version ELSE new.version = o.version
    <3>1. \A o \in quotes : o.id = new.parent => o = q
      BY <1>1, <1>3 DEF IdsFromSequence
    <3>2. new.project # q.project
      BY <1>2, <1>3
    <3> QED BY <1>3, <3>1, <3>2
  <2> QED BY <1>1, <2>1, JoinedTables
<1>5. Bounded'
  <2>1. IsFiniteSet(projects')
    BY <1>1, FS_AddElement DEF TablesInv, Bounded
  <2> QED BY <1>1, <2>1, JoinedTypes DEF Bounded
<1>6. \A o \in projects : o.source # q.id /\ o.source \in 0..seq.quote
  BY <1>1 DEF TablesInv, SourcesAccepted, IdsFromSequence
<1>7. OneExecution'
  BY <1>1, <1>6 DEF TablesInv, OneExecution
<1>8. \A o \in projects', x \in quotes' : o.source = x.id => x \in kept
  BY <1>1, <1>2, <1>3, <1>6
<1>9. \A x \in kept : x.id = q.id => x.status = "accepted"
  BY <1>2 DEF Accepts, IdsFromSequence, QuoteRow
<1>10. SourcesAccepted'
  BY <1>1, <1>6, <1>8, <1>9 DEF TablesInv, SourcesAccepted, Joined, SameVersion
<1>11. BudgetIsAcceptedTotal'
  <2> SUFFICES ASSUME NEW o \in projects', NEW x \in quotes', o.source = x.id
               PROVE  o.budget = {i.what : i \in {j \in items' : j.quote = x.id /\ j.stage # "accepted"}}
    BY DEF BudgetIsAcceptedTotal
  <2>1. x.id \in 0..seq.quote /\ items \subseteq items'
    BY <1>1, <1>2, <1>6 DEF Joined
  <2>2. {j \in items' : j.quote = x.id /\ j.stage # "accepted"}
          = {j \in items : j.quote = x.id /\ j.stage # "accepted"}
    BY <1>1, <2>1, JoinedTypes
  <2>3. CASE o \in projects
    <3>1. PICK y \in quotes : y.id = x.id
      BY <1>8, <1>1 DEF Joined, SameVersion
    <3>2. o.budget = {i.what : i \in {j \in items : j.quote = y.id /\ j.stage # "accepted"}}
      BY <2>3, <3>1 DEF TablesInv, BudgetIsAcceptedTotal
    <3> QED BY <2>2, <3>1, <3>2
  <2>4. CASE o = p
    <3>1. {j \in items : j.quote = q.id /\ j.stage # "accepted"} = {j \in items : j.quote = q.id}
      BY <1>1 DEF TablesInv, ItemsStaged
    <3> QED BY <1>1, <2>2, <2>4, <3>1 DEF ItemsOf
  <2> QED BY <1>1, <2>3, <2>4
<1> QED BY <1>4, <1>5, <1>7, <1>10, <1>11 DEF TablesInv

LEMMA Accepted ==
  ASSUME IInv, NEW r \in Req, AcceptCommit(r)
  PROVE  IInv'
<1>1. PICK q, kept, new, p : Accepts(r, q, kept, new, p)
  BY CommitAccepts
<1>2. /\ Joined(kept, new, req[r].read) /\ q \in quotes /\ q.id = req[r].quote
      /\ projects' = projects \cup {p} /\ p \in ProjectRow /\ p.id = seq.project + 1
      /\ p.source = q.id /\ req' = [req EXCEPT ![r] = Idle] /\ Holding(r)
      /\ kept = (quotes \ {q}) \cup {[q EXCEPT !.status = "accepted"]}
      /\ staffed' = staffed
  BY <1>1 DEF Accepts
<1>3. /\ seq \in [quote: Nat, item: Nat, project: Nat] /\ q.id \in 1..seq.quote
      /\ q \in QuoteRow
  BY <1>2 DEF IInv, TypeOK, IdsFromSequence
<1>4. seq'.project = seq.project + 1 /\ seq'.quote = seq.quote + 1
      /\ seq' \in [quote: Nat, item: Nat, project: Nat]
  BY <1>1 DEF Accepts, Joined
<1>5. /\ req' \in [Req -> Request]
      /\ \A o \in Req : req'[o].quote \in 0..seq'.quote
      /\ RequestsKnow'
  <2>1. \A o \in Req : (Holding(o))' => Holding(o) /\ o # r
    BY <1>2, IdleRequest DEF Holding, IInv, TypeOK
  <2>2. \A o \in Req : (Holding(o))' => req[o].quote # q.id
    BY <1>2, <2>1 DEF IInv, RequestsKnow, HoldersExclude
  <2>3. \A k \in kept : k \in quotes \/ k.id = q.id
    BY <1>2, <1>3 DEF QuoteRow
  <2>4. \A o \in Req, k \in kept :
          ((Holding(o))' /\ k.id = req[o].quote) => k.status # "accepted"
    BY <2>1, <2>2, <2>3 DEF IInv, RequestsKnow, HoldersExclude
  <2> QED BY <1>2, <2>4, JoinedRequests
<1>6. TypeOK'
  <2>1. quotes' \subseteq QuoteRow /\ items' \subseteq ItemRow
    BY <1>2, JoinedTypes
  <2> QED BY <1>2, <1>4, <1>5, <2>1 DEF IInv, TypeOK
<1>7. IdsFromSequence'
  <2>1. \A o \in projects' : o.id \in 1..seq'.project /\ o.source \in 0..seq'.quote
    BY <1>2, <1>3, <1>4 DEF IInv, IdsFromSequence
  <2>2. \A o, x \in projects' : o.id = x.id => o = x
    BY <1>2, <1>3 DEF IInv, IdsFromSequence
  <2>3. /\ \A x \in quotes' : x.id \in 1..seq'.quote /\ x.parent \in 0..seq'.quote
                            /\ x.project \in 1..seq'.project
        /\ \A x, o \in quotes' : x.id = o.id => x = o
        /\ \A i \in items' : i.quote \in 1..seq'.quote
    BY <1>2, JoinedIds
  <2> QED BY <1>5, <2>1, <2>2, <2>3 DEF IdsFromSequence
<1> QED BY <1>1, <1>5, <1>6, <1>7, AcceptedTables DEF IInv

-----------------------------------------------------------------------------
(* The theorems.                                                           *)

LEMMA NextIInv == IInv /\ [Next]_vars => IInv'
<1> SUFFICES ASSUME IInv, [Next]_vars PROVE IInv'
  OBVIOUS
<1>1. ASSUME NEW r \in Req, StartItem(r) \/ AddItem(r) PROVE IInv'
  BY <1>1, ItemStarts, AddsItem
<1>2. ASSUME NEW r \in Req, StartRevise(r) \/ ReviseCopy(r) \/ ReviseCommit(r) PROVE IInv'
  BY <1>2, ReviseStarts, ReviseCopies, Revises
<1>3. ASSUME NEW r \in Req, StartAccept(r) \/ AcceptLock(r) \/ AcceptProject(r) \/ AcceptRead(r)
      PROVE IInv'
  BY <1>3, AcceptStarts, AcceptLocks, AcceptReads
<1>4. ASSUME NEW r \in Req, AcceptCommit(r) PROVE IInv'
  BY <1>4, Accepted
<1>5. ASSUME NEW r \in Req, AcceptNameTaken(r) \/ AcceptRefused(r) \/ RequestFails(r) PROVE IInv'
  BY <1>5, Answer DEF AcceptNameTaken, AcceptRefused, RequestFails
<1>6. CASE QuoteCreate \/ QuoteDelete \/ ProjectDelete
  BY <1>6, Creates, DeletesVersion, DeletesProject
<1>7. CASE RoleOrCostCreate \/ RoleOrCostDelete
  BY <1>7, Staffs
<1>8. CASE UNCHANGED vars
  <2>1. TypeOK' /\ IdsFromSequence'
    BY <1>8 DEF vars, IInv, TypeOK, IdsFromSequence
  <2>2. TablesInv'
    BY <1>8 DEF vars, IInv, TablesInv, Bounded, SourcesAccepted, ItemsStaged, OneExecution,
                BudgetIsAcceptedTotal, HistoryAscends
  <2>3. RequestsKnow'
    BY <1>8 DEF vars, IInv, RequestsKnow, RevisionsAhead, HoldersExclude, Holding, ReadIsTotal,
                ItemsOf
  <2> QED BY <2>1, <2>2, <2>3 DEF IInv
<1> QED BY <1>1, <1>2, <1>3, <1>4, <1>5, <1>6, <1>7, <1>8 DEF Next

LEMMA Invariance == Spec => []IInv
BY InitIInv, NextIInv, PTL DEF Spec

\* All tables and requests keep their types; in particular the suffix that makes
\* the name of an execution project unique is always found (models/management.go).
THEOREM TypeCorrect == Spec => []TypeOK
<1>1. IInv => TypeOK
  BY DEF IInv
<1> QED BY <1>1, Invariance, PTL

\* management.go:223: of any number of requests that accept a version at once,
\* one at most makes an execution project of it.
THEOREM ExecutedOnce == Spec => []OneExecution
<1>1. IInv => OneExecution
  BY DEF IInv, TablesInv
<1> QED BY <1>1, Invariance, PTL

\* management.go:202: the budget of an execution project is what its version
\* contained when it was accepted, whatever was added to it before or after.
THEOREM BudgetAsAccepted == Spec => []BudgetIsAcceptedTotal
<1>1. IInv => BudgetIsAcceptedTotal
  BY DEF IInv, TablesInv
<1> QED BY <1>1, Invariance, PTL

\* management.go:174: versions ascend along the revisions of a proposal, and an
\* execution copy has the version it was made from.
THEOREM VersionsAscend == Spec => []HistoryAscends
<1>1. IInv => HistoryAscends
  BY DEF IInv, TablesInv
<1> QED BY <1>1, Invariance, PTL

-----------------------------------------------------------------------------
(* Proposals implements LifeCycle.                                         *)

View(q) == [id |-> q.id, stage |-> q.status, before |-> q.parent]

\* Versions are seen by their ids.
LEMMA Views ==
  ASSUME IInv
  PROVE  /\ VersionsOf = {View(q) : q \in quotes}
         /\ VersionsOf' = {View(q) : q \in quotes'}
         /\ \A q, o \in quotes : View(q) = View(o) => q = o
         /\ \A q \in quotes : View(q).id = q.id /\ View(q).stage = q.status /\ View(q).before = q.parent
BY DEF IInv, IdsFromSequence, VersionsOf, View

Quiet == UNCHANGED <<seq.quote, VersionsOf, MadeBy>>

\* An action of the abstract specification, or nothing that it sees.
LifeStep ==
  \/ Quiet
  \/ Life!Write
  \/ \E v \in VersionsOf : Life!Revise(v) \/ Life!AcceptInto(v) \/ Life!AcceptAgain(v) \/ Life!Delete(v)
  \/ Life!Drop

LEMMA LifeSteps == LifeStep => [Life!LifeNext]_(Life!lifeVars)
BY DEF LifeStep, Quiet, Life!LifeNext, Life!lifeVars

LEMMA QuietLives ==
  ASSUME UNCHANGED <<quotes, projects>>, seq'.quote = seq.quote
  PROVE  LifeStep
BY DEF LifeStep, Quiet, VersionsOf, MadeBy

\* A new version was made from nothing.
LEMMA CreateLives ==
  ASSUME IInv, QuoteCreate
  PROVE  LifeStep
<1>1. seq \in [quote: Nat, item: Nat, project: Nat]
  BY DEF IInv, TypeOK
<1>2. PICK new : /\ quotes' = quotes \cup {new}
                 /\ new.id = seq.quote + 1 /\ new.status = "draft" /\ new.parent = 0
  <2> DEFINE Draft(id, b) == [id |-> seq.quote + 1, project |-> id, no |-> <<b>>,
                              key |-> <<b>>, version |-> 1, parent |-> 0, status |-> "draft"]
  <2>1. PICK id, b : quotes' = quotes \cup {Draft(id, b)}
    BY DEF QuoteCreate
  <2>2. /\ Draft(id, b).id = seq.quote + 1
        /\ Draft(id, b).status = "draft" /\ Draft(id, b).parent = 0
    OBVIOUS
  <2> HIDE DEF Draft
  <2> QED BY <2>1, <2>2
<1>3. seq'.quote = seq.quote + 1 /\ MadeBy' = MadeBy
  BY <1>1 DEF QuoteCreate, MadeBy
<1>4. VersionsOf' = VersionsOf \cup {View(new)}
  BY <1>2, Views
<1>5. Life!Write
  BY <1>2, <1>3, <1>4 DEF Life!Write, Life!Version, View
<1> QED BY <1>5 DEF LifeStep

\* A version makes place for itself and another one.
LEMMA ViewsReplaced ==
  ASSUME IInv, NEW q \in quotes, NEW old, NEW new,
         quotes' = (quotes \ {q}) \cup {old, new}
  PROVE  VersionsOf' = (VersionsOf \ {View(q)}) \cup {View(old), View(new)}
<1>1. \A o \in quotes : View(o) = View(q) => o = q
  BY Views
<1>2. VersionsOf = {View(x) : x \in quotes} /\ VersionsOf' = {View(x) : x \in quotes'}
  BY Views
<1> QED BY <1>1, <1>2

\* A revision sends the draft that it revises.
LEMMA ReviseLives ==
  ASSUME IInv, NEW r \in Req, ReviseCommit(r)
  PROVE  LifeStep
<1>1. CASE UNCHANGED <<quotes, items, seq>>
  BY <1>1, QuietLives DEF ReviseCommit
<1>2. CASE ~ UNCHANGED <<quotes, items, seq>>
  <2>1. PICK q \in quotes :
          /\ quotes' = (quotes \ {q}) \cup {Revised(q),
               RevisionCopy(q, seq.quote + 1, RevisedNumber(q.no, req[r].version), req[r].version)}
          /\ seq' = [seq EXCEPT !.quote = @ + 1]
    BY <1>2 DEF ReviseCommit, RevisionCopy
  <2>2. PICK old, new, v :
          /\ old = Revised(q) /\ v = View(q)
          /\ new = RevisionCopy(q, seq.quote + 1, RevisedNumber(q.no, req[r].version), req[r].version)
    OBVIOUS
  <2>3. q \in QuoteRow /\ seq \in [quote: Nat, item: Nat, project: Nat]
    BY DEF IInv, TypeOK
  <2>4. View(old) = [v EXCEPT !.stage = IF @ = "draft" THEN "sent" ELSE @]
    BY <2>2, <2>3 DEF View, Revised, QuoteRow
  <2>5. View(new) = [id |-> seq.quote + 1, stage |-> "draft", before |-> v.id]
    BY <2>2, <2>3 DEF View, RevisionCopy, QuoteRow
  <2>6. quotes' = (quotes \ {q}) \cup {old, new}
    BY <2>1, <2>2
  <2>7. VersionsOf' = (VersionsOf \ {v}) \cup {View(old), View(new)}
    BY <2>2, <2>6, ViewsReplaced
  <2>8. seq'.quote = seq.quote + 1 /\ MadeBy' = MadeBy /\ v \in VersionsOf
    BY <2>1, <2>2, <2>3, Views DEF ReviseCommit, MadeBy
  <2>9. Life!Revise(v)
    BY <2>4, <2>5, <2>7, <2>8 DEF Life!Revise, Life!Version
  <2> QED BY <2>8, <2>9 DEF LifeStep
<1> QED BY <1>1, <1>2

\* An acceptance is recorded in a copy, and makes the first project of its version.
LEMMA AcceptLives ==
  ASSUME IInv, NEW r \in Req, AcceptCommit(r)
  PROVE  LifeStep
<1>1. PICK q, kept, new, p : Accepts(r, q, kept, new, p)
  BY CommitAccepts
<1>2. /\ q \in quotes /\ q.status # "accepted" /\ new = ExecutionCopy(q)
      /\ kept = (quotes \ {q}) \cup {[q EXCEPT !.status = "accepted"]}
      /\ quotes' = kept \cup {new} /\ seq'.quote = seq.quote + 1
      /\ projects' = projects \cup {p} /\ p.id = seq.project + 1 /\ p.source = q.id
  BY <1>1 DEF Accepts, Joined
<1>3. q \in QuoteRow /\ seq \in [quote: Nat, item: Nat, project: Nat] /\ q.id \in 1..seq.quote
  BY <1>2 DEF IInv, TypeOK, IdsFromSequence
<1>4. PICK old, v : old = [q EXCEPT !.status = "accepted"] /\ v = View(q)
  OBVIOUS
<1>5. View(old) = [v EXCEPT !.stage = "accepted"]
  BY <1>3, <1>4 DEF View, QuoteRow
<1>6. View(new) = [id |-> seq.quote + 1, stage |-> "accepted", before |-> v.id]
  BY <1>2, <1>4 DEF View, ExecutionCopy
<1>7. VersionsOf' = (VersionsOf \ {v}) \cup {View(old), View(new)}
  BY <1>2, <1>4, ViewsReplaced
<1>8. v \in VersionsOf /\ v.id = q.id /\ v.stage \in {"draft", "sent"}
  BY <1>2, <1>3, <1>4, Views DEF QuoteRow, Status
<1>9. PICK m : m = <<q.id, p.id>>
  OBVIOUS
<1>10. MadeBy' = MadeBy \cup {m}
  BY <1>2, <1>3, <1>9 DEF MadeBy
<1>11. \A n \in MadeBy : n[1] # v.id /\ n[2] # m[2]
  <2> SUFFICES ASSUME NEW n \in MadeBy PROVE n[1] # q.id /\ n[2] # p.id
    BY <1>8, <1>9
  <2>1. PICK x \in projects : n = <<x.source, x.id>>
    BY DEF MadeBy
  <2>2. x.source # q.id
    BY <1>2 DEF IInv, TablesInv, SourcesAccepted
  <2>3. x.id # p.id
    BY <1>2, <1>3 DEF IInv, IdsFromSequence
  <2> QED BY <2>1, <2>2, <2>3
<1>12. m \in MadeBy' /\ m[1] = v.id /\ MadeBy' \ {m} = MadeBy
  BY <1>8, <1>9, <1>10, <1>11
<1>13. Life!AcceptInto(v)
  BY <1>2, <1>5, <1>6, <1>7, <1>8, <1>11, <1>12 DEF Life!AcceptInto, Life!Accepted, Life!Version
<1> QED BY <1>8, <1>13 DEF LifeStep

\* Deleted versions leave orphans.
LEMMA GoneViews ==
  ASSUME IInv, NEW ids, VersionsGo(ids), ids \subseteq {q.id : q \in quotes},
         NEW vs, vs = {View(q) : q \in {x \in quotes : x.id \in ids}}
  PROVE  vs \subseteq VersionsOf /\ VersionsOf' = Life!Without(vs)
<1> DEFINE Orphan(x) == IF x.parent \in ids THEN [x EXCEPT !.parent = 0] ELSE x
           Bereft(v) == IF v.before \in ids THEN [v EXCEPT !.before = 0] ELSE v
<1>1. /\ VersionsOf = {View(x) : x \in quotes} /\ VersionsOf' = {View(x) : x \in quotes'}
      /\ \A q, o \in quotes : View(q) = View(o) => q = o
      /\ \A q \in quotes : View(q).id = q.id
  BY Views
<1>2. \A x \in quotes : View(Orphan(x)) = Bereft(View(x))
  <2>1. quotes \subseteq QuoteRow
    BY DEF IInv, TypeOK
  <2> QED BY <2>1 DEF View, QuoteRow
<1>3. quotes' = {Orphan(x) : x \in {y \in quotes : y.id \notin ids}}
  BY DEF VersionsGo, WithoutParents
<1> HIDE DEF Orphan
<1>4. VersionsOf \ vs = {View(x) : x \in {y \in quotes : y.id \notin ids}}
  BY <1>1
<1>5. {v.id : v \in vs} = ids
  BY <1>1
<1>6. Life!Without(vs) = {Bereft(v) : v \in VersionsOf \ vs}
  BY <1>5 DEF Life!Without
<1> HIDE DEF Bereft
<1>7. VersionsOf' = {Bereft(v) : v \in VersionsOf \ vs}
  BY <1>1, <1>2, <1>3, <1>4
<1> QED BY <1>1, <1>6, <1>7

LEMMA DeleteLives ==
  ASSUME IInv, QuoteDelete
  PROVE  LifeStep
<1>1. PICK q \in quotes :
        /\ Deletable({q.id})
        /\ quotes' = WithoutParents(quotes \ {q}, {q.id})
        /\ items' = {i \in items : i.quote # q.id}
  BY DEF QuoteDelete
<1>2. PICK ids, v, vs : ids = {q.id} /\ v = View(q) /\ vs = {v}
  OBVIOUS
<1>3. quotes \ {q} = {x \in quotes : x.id \notin ids} /\ {x \in quotes : x.id \in ids} = {q}
  BY <1>2 DEF IInv, IdsFromSequence
<1>4. VersionsGo(ids)
  BY <1>1, <1>2, <1>3 DEF VersionsGo, QuoteDelete
<1>5. vs = {View(x) : x \in {y \in quotes : y.id \in ids}}
  BY <1>2, <1>3
<1>6. v \in VersionsOf /\ VersionsOf' = Life!Without({v})
  BY <1>2, <1>4, <1>5, GoneViews
<1>7. v.stage \in Status /\ seq' = seq /\ MadeBy' = MadeBy
  BY <1>2, Views DEF QuoteDelete, MadeBy, IInv, TypeOK, QuoteRow
<1>8. Life!Delete(v)
  BY <1>6, <1>7 DEF Life!Delete
<1> QED BY <1>6, <1>8 DEF LifeStep

\* With a project go its versions.
LEMMA ProjectLives ==
  ASSUME IInv, ProjectDelete
  PROVE  LifeStep
<1>1. PICK p \in projects :
        LET ids == {q.id : q \in {v \in quotes : v.project = p.id}} IN
          /\ Deletable(ids)
          /\ projects' = projects \ {p}
          /\ quotes' = WithoutParents({q \in quotes : q.id \notin ids}, ids)
          /\ items' = {i \in items : i.quote \notin ids}
          /\ staffed' = staffed \ {p.id}
  BY DEF ProjectDelete
<1>2. PICK ids : ids = {q.id : q \in {v \in quotes : v.project = p.id}}
  OBVIOUS
<1>3. VersionsGo(ids)
  BY <1>1, <1>2 DEF VersionsGo, ProjectDelete
<1>4. PICK vs : vs = {View(q) : q \in {x \in quotes : x.id \in ids}}
  OBVIOUS
<1>5. vs \subseteq VersionsOf /\ VersionsOf' = Life!Without(vs)
  BY <1>2, <1>3, <1>4, GoneViews
<1>6. p.id \in 1..seq.project /\ \A x \in projects : x.id = p.id => x = p
  BY DEF IInv, IdsFromSequence
<1>7. MadeBy' = {m \in MadeBy : m[2] # p.id}
  BY <1>1, <1>6 DEF MadeBy
<1>8. \E x \in {0} \cup {m[2] : m \in MadeBy} : MadeBy' = {m \in MadeBy : m[2] # x}
  <2>1. CASE p.source = 0
    <3>1. \A x \in projects : x.id # 0
      BY DEF IInv, IdsFromSequence
    <3>2. \A m \in MadeBy : m[2] # p.id /\ m[2] # 0
      BY <1>6, <2>1, <3>1 DEF MadeBy
    <3> QED BY <1>7, <3>2
  <2>2. CASE p.source # 0
    <3>1. <<p.source, p.id>> \in MadeBy
      BY <2>2 DEF MadeBy
    <3>2. PICK m \in MadeBy : m[2] = p.id
      BY <3>1
    <3> QED BY <1>7, <3>2
  <2> QED BY <2>1, <2>2
<1>9. seq' = seq
  BY DEF ProjectDelete
<1>10. Life!Drop
  BY <1>5, <1>8, <1>9 DEF Life!Drop
<1> QED BY <1>10 DEF LifeStep

\* Every step is a step of the life cycle, or one that it does not see.
LEMMA NextLives == IInv /\ [Next]_vars => LifeStep
<1> SUFFICES ASSUME IInv, [Next]_vars PROVE LifeStep
  OBVIOUS
<1>1. CASE UNCHANGED <<quotes, projects, seq>>
  BY <1>1, QuietLives
<1>2. ASSUME NEW r \in Req, AddItem(r) PROVE LifeStep
  <2>1. seq'.quote = seq.quote
    BY <1>2 DEF AddItem, IInv, TypeOK
  <2> QED BY <1>2, <2>1, QuietLives DEF AddItem
<1> QED BY <1>1, <1>2, ReviseLives, AcceptLives, CreateLives, DeleteLives, ProjectLives
        DEF Next, vars, tables, StartItem, StartRevise, ReviseCopy, StartAccept, AcceptLock,
            AcceptProject, AcceptNameTaken, AcceptRead, AcceptRefused, RequestFails,
            RoleOrCostCreate, RoleOrCostDelete

\* management.go:192 and 384: the statements of any number of overlapping acceptances,
\* revisions and deletions add up to whole steps of the life of single versions.
THEOREM LifeCycleImplemented == Spec => ImplementsLifeCycle
<1>1. Init => Life!LifeInit
  BY DEF Init, Life!LifeInit, VersionsOf, MadeBy
<1>2. IInv /\ [Next]_vars => [Life!LifeNext]_(Life!lifeVars)
  BY NextLives, LifeSteps
<1> QED BY <1>1, <1>2, Invariance, PTL DEF Spec, ImplementsLifeCycle, Life!LifeSpec
=============================================================================
