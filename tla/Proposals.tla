------------------------------ MODULE Proposals ------------------------------
(***************************************************************************)
(* The proposal workspace of a project (internal/models/management.go,     *)
(* internal/handlers/management.go, internal/mcp/management.go): versions  *)
(* of a proposal, and the transaction that turns an accepted version into  *)
(* an execution project.                                                   *)
(*                                                                         *)
(* Acceptance holds its version FOR UPDATE; the insertion of a revision or *)
(* of an item holds it FOR KEY SHARE for its foreign key.  A statement     *)
(* that has to wait for a lock is an action that is not enabled.  What a   *)
(* transaction writes appears at its commit; of two transactions that      *)
(* insert the same number either one may fail, where in the database it is *)
(* the second to insert it.                                                *)
(*                                                                         *)
(* An item is a value, a total is the set of the items it was summed from; *)
(* discount and tax do not change.  Time entries and receivables, which no *)
(* decision depends on, are left out; so are projects that are created     *)
(* elsewhere, which matter by their names alone.                           *)
(***************************************************************************)
EXTENDS Integers, Sequences, FiniteSets, FiniteSetsExt

CONSTANTS
  Req,          \* request goroutines
  MaxBase,      \* bound: numbers that users type
  MaxQuote,     \* bound: versions ever created
  MaxItem,      \* bound: items ever typed
  MaxProject,   \* bound: projects ever created
  MaxStaffed    \* bound: projects with roles or costs at a time

ASSUME ConstantsAssumption ==
  /\ MaxBase \in Nat /\ MaxQuote \in Nat /\ MaxItem \in Nat
  /\ MaxProject \in Nat \ {0} /\ MaxStaffed \in Nat

VARIABLES
  projects,   \* rows of projects, with their budget
  quotes,     \* rows of project_quotes
  items,      \* rows of project_quote_items
  staffed,    \* projects with a role, or with a cost of more than nothing
  seq,        \* last id of each table
  req         \* local state of each request

tables == <<projects, quotes, items, staffed, seq>>
vars == <<projects, quotes, items, staffed, seq, req>>

\* A number is what was typed followed by its suffixes: Exec stands for
\* "-EXEC", n > 1 for "-Rn".
Exec == 0
Number == Seq(Nat)

Status == {"draft", "sent", "accepted"}

QuoteRow == [id: Nat, project: Nat, no: Number, key: Number, version: Nat,
             parent: Nat, status: Status]

ItemRow ==
  [quote: Nat, what: Nat,
   stage: Status]     \* history: what its version was when the item joined it

ProjectRow ==
  [id: Nat,
   name: Nat \ {0},   \* 1 is the name all ask for, n > 1 the same name followed by " (n)"
   source: Nat,       \* history: the accepted version, or 0
   budget: SUBSET Nat]

Request ==
  [pc: {"idle",
        "item",       \* next: INSERT of an item into a version seen as draft
        "copy",       \* next: INSERT of the revision and of copies of the items
        "send",       \* next: UPDATE of the old version and COMMIT
        "lock",       \* next: SELECT ... FOR UPDATE of an acceptance
        "project",    \* next: INSERT of the execution project
        "read",       \* next: SELECT of the items
        "accept"},    \* next: the copies and COMMIT
   quote: Nat, version: Nat, name: Nat, read: SUBSET Nat]

Idle == [pc |-> "idle", quote |-> 0, version |-> 0, name |-> 0, read |-> {}]

TypeOK ==
  /\ projects \subseteq ProjectRow
  /\ quotes \subseteq QuoteRow
  /\ items \subseteq ItemRow
  /\ staffed \subseteq Nat
  /\ seq \in [quote: Nat, item: Nat, project: Nat]
  /\ req \in [Req -> Request]

\* One project to make proposals in.
Init ==
  /\ projects = {[id |-> 1, name |-> 1, source |-> 0, budget |-> {}]}
  /\ quotes = {} /\ items = {} /\ staffed = {}
  /\ seq = [quote |-> 0, item |-> 0, project |-> 1]
  /\ req = [r \in Req |-> Idle]

Become(r, state) == req' = [req EXCEPT ![r] = state]
Respond(r) == Become(r, Idle)

ItemsOf(id) == {i.what : i \in {j \in items : j.quote = id}}

\* quote_no, and proposal_key with version_no, are unique.
NumberFree(no, key, version) ==
  \A q \in quotes : q.no # no /\ <<q.key, q.version>> # <<key, version>>

-----------------------------------------------------------------------------
(* Row locks.                                                              *)

\* Slip: a SELECT without FOR UPDATE.
SlipLocked(id) == FALSE

\* An acceptance holds the version FOR UPDATE.
Locked(id) == \E r \in Req : req[r].pc \in {"project", "read", "accept"} /\ req[r].quote = id

\* The foreign key of an uncommitted revision holds its parent FOR KEY SHARE.
KeyShared(id) == \E r \in Req : req[r].pc = "send" /\ req[r].quote = id

\* Versions can be deleted, and their children's parents set to NULL.
Deletable(ids) ==
  /\ \A id \in ids : ~Locked(id) /\ ~KeyShared(id)
  /\ \A q \in quotes : q.parent \in ids => ~Locked(q.id)

WithoutParents(rows, ids) ==
  {IF q.parent \in ids THEN [q EXCEPT !.parent = 0] ELSE q : q \in rows}

-----------------------------------------------------------------------------
(* Versions and items.                                                     *)

QuoteCreate ==
  /\ seq.quote < MaxQuote
  /\ \E p \in projects, b \in 1..MaxBase :
       /\ NumberFree(<<b>>, <<b>>, 1)
       /\ quotes' = quotes \cup {[id |-> seq.quote + 1, project |-> p.id, no |-> <<b>>,
            key |-> <<b>>, version |-> 1, parent |-> 0, status |-> "draft"]}
  /\ seq' = [seq EXCEPT !.quote = @ + 1]
  /\ UNCHANGED <<projects, items, staffed, req>>

QuoteDelete ==
  /\ \E q \in quotes :
       /\ Deletable({q.id})
       /\ quotes' = WithoutParents(quotes \ {q}, {q.id})
       /\ items' = {i \in items : i.quote # q.id}
  /\ UNCHANGED <<projects, staffed, seq, req>>

\* The item's form, or tool: only a draft can be edited.
StartItem(r) ==
  /\ req[r].pc = "idle"
  /\ \E q \in quotes :
       q.status = "draft" /\ Become(r, [Idle EXCEPT !.pc = "item", !.quote = q.id])
  /\ UNCHANGED tables

\* The INSERT asks no more than that the version exists.
AddItem(r) ==
  /\ req[r].pc = "item"
  /\ \/ /\ ~Locked(req[r].quote)
        /\ seq.item < MaxItem
        /\ \E q \in quotes :
             /\ q.id = req[r].quote
             /\ items' = items \cup {[quote |-> q.id, what |-> seq.item + 1, stage |-> q.status]}
        /\ seq' = [seq EXCEPT !.item = @ + 1]
     \/ /\ \A q \in quotes : q.id # req[r].quote
        /\ UNCHANGED <<items, seq>>
  /\ Respond(r)
  /\ UNCHANGED <<projects, quotes, staffed>>

-----------------------------------------------------------------------------
(* Revision: a copy of a version as a draft with the next number.          *)

\* Slip: counting the versions instead of looking for the last one.
SlipNextVersion(key) == Cardinality({q \in quotes : q.key = key}) + 1

NextVersion(key) == Max({q.version : q \in {p \in quotes : p.key = key}} \cup {0}) + 1

\* What precedes the first "-R" of a number, followed by "-Rn".
RevisedNumber(no, n) ==
  LET revisions == {i \in 2..Len(no) : no[i] # Exec}
      base      == IF revisions = {} THEN no ELSE SubSeq(no, 1, Min(revisions) - 1)
  IN Append(base, n)

\* The version and the last version of its proposal are read, without a lock.
StartRevise(r) ==
  /\ req[r].pc = "idle"
  /\ \E q \in quotes :
       Become(r, [Idle EXCEPT !.pc = "copy", !.quote = q.id, !.version = NextVersion(q.key)])
  /\ UNCHANGED tables

\* The old version must still exist and may not be in acceptance.
ReviseCopy(r) ==
  /\ req[r].pc = "copy"
  /\ \/ /\ ~Locked(req[r].quote)
        /\ \E q \in quotes :
             /\ q.id = req[r].quote
             /\ NumberFree(RevisedNumber(q.no, req[r].version), q.key, req[r].version)
        /\ Become(r, [req[r] EXCEPT !.pc = "send", !.read = ItemsOf(req[r].quote)])
     \/ /\ \A q \in quotes : q.id = req[r].quote =>
             ~NumberFree(RevisedNumber(q.no, req[r].version), q.key, req[r].version)
        /\ Respond(r)
  /\ UNCHANGED tables

\* Slip: the revised version counts as sent, whatever it was.
SlipRevised(q) == [q EXCEPT !.status = "sent"]

\* The old version after its revision.
Revised(q) == IF q.status = "draft" THEN [q EXCEPT !.status = "sent"] ELSE q

ReviseCommit(r) ==
  /\ req[r].pc = "send"
  /\ \E q \in quotes :
       LET n  == req[r].version
           no == RevisedNumber(q.no, n)
       IN
       /\ q.id = req[r].quote
       /\ IF NumberFree(no, q.key, n)
            THEN /\ seq.quote < MaxQuote
                 /\ quotes' = (quotes \ {q}) \cup {Revised(q),
                      [q EXCEPT !.id = seq.quote + 1, !.no = no, !.version = n,
                                !.parent = q.id, !.status = "draft"]}
                 /\ items' = items \cup
                      [quote: {seq.quote + 1}, what: req[r].read, stage: {"draft"}]
                 /\ seq' = [seq EXCEPT !.quote = @ + 1]
            ELSE UNCHANGED <<quotes, items, seq>>
  /\ Respond(r)
  /\ UNCHANGED <<projects, staffed>>

-----------------------------------------------------------------------------
(* Acceptance: a version becomes an execution project.                     *)

\* A page that is out of date may name a version that is gone (0).
StartAccept(r) ==
  /\ req[r].pc = "idle"
  /\ \E id \in {0} \cup {q.id : q \in quotes} : Become(r, [Idle EXCEPT !.pc = "lock", !.quote = id])
  /\ UNCHANGED tables

\* Slip: whoever accepts has looked at the page.
SlipAcceptable(q) == TRUE

Acceptable(q) == q.status # "accepted"

\* Slip: the suffixes count from 0.
SlipFreeName == Min({n \in 0..Cardinality(projects) : \A p \in projects : p.name # n})

\* The first free one among the name, the name followed by " (2)", and so on.
FreeName == Min({n \in 1..(Cardinality(projects) + 1) : \A p \in projects : p.name # n})

\* FOR UPDATE waits for an acceptance or a revision of the same version and
\* sees what it has committed.
AcceptLock(r) ==
  /\ req[r].pc = "lock"
  /\ \/ /\ ~Locked(req[r].quote) /\ ~KeyShared(req[r].quote)
        /\ \E q \in quotes : q.id = req[r].quote /\ Acceptable(q)
        /\ Become(r, [req[r] EXCEPT !.pc = "project", !.name = FreeName])
     \/ /\ ~Locked(req[r].quote) /\ ~KeyShared(req[r].quote)
        /\ ~ \E q \in quotes : q.id = req[r].quote /\ Acceptable(q)
        /\ Respond(r)
  /\ UNCHANGED tables

\* The name is a row of an uncommitted transaction.
NamePending(name) ==
  \E r \in Req : req[r].pc \in {"read", "accept"} /\ req[r].name = name

AcceptProject(r) ==
  /\ req[r].pc = "project"
  /\ ~NamePending(req[r].name)
  /\ \A p \in projects : p.name # req[r].name
  /\ Become(r, [req[r] EXCEPT !.pc = "read"])
  /\ UNCHANGED tables

\* Another request has taken the name meanwhile.
AcceptNameTaken(r) ==
  /\ req[r].pc = "project"
  /\ \E p \in projects : p.name = req[r].name
  /\ Respond(r)
  /\ UNCHANGED tables

AcceptRead(r) ==
  /\ req[r].pc = "read"
  /\ Become(r, [req[r] EXCEPT !.pc = "accept", !.read = ItemsOf(req[r].quote)])
  /\ UNCHANGED tables

\* The driver refuses a statement while the rows of a query are open on the
\* same connection; the roles, and the costs worth something, are copied and
\* allocated one by one in the loop over such rows.
Refused(q) ==
  \/ ~NumberFree(Append(q.no, Exec), Append(q.key, Exec), q.version)
  \/ q.project \in staffed

ExecutionCopy(q) ==
  [id |-> seq.quote + 1, project |-> seq.project + 1, no |-> Append(q.no, Exec),
   key |-> Append(q.key, Exec), version |-> q.version, parent |-> q.id,
   status |-> "accepted"]

\* The execution project has an accepted copy of the version and the total as
\* its budget.  All of it is allocated to the company's reserve.
AcceptCommit(r) ==
  /\ req[r].pc = "accept"
  /\ \E q \in quotes :
       /\ q.id = req[r].quote
       /\ ~Refused(q)
       /\ seq.quote < MaxQuote /\ seq.project < MaxProject
       /\ projects' = projects \cup {[id |-> seq.project + 1, name |-> req[r].name,
                                      source |-> q.id, budget |-> req[r].read]}
       /\ quotes' = (quotes \ {q}) \cup {[q EXCEPT !.status = "accepted"], ExecutionCopy(q)}
       /\ items' = items \cup
            [quote: {seq.quote + 1}, what: req[r].read, stage: {"accepted"}]
       /\ seq' = [seq EXCEPT !.quote = @ + 1, !.project = @ + 1]
  /\ Respond(r)
  /\ UNCHANGED staffed

AcceptRefused(r) ==
  /\ req[r].pc = "accept"
  /\ \E q \in quotes : q.id = req[r].quote /\ Refused(q)
  /\ Respond(r)
  /\ UNCHANGED tables

\* A crash, or an error of a statement: the transaction is rolled back.
RequestFails(r) ==
  /\ req[r].pc # "idle"
  /\ Respond(r)
  /\ UNCHANGED tables

-----------------------------------------------------------------------------
(* Projects, roles and costs.                                              *)

\* The foreign keys delete the whole workspace.
ProjectDelete ==
  /\ \E p \in projects :
       LET ids == {q.id : q \in {v \in quotes : v.project = p.id}} IN
         /\ Deletable(ids)
         /\ projects' = projects \ {p}
         /\ quotes' = WithoutParents({q \in quotes : q.id \notin ids}, ids)
         /\ items' = {i \in items : i.quote \notin ids}
         /\ staffed' = staffed \ {p.id}
  /\ UNCHANGED <<seq, req>>

RoleOrCostCreate ==
  /\ Cardinality(staffed) < MaxStaffed
  /\ \E p \in projects : staffed' = staffed \cup {p.id}
  /\ UNCHANGED <<projects, quotes, items, seq, req>>

\* The last of them is deleted; a role takes its time entries along.
RoleOrCostDelete ==
  /\ \E p \in staffed : staffed' = staffed \ {p}
  /\ UNCHANGED <<projects, quotes, items, seq, req>>

Next ==
  \/ \E r \in Req :
       \/ StartItem(r) \/ AddItem(r)
       \/ StartRevise(r) \/ ReviseCopy(r) \/ ReviseCommit(r)
       \/ StartAccept(r) \/ AcceptLock(r) \/ AcceptProject(r) \/ AcceptNameTaken(r) \/ AcceptRead(r)
       \/ AcceptCommit(r) \/ AcceptRefused(r)
       \/ RequestFails(r)
  \/ QuoteCreate \/ QuoteDelete
  \/ ProjectDelete
  \/ RoleOrCostCreate \/ RoleOrCostDelete

Spec == Init /\ [][Next]_vars

-----------------------------------------------------------------------------
(* The abstract life cycle that the tables implement.                      *)

VersionsOf ==
  {[id |-> q.id, stage |-> q.status, before |-> q.parent] : q \in quotes}

\* A version and its execution project.
MadeBy == {<<p.source, p.id>> : p \in {x \in projects : x.source # 0}}

\* A draft may be accepted, and a version of any stage deleted.
Life == INSTANCE LifeCycle
  WITH MayAccept <- {"draft", "sent"}, MayDelete <- Status, Owned <- TRUE,
       born <- seq.quote, versions <- VersionsOf, made <- MadeBy

-----------------------------------------------------------------------------
(* Properties.                                                             *)

\* However many requests accept, revise and delete at once, a version becomes
\* one execution project at most (management.go:223 refuses an accepted one,
\* and FOR UPDATE makes the second request wait for the first).
OneExecution ==
  \A p, q \in projects : p.source = q.source /\ p.source # 0 => p = q

\* The budget of an execution project is the total of the version it came from,
\* as it was accepted: an item that joins while the acceptance runs is either
\* part of both or comes after it (management.go:202: "the accepted quote total
\* becomes a fully allocated budget").
BudgetIsAcceptedTotal ==
  \A p \in projects, q \in quotes : p.source = q.id =>
    p.budget = {i.what : i \in {j \in items : j.quote = q.id /\ j.stage # "accepted"}}

\* The statements of overlapping requests add up to whole steps of a version's life:
\* a version leaves draft in the step that adds its revision and does not come back
\* (management.go:192), accepted is final, and the step that accepts it adds its
\* project (management.go:384).  That old versions are kept is not part of it: the
\* statement of a deletion asks for no stage, so a revised and an accepted version go
\* like a draft (management.go:155), although README.md:82 says that old versions are
\* locked and kept.
ImplementsLifeCycle == Life!LifeSpec

\* After any deletions a revision has a later version than what it revises, and
\* an execution copy the version it copies (management.go:174).
HistoryAscends ==
  \A q, p \in quotes : q.parent = p.id =>
    IF q.project = p.project THEN q.version > p.version ELSE q.version = p.version

\* README.md:14: "客戶接受指定報價版本後，一鍵建立執行專案，複製角色、預估工時、
\* 應收與成本", one click on an accepted version creates the execution project
\* with a copy of the roles and costs: no rule of the database refuses it.
AcceptanceSucceeds == [][\A r \in Req : ~AcceptRefused(r)]_vars
=============================================================================
