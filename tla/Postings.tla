------------------------------ MODULE Postings ------------------------------
(***************************************************************************)
(* Journal payments, project budget allocations, and the postings that     *)
(* split one payment over allocations of several projects                  *)
(* (internal/handlers/journal.go, internal/mcp/protocol.go,                *)
(* internal/models/budgets.go).                                            *)
(*                                                                         *)
(* Every HTTP or MCP request runs in a goroutine of its own and shares     *)
(* nothing but the database.  A posting is created by up to five SQL       *)
(* statements outside any transaction; each of them is one action here, so *)
(* the statements of several requests interleave.  Tables are sets of      *)
(* rows, a NULL or absent reference is 0, and an id is never reused        *)
(* (BIGSERIAL).  A failed foreign key check is the error response.         *)
(***************************************************************************)
EXTENDS Integers, FiniteSets, FiniteSetsExt

CONSTANTS
  Req,          \* request goroutines that create postings
  Project,      \* ids of the projects that exist at the start
  MaxCents,     \* largest amount of a payment or of a split
  MaxTx,        \* bound: payments ever created
  MaxAlloc,     \* bound: allocations ever created
  MaxPosting    \* bound: postings ever created

ASSUME ConstantsAssumption ==
  /\ Project \subseteq Nat \ {0}
  /\ MaxCents \in Nat /\ MaxTx \in Nat /\ MaxAlloc \in Nat /\ MaxPosting \in Nat

\* A server runs finitely many requests, and a table has finitely many rows.
ASSUME FiniteAssumption == IsFiniteSet(Req) /\ IsFiniteSet(Project)

AllocKind   == {"labor_compensation", "company_reserve", "cost_expense"}
PostingKind == {"partner_payout", "cost_expense", "company_shared_cost"}
FormKind    == PostingKind \cup {"project_expense"}   \* what the web form may ask for
Cents       == 1..MaxCents

VARIABLES
  projects,     \* rows of projects (ids)
  txs,          \* rows of transactions
  allocs,       \* rows of project_budget_allocations
  postings,     \* rows of transaction_budget_allocations
  seq,          \* last id handed out by each table's sequence
  req,          \* local state of each request
  lowered       \* history: payments whose amount an edit has lowered

vars == <<projects, txs, allocs, postings, seq, req, lowered>>

TxRow      == [id: Nat, cents: Nat]
AllocRow   == [id: Nat, project: Nat, kind: AllocKind]
PostingRow == [id: Nat, tx: Nat, alloc: Nat, kind: PostingKind, cents: Nat]

Request ==
  [pc: {"idle",
        "belongs",   \* next: BudgetAllocationBelongsToProject
        "kind",      \* next: BudgetAllocationKind
        "sum",       \* next: SumCashBudgetPostings
        "insert"},   \* next: CreateBudgetPosting
   via: {"web", "mcp"}, tx: Nat, project: Nat, alloc: Nat, kind: FormKind,
   cents: Nat, limit: Nat]

Idle == [pc |-> "idle", via |-> "web", tx |-> 0, project |-> 0, alloc |-> 0,
         kind |-> "project_expense", cents |-> 0, limit |-> 0]

TypeOK ==
  /\ projects \subseteq Project
  /\ txs \subseteq TxRow
  /\ allocs \subseteq AllocRow
  /\ postings \subseteq PostingRow
  /\ seq \in [tx: Nat, alloc: Nat, posting: Nat]
  /\ req \in [Req -> Request]
  /\ lowered \subseteq Nat

Init ==
  /\ projects = Project
  /\ txs = {} /\ allocs = {} /\ postings = {}
  /\ seq = [tx |-> 0, alloc |-> 0, posting |-> 0]
  /\ req = [r \in Req |-> Idle]
  /\ lowered = {}

TxLive(id)    == \E t \in txs : t.id = id
AllocLive(id) == \E a \in allocs : a.id = id

CentsOf(rows) == MapThenSumSet(LAMBDA p : p.cents, rows)

\* Slip: summing one kind of posting only (as SumBudgetPostingsByKind does).
SlipSumOneKind(tx) ==
  CentsOf({p \in postings : p.tx = tx /\ p.kind = "partner_payout"})

\* The sum a handler compares with the payment: every cash-backed posting.
SumCashBudgetPostings(tx) == CentsOf({p \in postings : p.tx = tx})

\* The kind of posting an allocation accepts on the web form; a company
\* reserve accepts none.
AcceptsPosting(a) == a.kind # "company_reserve"
\* Slip: storing the recipient kind as the kind of the posting.
SlipRecipientKind(a) == a.kind
KindForAllocation(a) ==
  IF a.kind = "labor_compensation" THEN "partner_payout" ELSE "cost_expense"

-----------------------------------------------------------------------------
(* Creating a posting: one action per statement of the handler.            *)

dataVars == <<projects, txs, allocs, postings, seq, lowered>>

Respond(r) == req' = [req EXCEPT ![r] = Idle]

\* The web form: the payment is read first; a shared cost must name no
\* allocation, every other kind must name one together with its project.
StartWebPosting(r) ==
  /\ req[r].pc = "idle"
  /\ \E t \in txs, kind \in FormKind, cents \in Cents :
       \/ /\ kind = "company_shared_cost"
          /\ req' = [req EXCEPT ![r] =
               [Idle EXCEPT !.pc = "sum", !.tx = t.id, !.kind = kind,
                            !.cents = cents, !.limit = t.cents]]
       \/ /\ kind # "company_shared_cost"
          /\ \E p \in Project, a \in 1..seq.alloc :
               req' = [req EXCEPT ![r] =
                 [pc |-> "belongs", via |-> "web", tx |-> t.id, project |-> p,
                  alloc |-> a, kind |-> kind, cents |-> cents, limit |-> t.cents]]
  /\ UNCHANGED dataVars

\* The MCP tool: only the two project kinds, an allocation is required, and
\* the project is checked only when the caller names one.
StartMcpPosting(r) ==
  /\ req[r].pc = "idle"
  /\ \E t \in txs, kind \in {"partner_payout", "cost_expense"}, cents \in Cents,
        p \in Project \cup {0}, a \in 1..seq.alloc :
       req' = [req EXCEPT ![r] =
         [pc |-> IF p = 0 THEN "kind" ELSE "belongs", via |-> "mcp", tx |-> t.id,
          project |-> p, alloc |-> a, kind |-> kind, cents |-> cents,
          limit |-> t.cents]]
  /\ UNCHANGED dataVars

CheckBelongsToProject(r) ==
  /\ req[r].pc = "belongs"
  /\ \/ /\ \E a \in allocs : a.id = req[r].alloc /\ a.project = req[r].project
        /\ req' = [req EXCEPT ![r].pc = "kind"]
     \/ /\ ~ \E a \in allocs : a.id = req[r].alloc /\ a.project = req[r].project
        /\ Respond(r)
  /\ UNCHANGED dataVars

\* Slip: trusting the kind an MCP caller names.
SlipTrustCaller(r, a) == AcceptsPosting(a)

\* The web form asks for an allocation that accepts postings, the MCP tool
\* for one that the kind its caller names fits.
KindAccepted(r, a) ==
  \/ req[r].via = "web" /\ AcceptsPosting(a)
  \/ req[r].via = "mcp" /\ AcceptsPosting(a) /\ req[r].kind = KindForAllocation(a)

\* The web form stores the allocation's kind, the MCP tool the caller's.
KindStored(r, a) == IF req[r].via = "web" THEN KindForAllocation(a) ELSE req[r].kind

CheckKind(r) ==
  /\ req[r].pc = "kind"
  /\ \/ \E a \in allocs :
          /\ a.id = req[r].alloc
          /\ KindAccepted(r, a)
          /\ req' = [req EXCEPT ![r] =
               [@ EXCEPT !.pc = "sum", !.kind = KindStored(r, a),
                         !.via = "web", !.project = 0]]   \* not read again
     \/ /\ ~ \E a \in allocs : a.id = req[r].alloc /\ KindAccepted(r, a)
        /\ Respond(r)
  /\ UNCHANGED dataVars

\* The limit is the amount read when the request started.
CheckSum(r) ==
  /\ req[r].pc = "sum"
  /\ \/ /\ SumCashBudgetPostings(req[r].tx) + req[r].cents <= req[r].limit
        /\ req' = [req EXCEPT ![r].pc = "insert"]
     \/ /\ SumCashBudgetPostings(req[r].tx) + req[r].cents > req[r].limit
        /\ Respond(r)
  /\ UNCHANGED dataVars

\* Slip: a reference to the allocation that the table does not enforce.
SlipPaymentKeyOnly(r) == TxLive(req[r].tx)

\* The foreign keys of transaction_budget_allocations at the INSERT.
ForeignKeysHold(r) ==
  /\ TxLive(req[r].tx)
  /\ req[r].alloc # 0 => AllocLive(req[r].alloc)

CreateBudgetPosting(r) ==
  /\ req[r].pc = "insert"
  /\ \/ /\ ForeignKeysHold(r)
        /\ seq.posting < MaxPosting
        /\ seq' = [seq EXCEPT !.posting = @ + 1]
        /\ postings' = postings \cup
             {[id |-> seq.posting + 1, tx |-> req[r].tx, alloc |-> req[r].alloc,
               kind |-> req[r].kind, cents |-> req[r].cents]}
     \/ /\ ~ForeignKeysHold(r)
        /\ UNCHANGED <<seq, postings>>
  /\ Respond(r)
  /\ UNCHANGED <<projects, txs, allocs, lowered>>

-----------------------------------------------------------------------------
(* The other handlers change the tables with one statement each.           *)

DeleteBudgetPosting ==
  /\ \E id \in 1..seq.posting : postings' = {p \in postings : p.id # id}
  /\ UNCHANGED <<projects, txs, allocs, seq, req, lowered>>

JournalCreate ==
  /\ seq.tx < MaxTx
  /\ \E cents \in Cents : txs' = txs \cup {[id |-> seq.tx + 1, cents |-> cents]}
  /\ seq' = [seq EXCEPT !.tx = @ + 1]
  /\ UNCHANGED <<projects, allocs, postings, req, lowered>>

\* An edit overwrites the amount; the postings of the payment are not read.
JournalUpdate ==
  \E t \in txs, cents \in Cents :
    /\ txs' = (txs \ {t}) \cup {[t EXCEPT !.cents = cents]}
    /\ lowered' = IF cents < t.cents THEN lowered \cup {t.id} ELSE lowered
    /\ UNCHANGED <<projects, allocs, postings, seq, req>>

\* ON DELETE CASCADE removes the postings with their payment.
JournalDelete ==
  /\ \E id \in 1..seq.tx :
       /\ txs' = {t \in txs : t.id # id}
       /\ postings' = {p \in postings : p.tx # id}
  /\ UNCHANGED <<projects, allocs, seq, req, lowered>>

\* ON DELETE SET NULL: postings outlive the allocations in gone.
Uncharge(gone) ==
  {[p EXCEPT !.alloc = IF \E a \in gone : a.id = p.alloc THEN 0 ELSE @] : p \in postings}

AllocationCreate ==
  /\ seq.alloc < MaxAlloc
  /\ \E p \in projects, kind \in AllocKind :
       allocs' = allocs \cup {[id |-> seq.alloc + 1, project |-> p, kind |-> kind]}
  /\ seq' = [seq EXCEPT !.alloc = @ + 1]
  /\ UNCHANGED <<projects, txs, postings, req, lowered>>

\* An update may change names and planned amounts, never project or kind.
AllocationUpdate(a) == a

AllocationEdit ==
  /\ \E a \in allocs : allocs' = (allocs \ {a}) \cup {AllocationUpdate(a)}
  /\ UNCHANGED <<projects, txs, postings, seq, req, lowered>>

\* The delete is scoped by allocation and project.
AllocationDelete ==
  /\ \E id \in 1..seq.alloc, p \in Project :
       LET gone == {a \in allocs : a.id = id /\ a.project = p} IN
         /\ allocs' = allocs \ gone
         /\ postings' = Uncharge(gone)
  /\ UNCHANGED <<projects, txs, seq, req, lowered>>

\* Deleting a project cascades to its allocations, which uncharges postings.
ProjectDelete ==
  /\ \E p \in Project :
       LET gone == {a \in allocs : a.project = p} IN
         /\ projects' = projects \ {p}
         /\ allocs' = allocs \ gone
         /\ postings' = Uncharge(gone)
  /\ UNCHANGED <<txs, seq, req, lowered>>

PostingStep(r) ==
  \/ StartWebPosting(r)
  \/ StartMcpPosting(r)
  \/ CheckBelongsToProject(r)
  \/ CheckKind(r)
  \/ CheckSum(r)
  \/ CreateBudgetPosting(r)

Next ==
  \/ \E r \in Req : PostingStep(r)
  \/ DeleteBudgetPosting
  \/ JournalCreate
  \/ JournalUpdate
  \/ JournalDelete
  \/ AllocationCreate
  \/ AllocationEdit
  \/ AllocationDelete
  \/ ProjectDelete

Spec == Init /\ [][Next]_vars

-----------------------------------------------------------------------------
(* What the reports read.                                                  *)

\* Slip: a report that forgets the expenses paid to suppliers.
SlipPayoutsOnly(project) ==
  CentsOf({p \in postings :
             /\ p.kind = "partner_payout"
             /\ \E a \in allocs : a.id = p.alloc /\ a.project = project})

\* GetProjectBudgetReport: the postings joined to the project's allocations.
PaidByProject(project) ==
  CentsOf({p \in postings :
             /\ p.kind \in {"partner_payout", "cost_expense"}
             /\ \E a \in allocs : a.id = p.alloc /\ a.project = project})

\* GetProjectBudgetActuals: the cost borne by the company pool.
CompanySharedCost == CentsOf({p \in postings : p.kind = "company_shared_cost"})

-----------------------------------------------------------------------------
(* Properties.                                                             *)

\* A posting charged to an allocation that exists has the kind that the
\* allocation's recipient kind stands for, and never spends a company
\* reserve.  The kind is looked up, or compared, by a statement that runs
\* before the INSERT, so this rests on the recipient kind being structural
\* (journal.go:320, protocol.go:741, budgets.go:164).
KindMatchesAllocation ==
  \A p \in postings, a \in allocs :
    p.alloc = a.id => AcceptsPosting(a) /\ p.kind = KindForAllocation(a)

\* The figures of the project reports and of the company pool add up to the
\* whole of the postings: none is counted for two projects or for a project
\* and the pool, and only a posting whose allocation was deleted is missing
\* from both (budgets.go:186, budgets.go:334).
ReportsCoverEveryCharge ==
  MapThenSumSet(PaidByProject, projects) + CompanySharedCost
    = CentsOf({p \in postings : p.alloc # 0 \/ p.kind = "company_shared_cost"})

\* No posting outlives its payment, and none is charged to an allocation of
\* a project that is gone, although the handlers check all of it in statements
\* before the INSERT (schema.sql:169).
ChargesAreLive ==
  \A p \in postings :
    /\ TxLive(p.tx)
    /\ p.alloc # 0 => \E a \in allocs : a.id = p.alloc /\ a.project \in projects

SplitOf(t) == CentsOf({p \in postings : p.tx = t.id})

\* budgets.go:267: "SumCashBudgetPostings keeps all cash-backed splits of one
\* payment within its journal amount", as long as one posting is created at
\* a time.  With n postings created at the same time the splits of a payment
\* whose amount no edit has lowered stay within n times its amount: a stale
\* sum can be overtaken by what the other requests insert, each of which is
\* checked in turn (journal.go:333).
OverspendBounded ==
  \A t \in txs : t.id \notin lowered =>
    SplitOf(t) <= Cardinality(Req) * t.cents
=============================================================================
