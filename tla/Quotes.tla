------------------------------- MODULE Quotes -------------------------------
(***************************************************************************)
(* The life cycle of standalone quotes: versions, their items, the         *)
(* acceptance that creates a project or updates its budget, revision and   *)
(* deletion (internal/handlers/quotes.go, internal/mcp/management.go).     *)
(*                                                                         *)
(* Requests are goroutines that share only PostgreSQL (READ COMMITTED).  A *)
(* handler reads the quote outside any transaction, then writes; each      *)
(* statement that another request can tell apart is one action.  The       *)
(* acceptance transaction only writes rows that it has locked, so it is    *)
(* one action at its commit.  The revision transaction copies rows before  *)
(* it locks the old version, so the copy and the commit are two actions,   *)
(* and until the commit the copy keeps its foreign-key and unique locks.   *)
(* Tables are sets of rows, a NULL reference is 0, ids are never reused,   *)
(* and an error response is a return to "idle".  Tax and percent discounts *)
(* are left out of the totals; the fixed discount is not clamped, as in    *)
(* calculateQuoteTotal.                                                    *)
(***************************************************************************)
EXTENDS Integers, FiniteSets, FiniteSetsExt

CONSTANTS
  Req,           \* request goroutines
  Accountant,    \* acting users who are not owners
  Base,          \* base quote numbers a user may type or take by default
  TypedRev,      \* revisions a typed number may name: 1 is no "-Rn" suffix
  MaxCents,      \* largest price of an item
  MaxDiscount,   \* largest fixed discount
  MaxQuote,      \* bound: versions ever created
  MaxItem,       \* bound: items ever added by hand
  MaxProject     \* bound: projects ever created

ASSUME ConstantsAssumption ==
  /\ Base \subseteq Nat /\ TypedRev \subseteq Nat
  /\ MaxCents \in Nat /\ MaxDiscount \in Nat
  /\ MaxQuote \in Nat /\ MaxItem \in Nat /\ MaxProject \in Nat

Status   == {"draft", "sent", "accepted"}
Cents    == 0..MaxCents
Discount == 0..MaxDiscount
QuoteNo  == [base: Nat, rev: Nat]      \* rev 1 is the bare number, rev n is "-Rn"

VARIABLES
  quotes,     \* rows of quotes
  items,      \* rows of quote_items; the copy of an item keeps its number
  projects,   \* rows of projects; origin is the quote named in the note
  budgets,    \* rows of project_budgets
  grants,     \* rows of project_permissions
  seq,        \* last id of each table's sequence
  req         \* local state of each request

vars == <<quotes, items, projects, budgets, grants, seq, req>>
tables == <<quotes, items, projects, budgets, grants, seq>>

QuoteRow   == [id: Nat, no: QuoteNo, version: Nat, status: Status,
               project: Nat, parent: Nat, discount: Discount]
ItemRow    == [id: Nat, quote: Nat, cents: Cents, choice: BOOLEAN]
ProjectRow == [id: Nat, origin: Nat]
BudgetRow  == [project: Nat, cents: Nat]

Request ==
  [pc: {"idle",
        "accept_items", "accept_commit",
        "revise_load", "revise_number", "revise_copy", "revise_commit", "revise_edit",
        "delete", "item"},
   quote: Nat,            \* the version the request is about
   row: QuoteRow,         \* its row as it was read, or as it was copied
   copy: SUBSET ItemRow,  \* its items, as they were read or copied
   edit: {"none", "inside", "after"},  \* header edit of the new version
   discount: Discount]    \* what that edit writes

NoQuote == [id |-> 0, no |-> [base |-> 0, rev |-> 0], version |-> 0,
            status |-> "draft", project |-> 0, parent |-> 0, discount |-> 0]
Idle == [pc |-> "idle", quote |-> 0, row |-> NoQuote, copy |-> {},
         edit |-> "none", discount |-> 0]

BudgetsOK == budgets \subseteq BudgetRow

RowsOK ==
  /\ quotes \subseteq QuoteRow
  /\ items \subseteq ItemRow
  /\ projects \subseteq ProjectRow
  /\ grants \subseteq Nat \X Accountant
  /\ seq \in [quote: Nat, item: Nat, project: Nat]
  /\ req \in [Req -> Request]

TypeOK == RowsOK /\ BudgetsOK

Init ==
  /\ quotes = {} /\ items = {} /\ projects = {} /\ budgets = {} /\ grants = {}
  /\ seq = [quote |-> 0, item |-> 0, project |-> 0]
  /\ req = [r \in Req |-> Idle]

-----------------------------------------------------------------------------
(* Reading.                                                                *)

ItemsOf(id)     == {i \in items : i.quote = id}
ProjectLive(id) == \E p \in projects : p.id = id
IsDraft(id)     == \E q \in quotes : q.id = id /\ q.status = "draft"

Sum(rows) == MapThenSumSet(LAMBDA i : i.cents, rows)

\* The totals a customer can accept: with two or more choice items, one of
\* them on top of the others; otherwise everything.
TotalOptions(rows, discount) ==
  LET choices == {i \in rows : i.choice} IN
    IF Cardinality(choices) >= 2
      THEN {Sum(rows \ choices) + c.cents - discount : c \in choices}
      ELSE {Sum(rows) - discount}

\* Slip: numbering a revision by the count of versions.
SlipCountVersions(base) == 1 + Cardinality({q \in quotes : q.no.base = base})

\* MAX(version_no) + 1 over the rows whose number has the base.
NextVersion(base) ==
  1 + Max({0} \cup {q.version : q \in {x \in quotes : x.no.base = base}})

Respond(r) == req' = [req EXCEPT ![r] = Idle]

-----------------------------------------------------------------------------
(* Locks of a revision that has copied and not yet committed.  The new row *)
(* references the old version and the project, and holds its number.       *)

Copying(r)        == req[r].pc = "revise_commit"
LocksQuote(id)    == \E r \in Req : Copying(r) /\ req[r].quote = id
LocksProject(id)  == \E r \in Req : Copying(r) /\ req[r].row.project = id
LocksNumber(no)   == \E r \in Req : Copying(r) /\ req[r].row.no = no
NumberTaken(no)   == \E q \in quotes : q.no = no

-----------------------------------------------------------------------------
(* Acceptance.                                                             *)

\* Only a draft can be accepted.  The row is read before its items.
StartAccept(r) ==
  /\ req[r].pc = "idle"
  /\ \E q \in quotes :
       /\ q.status = "draft"
       /\ req' = [req EXCEPT ![r] =
            [Idle EXCEPT !.pc = "accept_items", !.quote = q.id, !.row = q]]
  /\ UNCHANGED tables

AcceptReadItems(r) ==
  /\ req[r].pc = "accept_items"
  /\ req' = [req EXCEPT ![r].pc = "accept_commit", ![r].copy = ItemsOf(req[r].quote)]
  /\ UNCHANGED tables

\* UPDATE quotes SET status='accepted', project_id=... WHERE status='draft'.
Accept(id, project) ==
  {IF q.id = id THEN [q EXCEPT !.status = "accepted", !.project = project] ELSE q
     : q \in quotes}

\* A first acceptance creates project, budget and the acceptor's grant, and
\* links the version, all or nothing.
AcceptCreatesProject(r, total) ==
  /\ req[r].row.project = 0
  /\ seq.project < MaxProject
  /\ LET p == seq.project + 1 IN
       /\ projects' = projects \cup {[id |-> p, origin |-> req[r].quote]}
       /\ budgets' = budgets \cup {[project |-> p, cents |-> total]}
       /\ quotes' = Accept(req[r].quote, p)
       /\ \/ UNCHANGED grants        \* an owner needs no grant
          \/ \E u \in Accountant : grants' = grants \cup {<<p, u>>}
       /\ seq' = [seq EXCEPT !.project = p]

\* The acceptance of a revision overwrites the budget of its project, or
\* inserts one if there is none.
AcceptUpdatesBudget(r, total) ==
  /\ req[r].row.project # 0
  /\ budgets' = {b \in budgets : b.project # req[r].row.project}
                  \cup {[project |-> req[r].row.project, cents |-> total]}
  /\ quotes' = Accept(req[r].quote, req[r].row.project)
  /\ UNCHANGED <<projects, grants, seq>>

\* Slip: the flip to accepted without the status guard in its WHERE.
SlipAcceptUnguarded(r, total) ==
  /\ \E q \in quotes : q.id = req[r].quote
  /\ total >= 0
  /\ req[r].row.project # 0 => ProjectLive(req[r].row.project)

\* Slip: a budget column without its CHECK.
SlipAnyTotal(r, total) ==
  /\ IsDraft(req[r].quote)
  /\ req[r].row.project # 0 => ProjectLive(req[r].row.project)

\* The statements that can refuse an acceptance: the flip that finds no
\* draft, CHECK (total_amount_cents >= 0), the foreign keys to the project.
AcceptPossible(r, total) ==
  /\ IsDraft(req[r].quote)
  /\ total >= 0
  /\ req[r].row.project # 0 => ProjectLive(req[r].row.project)

\* The total is the one of the rows read before, for the option accepted.
AcceptCommit(r) ==
  /\ req[r].pc = "accept_commit"
  /\ \E total \in TotalOptions(req[r].copy, req[r].row.discount) :
       \/ /\ AcceptPossible(r, total)
          /\ AcceptCreatesProject(r, total) \/ AcceptUpdatesBudget(r, total)
       \/ /\ ~AcceptPossible(r, total)
          /\ UNCHANGED <<quotes, projects, budgets, grants, seq>>
  /\ Respond(r)
  /\ UNCHANGED items

-----------------------------------------------------------------------------
(* Revision.                                                               *)

\* Any version can be revised; the web form can save its edits into the new
\* version inside the same transaction.
StartRevise(r) ==
  /\ req[r].pc = "idle"
  /\ \E q \in quotes, edit \in {"none", "inside"}, d \in Discount :
       /\ edit = "none" => d = 0
       /\ req' = [req EXCEPT ![r] = [Idle EXCEPT !.pc = "revise_number",
            !.quote = q.id, !.row = q, !.edit = edit, !.discount = d]]
  /\ UNCHANGED tables

\* The MCP tool that edits into a new version accepts drafts only, but reads
\* the version again in the transaction, and edits the copy after the commit.
StartMcpNewVersion(r) ==
  /\ req[r].pc = "idle"
  /\ \E q \in quotes, d \in Discount :
       /\ q.status = "draft"
       /\ req' = [req EXCEPT ![r] = [Idle EXCEPT !.pc = "revise_load",
            !.quote = q.id, !.edit = "after", !.discount = d]]
  /\ UNCHANGED tables

ReviseLoad(r) ==
  /\ req[r].pc = "revise_load"
  /\ \/ \E q \in quotes :
          /\ q.id = req[r].quote
          /\ req' = [req EXCEPT ![r].pc = "revise_number", ![r].row = q]
     \/ (\A q \in quotes : q.id # req[r].quote) /\ Respond(r)
  /\ UNCHANGED tables

ReviseNumber(r) ==
  /\ req[r].pc = "revise_number"
  /\ LET v == NextVersion(req[r].row.no.base) IN
       req' = [req EXCEPT ![r] =
         [@ EXCEPT !.pc = "revise_copy", !.row.no.rev = v, !.row.version = v]]
  /\ UNCHANGED tables

\* INSERT ... SELECT copies the row as it is now, with its project; the new
\* number waits for another open revision that holds it.
ReviseCopy(r) ==
  /\ req[r].pc = "revise_copy"
  /\ ~LocksNumber(req[r].row.no)
  /\ \/ /\ ~NumberTaken(req[r].row.no)
        /\ \E q \in quotes :
             /\ q.id = req[r].quote
             /\ req' = [req EXCEPT ![r] = [@ EXCEPT !.pc = "revise_commit",
                  !.row.project = q.project, !.row.discount = q.discount,
                  !.copy = ItemsOf(q.id)]]
     \/ /\ NumberTaken(req[r].row.no) \/ ~ \E q \in quotes : q.id = req[r].quote
        /\ Respond(r)
  /\ UNCHANGED tables

\* The row of the new version; an edit inside the transaction is part of it.
NewVersion(r) ==
  [id |-> seq.quote + 1, no |-> req[r].row.no, version |-> req[r].row.version,
   status |-> "draft", project |-> req[r].row.project, parent |-> req[r].quote,
   discount |-> IF req[r].edit = "inside" THEN req[r].discount
                                          ELSE req[r].row.discount]

\* Slip: leaving the revised version a draft.
SlipKeepDraft(id) == quotes

\* UPDATE quotes SET status='sent' WHERE status='draft', only if the version
\* was a draft when the request read it.
Send(id) ==
  {IF q.id = id /\ q.status = "draft" THEN [q EXCEPT !.status = "sent"] ELSE q
     : q \in quotes}

\* Slip: a revision that does not notice it lost the version to another request.
SlipRevisePossible(r) == TRUE

RevisePossible(r) == req[r].row.status = "draft" => IsDraft(req[r].quote)

ReviseCommit(r) ==
  /\ req[r].pc = "revise_commit"
  /\ \/ /\ RevisePossible(r)
        /\ seq.quote < MaxQuote
        /\ quotes' = (IF req[r].row.status = "draft" THEN Send(req[r].quote) ELSE quotes)
                       \cup {NewVersion(r)}
        /\ items' = items \cup {[i EXCEPT !.quote = seq.quote + 1] : i \in req[r].copy}
        /\ seq' = [seq EXCEPT !.quote = @ + 1]
        /\ IF req[r].edit = "after"
             THEN req' = [req EXCEPT ![r] = [Idle EXCEPT !.pc = "revise_edit",
                    !.quote = seq.quote + 1, !.discount = req[r].discount]]
             ELSE Respond(r)
     \/ /\ ~RevisePossible(r)
        /\ Respond(r)
        /\ UNCHANGED <<quotes, items, seq>>
  /\ UNCHANGED <<projects, budgets, grants>>

\* UPDATE quotes SET <header> WHERE id=... AND status='draft'.
EditHeader(id, d) ==
  {IF q.id = id /\ q.status = "draft" THEN [q EXCEPT !.discount = d] ELSE q : q \in quotes}

ReviseEdit(r) ==
  /\ req[r].pc = "revise_edit"
  /\ quotes' = EditHeader(req[r].quote, req[r].discount)
  /\ Respond(r)
  /\ UNCHANGED <<items, projects, budgets, grants, seq>>

-----------------------------------------------------------------------------
(* Deletion of a draft: the status is read, attachments are removed, and   *)
(* the DELETE is guarded again.                                            *)

StartDelete(r) ==
  /\ req[r].pc = "idle"
  /\ \E q \in quotes :
       /\ q.status = "draft"
       /\ req' = [req EXCEPT ![r] = [Idle EXCEPT !.pc = "delete", !.quote = q.id]]
  /\ UNCHANGED tables

\* Items go with the version; versions revised from it lose their parent.
QuoteDelete(r) ==
  /\ req[r].pc = "delete"
  /\ ~LocksQuote(req[r].quote)
  /\ \/ /\ IsDraft(req[r].quote)
        /\ quotes' = {[q EXCEPT !.parent = IF @ = req[r].quote THEN 0 ELSE @]
                        : q \in {x \in quotes : x.id # req[r].quote}}
        /\ items' = items \ ItemsOf(req[r].quote)
     \/ /\ ~IsDraft(req[r].quote)
        /\ UNCHANGED <<quotes, items>>
  /\ Respond(r)
  /\ UNCHANGED <<projects, budgets, grants, seq>>

-----------------------------------------------------------------------------
(* Items.                                                                  *)

AddItem(id) ==
  /\ seq.item < MaxItem
  /\ \E cents \in Cents, choice \in BOOLEAN :
       items' = items \cup {[id |-> seq.item + 1, quote |-> id, cents |-> cents,
                             choice |-> choice]}
  /\ seq' = [seq EXCEPT !.item = @ + 1]
  /\ UNCHANGED <<quotes, projects, budgets, grants>>

\* The web handler inserts without looking at the status.
QuoteItemCreate ==
  /\ \E q \in quotes : AddItem(q.id)
  /\ UNCHANGED req

\* The MCP tool looks at the status first, in a statement of its own.
StartMcpItem(r) ==
  /\ req[r].pc = "idle"
  /\ \E q \in quotes :
       /\ q.status = "draft"
       /\ req' = [req EXCEPT ![r] = [Idle EXCEPT !.pc = "item", !.quote = q.id]]
  /\ UNCHANGED tables

McpItemInsert(r) ==
  /\ req[r].pc = "item"
  /\ \/ (\E q \in quotes : q.id = req[r].quote) /\ AddItem(req[r].quote)
     \/ (\A q \in quotes : q.id # req[r].quote) /\ UNCHANGED tables
  /\ Respond(r)

\* Slip: an UPDATE or DELETE of an item without the EXISTS guard.
SlipItemAlwaysOpen(i) == \E q \in quotes : q.id = i.quote

\* AND EXISTS (SELECT 1 FROM quotes WHERE id=... AND status='draft').
ItemOpen(i) == IsDraft(i.quote)

QuoteItemUpdate ==
  /\ \E i \in items, cents \in Cents, choice \in BOOLEAN :
       /\ ItemOpen(i)
       /\ items' = (items \ {i}) \cup {[i EXCEPT !.cents = cents, !.choice = choice]}
  /\ UNCHANGED <<quotes, projects, budgets, grants, seq, req>>

QuoteItemDelete ==
  /\ \E i \in items : ItemOpen(i) /\ items' = items \ {i}
  /\ UNCHANGED <<quotes, projects, budgets, grants, seq, req>>

-----------------------------------------------------------------------------
(* The other single-statement handlers.                                    *)

\* The number must be unused (quote_no is UNIQUE).  A typed number may look
\* like a revision's; the version is 1 all the same.
QuoteCreate ==
  /\ seq.quote < MaxQuote
  /\ \E no \in [base: Base, rev: TypedRev], d \in Discount :
       /\ ~NumberTaken(no) /\ ~LocksNumber(no)
       /\ quotes' = quotes \cup
            {[id |-> seq.quote + 1, no |-> no, version |-> 1, status |-> "draft",
              project |-> 0, parent |-> 0, discount |-> d]}
  /\ seq' = [seq EXCEPT !.quote = @ + 1]
  /\ UNCHANGED <<items, projects, budgets, grants, req>>

QuoteUpdate ==
  /\ \E id \in 1..seq.quote, d \in Discount : quotes' = EditHeader(id, d)
  /\ UNCHANGED <<items, projects, budgets, grants, seq, req>>

\* Budget and permissions go with the project, quotes lose their link.
ProjectDelete ==
  /\ \E p \in projects :
       /\ ~LocksProject(p.id)
       /\ projects' = projects \ {p}
       /\ budgets' = {b \in budgets : b.project # p.id}
       /\ grants' = {g \in grants : g[1] # p.id}
       /\ quotes' = {[q EXCEPT !.project = IF @ = p.id THEN 0 ELSE @] : q \in quotes}
  /\ UNCHANGED <<items, seq, req>>

\* A lost connection, a failed statement or a restart ends a request at any
\* point; what its open transaction did is rolled back.
RequestFails(r) ==
  /\ req[r].pc # "idle"
  /\ Respond(r)
  /\ UNCHANGED tables

Step(r) ==
  \/ StartAccept(r) \/ AcceptReadItems(r) \/ AcceptCommit(r)
  \/ StartRevise(r) \/ StartMcpNewVersion(r) \/ ReviseLoad(r)
  \/ ReviseNumber(r) \/ ReviseCopy(r) \/ ReviseCommit(r) \/ ReviseEdit(r)
  \/ StartDelete(r) \/ QuoteDelete(r)
  \/ StartMcpItem(r) \/ McpItemInsert(r)
  \/ RequestFails(r)

Next ==
  \/ \E r \in Req : Step(r)
  \/ QuoteItemCreate
  \/ QuoteItemUpdate
  \/ QuoteItemDelete
  \/ QuoteCreate
  \/ QuoteUpdate
  \/ ProjectDelete

Spec == Init /\ [][Next]_vars

-----------------------------------------------------------------------------
(* Properties.                                                             *)

\* schema.sql:68: "An accepted version creates one exactly once."  No two
\* projects come from the same version, and the version that a project came
\* from is accepted, linked to it and not deleted, however many requests
\* accept, revise or delete it at the same time.
OneProjectPerAcceptedVersion ==
  \A p \in projects :
    /\ \A other \in projects : other.origin = p.origin => other = p
    /\ \E q \in quotes : q.id = p.origin /\ q.status = "accepted" /\ q.project = p.id

\* protocol.go:335: a revision of an accepted version keeps the link to its
\* project, although the project is created and the revision copied by
\* transactions of different requests.
RevisionKeepsProject ==
  \A q, parent \in quotes :
    (q.parent = parent.id /\ parent.project # 0) => q.project = parent.project

\* Deleting drafts never breaks the history of versions: the version that a
\* revision was made from stays, because it left draft when the revision was
\* committed (quotes.go:533, quotes.go:577).
EveryRevisionHasParent ==
  \A q \in quotes : q.version > 1 => \E parent \in quotes : parent.id = q.parent

\* quotes.go:466: whatever versions were deleted and however requests overlap, no
\* revision stands in the way of the next one.  The number that the next revision of a
\* version would get is in use only by a first version, that is, if somebody typed a
\* number with a revision suffix into quoteCreate; then revising fails, although
\* protocol.go:335 offers it for any quote.
OnlyTypedNumbersBlock ==
  \A q, taker \in quotes :
    taker.no = [base |-> q.no.base, rev |-> NextVersion(q.no.base)] => taker.version = 1

\* A version that left draft is frozen: it stays, its status and header do
\* not change, and none of its items is edited or removed (quotes.go:301,
\* quotes.go:314, quotes.go:577).
KeepsLocked ==
  \A q \in quotes : q.status # "draft" =>
    /\ \E next \in quotes' :
         [next EXCEPT !.project = 0, !.parent = 0] = [q EXCEPT !.project = 0, !.parent = 0]
    /\ ItemsOf(q.id) \subseteq items'

LockedVersionsFrozen == [][KeepsLocked]_vars

-----------------------------------------------------------------------------
(* The abstract life cycle that the tables implement.                      *)

VersionsOf ==
  {[id |-> q.id, stage |-> q.status, before |-> q.parent] : q \in quotes}

\* A version and the project whose note names it.
MadeBy == {<<p.origin, p.id>> : p \in projects}

Life == INSTANCE LifeCycle
  WITH MayAccept <- {"draft"}, MayDelete <- {"draft"}, Owned <- FALSE,
       born <- seq.quote, versions <- VersionsOf, made <- MadeBy

\* quotes.go:555-660 and mcp/management.go:463: the statements of overlapping
\* requests add up to whole steps of a version's life.  Only a draft is accepted
\* or deleted, what is revised was sent before its revision can be seen, accepted
\* is final, and a version's project exists from the step that accepts it.
ImplementsLifeCycle == Life!LifeSpec
=============================================================================
