# A formal model of the Reviz ledger

TLA+ specifications of the parts of this server where requests, failures and the
order of statements decide whether the books stay right, the TLC configurations
that check them on small instances, and proofs for every instance that TLAPS
checks. Paths are relative to the repository; `internal/...` is `src/internal/...`.

## The system

A Go server (`main.go`) renders pages, answers an MCP endpoint and keeps all state
in PostgreSQL and in an object store for files. There is no lock and no shared
memory: each HTTP or MCP request runs in a goroutine of its own and meets the
others only in the database (READ COMMITTED) and in the store. Most handlers run
several statements outside any transaction, so *the statements of different
requests interleave*; that is the first hazard everywhere. The second is a request
that ends half way: an error whose earlier statements stay, an ignored error, or
the end of the process. One background goroutine purges sessions every six hours.

| Component | State | Operations | What makes it hard | What makes it correct |
|---|---|---|---|---|
| **Budget postings** `handlers/journal.go`, `mcp/protocol.go`, `models/budgets.go`, `handlers/projects.go` | `transactions`, `project_budget_allocations`, `transaction_budget_allocations`, `projects` | create a posting (web form, MCP tool); delete it; create, edit, delete payments, allocations, projects | five statements without a transaction; cascades and `SET NULL` | a payment is not overspent, the kind of a posting fits its allocation, no report loses a charge, nothing dangles |
| **Quotes** `handlers/quotes.go`, `mcp/management.go` | `quotes`, `quote_items`, `projects`, `project_budgets`, `project_permissions` | create, edit, items, revise, accept, delete, on two front ends | reads before the transaction; revision against acceptance against deletion; numbers | one project per accepted version, its budget is the accepted total, locked versions are frozen, history stays connected, numbers are free |
| **Users and sessions** `handlers/users.go`, `handlers/auth.go`, `auth/auth.go`, `main.go` | `users`, `sessions` | user form (role, activation, password), delete, log-in, log-out, password, purge | count-then-write, forms that stop half way, a log-in that overlaps | an active owner remains; disabling or a new password ends sessions; expired sessions go |
| **Attachments** `handlers/attachments.go`, `handlers/quote_attachments.go`, `handlers/quotes.go`, `storage/storage.go`, `mcp/` | rows in two tables, objects in GCS or a directory | upload, delete, copy on revision, cascade | two stores, no transaction over both, clean-up after failures | a row has its object, an object has its row, files of locked versions stay |
| **Proposal workspace** `models/management.go`, `handlers/management.go`, `mcp/management.go` | `project_quotes`, `project_quote_items`, roles, time, receivables, costs | create, items, revise, delete, accept into an execution project | a long transaction with one row lock, numbers built from numbers, a driver with one query at a time | one execution project per version with the accepted total, locked versions stay locked, acceptance succeeds |
| **Journal** `handlers/journal.go`, `csv.go`, `accounts.go`, `categories.go`, `counterparties.go`, `models/queries.go`, `models.go`, `pnl.go` | `transactions`, `accounts`, `categories`, `counterparties` | create, edit, delete, import a transaction; the tables it refers to; list with balances; profit and loss | codes from `MAX(id)`, counterparties made on the way, lists that are undone from today's totals | references hold, codes are free, balances, running balances and profits agree |
| **MCP, OAuth, permissions** `mcp/protocol.go`, `mcp/oauth.go`, `models/project_permissions.go`, `handlers/project_access.go` | `project_permissions`, codes, tokens, audit log | approve, exchange, call; check, then write; grant, revoke | every check is a read before the write, an ignored error behind it | who writes was granted it, one token per code, every MCP write is logged |
| CSV export `csv.go`, `exporter.go`; settings; dashboard, charts; money; driver; rendering, alert mail | none, or constants | read only, pure, or one statement on one row | string formats | not modelled |

Interactions: accepting a quote creates the project and budget that allocations and
postings later refer to; deleting a project unlinks quotes and postings; deleting a
quote or a payment cascades to rows of files, and the handler (not the database) must
see to the objects; deleting a user cascades to sessions. The modules meet in the
tables they share and each models what the others do to those tables (for instance
`ProjectDelete` in Postings and in Quotes, `QuoteAccept` and `McpRevise` in Attachments,
the owners' actions in Access). Quotes and Proposals are two implementations of one
abstract life cycle.

## The modules

Every module is written the same way. Tables are sets of records, a NULL reference is
`0`, ids come from a sequence (`seq`) and are never reused. `req[r]` is the local state
of the request goroutine `r`: its `pc` names the statement it runs next, the other
fields are what it remembers from earlier reads. An error response is the return to
`Idle`. One action is one statement (or one call of the store) together with the Go
code up to the next one. A handler whose whole effect is one statement is one action
without a request. Operators named `Slip...` are plausible mistakes in the
definition that follows them; nothing in a specification uses them, they serve to
confirm that each property notices such a mistake.

* **Postings.tla** – `StartWebPosting`, `CheckBelongsToProject`, `CheckKind`, `CheckSum`,
  `CreateBudgetPosting` are the five statements of `journalBudgetPostingCreate`
  (`journal.go:272`); `StartMcpPosting` enters the same path for the MCP tool, which
  checks the project only if one is named and keeps the caller's kind
  (`protocol.go:717`). The remaining actions are the handlers that change the same
  tables, with the cascades of `schema.sql`. The milestone of an allocation is left out:
  no code creates one.
* **Quotes.tla** – acceptance (`quoteAccept`, `acceptStandaloneQuote`) reads the quote and
  its items, then commits one transaction of guarded writes; revision (`quoteRevise`,
  `quoteUpdate` with "save as new version", `cloneStandaloneQuoteVersion`) reads, copies
  and commits, and between copy and commit holds its foreign-key and unique locks;
  deletion reads the status and then runs the guarded `DELETE`. Items of the MCP tool
  are checked and inserted by two statements, items of the web form are inserted
  unchecked (`quotes.go:283`). Totals are sums of items minus a fixed discount, with
  exclusive choices; tax and percent discounts are left out. The status `rejected` is
  in the schema and no code sets it.
* **Users.tla** – the form of `userUpdate` is a list of changes carried out one after the
  other (`FirstPc`, `Remaining`), each guarded by `guardLastOwner` (`GuardReadUser`,
  `GuardCount`) where the code has it, with the clearing of sessions as a statement of
  its own whose error the code ignores; `userDelete`, `loginSubmit`, `logout`, `passwordUpdate`, session
  expiry and the purge complete it. `Form` are the forms owners send and `NewRole` the roles users
  are created with. Three histories record what other requests did: `lost` holds the users whose
  sessions a failed request left, `overtaken` marks a request that read the owners, or the user who
  logs in, before another request wrote them, and `late` a session that such a log-in opened.
* **Attachments.tla** – one action per call of the store and per statement. Every call
  may fail, a failed `Put` may leave part of a file, a failed `Delete` may have
  happened, the process may stop. `StrictDelete` tells GCS (deleting a missing object is
  an error) from the local directory. Of a quote only "is a draft" is kept. The history
  variables `condemned` and `leaked` record whose deletion has begun, and which objects a
  failure or a cascade left behind. `quoteAttachmentDelete` has no route and is left out.
* **Proposals.tla** – `AcceptQuoteAndCreateProject` (`models/management.go:205`) is five
  actions: the `SELECT ... FOR UPDATE` with the choice of a free project name, the `INSERT`
  of the project, the read of the items, and the rest up to COMMIT or its refusal;
  `ReviseProjectQuote` is three. Row locks are read off the requests that hold them
  (`Locked`, `KeyShared`), and a statement that waits is an action that is not enabled. A
  number is the sequence of what was typed and its suffixes, so `RevisedNumber` can cut at the
  first `-R` as the code does. A total is the set of items it was summed from. `staffed` are the
  projects with a role or a cost: the code inserts a row for each while the
  query over them is open, which pgx refuses on the one connection of a transaction
  (`Refused`). What the code would do with roles after that never runs and is left out:
  the labour and cost allocations, the copied time entries. History variables are the
  `source` of a project and the `stage` of an item.
* **LifeCycle.tla** – the abstract specification of a version: written as a draft, revised (the
  revised draft is sent in the same step), accepted for good in the step that makes its
  project, deleted, dropped with its project. Its variables are `born`, `versions`, `made`. Quotes and
  Proposals each map their rows to it (`VersionsOf`, `MadeBy`) with a policy of their own: a
  standalone quote is accepted as a draft only and outlives its project, a project quote is accepted
  also when it was sent, and goes with its project. `ImplementsLifeCycle` says that the
  statements of overlapping requests add up to such steps.
* **Ledger.tla** – pure operators: the type and sign of a transaction, balances of accounts, the
  list in its order and the balances after each row (`TransactionViews`), the profit and loss
  statement. A date is the number YYYYMM; days are left out.
* **Journal.tla** – a new transaction takes up to four statements: find the counterparty
  (`FindParty`), create it (`CreateParty`), read `MAX(id)` (`GenerateCode`), insert. An import (`StartImport`,
  `ImportLine`) repeats them line by line with typed or generated codes and goes on after an error.
  The code of a transaction is modelled as a number, `T0007` as 7; a typed code of another form
  cannot meet a generated one. Lookups by name are modelled by their result.
* **Access.tla** – a request arrives with a session or a token, checks the transaction it is to change, then
  the project, then writes, then grants or logs; each is a statement. `posted` are the projects whose
  allocations the postings of a transaction are charged to; their members reach the transaction too
  (`ProjectsOf`). Accountants add and delete postings as the code lets them: a form checks the
  transaction and names an allocation of any project (`ChooseAllocation`, `Charge`), the deletion of a
  posting takes any posting (`Uncharge`), the MCP tool checks transaction and project. `taken`, `overtaken`, `excused` and `unlogged`
  are histories: a grant that was taken away; a request whose user, whose transaction, or a grant or project
  it relies on (`Relying`) was changed after it had checked; a code that was read twice at once or whose mark
  was lost; a call that a failure kept out of the log. Registration of clients and the comparisons of client, redirect URI and PKCE verifier
  are left out: a request that fails them has written nothing.
* **MC\*.tla** add the symmetry of requests, and the `.cfg` files the instances.
* **\*Proofs.tla** hold the theorems.

Assumed of the database: a single statement is atomic, including an `UPDATE`, `DELETE`
or `INSERT` guarded by `EXISTS` or by a status; foreign keys and unique indexes hold;
a statement that fails has no effect. A COMMIT whose answer is lost is not modelled
(`quotes.go:394` would then delete objects of committed rows). Permission checks are
single reads before the handlers and are modelled in Access; in the other modules every actor
may do what the routes let an accountant or owner do.

## What the runs check

All runs use two or fewer requests. Two suffice for every race of the code known from
reading it, because each handler compares its own reads with writes of *another*
request; `OverspendBounded` is where the number of requests enters the property.

| Run | Instance | Shows |
|---|---|---|
| `MCPostings` | 2 requests, 2 projects, 1 payment of 1 cent, 2 allocations, 3 postings | `KindMatchesAllocation`, `ReportsCoverEveryCharge`, `ChargesAreLive`, and `OverspendBounded`: n concurrent requests overspend an unamended payment at most n times |
| `MCQuotes` | 2 requests, versions of a base number, no items | `OneProjectPerAcceptedVersion`, `RevisionKeepsProject`, `EveryRevisionHasParent`, `OnlyTypedNumbersBlock`, `ImplementsLifeCycle` under acceptance, revision and deletion at once, with numbers typed with and without a revision suffix |
| `MCQuotesItems` | with items, choices and discounts | `LockedVersionsFrozen` |
| `MCUsers` | 2 requests, 2 owners, 2 sessions, 1 password change, a form that demotes and disables, one that enables, failures half way | `DisabledUsersSignedOut`, `OnlyLateLoginsStay`, `SessionsHaveUsers`, `LastOwnerGuarded`, `ExpiredSessionsGo` |
| `MCUsersOwnerRace` | 2 requests, more forms, all roles | finds `OwnerRemains` violated |
| `MCUsersPasswordRace` | the same | finds `PasswordChangeSignsOut` violated |
| `MCAttachments` | 2 requests, 2 versions, 1 payment, 3 keys, 2 files an upload, strict store | `FilesOutliveRows`, `OrphansHaveCause` |
| `MCAttachmentsRace` | the local store | finds `LockedFilesStay` violated |
| `MCProposals` | 2 requests, 4 versions, 3 projects, 1 item, 1 project with a role | `OneExecution`, `BudgetIsAcceptedTotal`, `HistoryAscends`, `ImplementsLifeCycle` |
| `MCProposalsRoles` | 2 versions, 2 projects | finds `AcceptanceSucceeds` violated |
| `MCJournal` | 2 requests, 2 accounts, 2 categories, 1 counterparty, 2 transactions of 5 forms, typed code 2 | `NextCodeFree`, `BalancesCoverEveryCent`, `RunningBalances`, `ProfitsAddUpToBalances` |
| `MCAccess` | 2 requests, 1 accountant, 2 projects, 1 transaction, 1 code, 2 tokens, 1 MCP call | `WritesAreGranted`, `CreatorsMayWrite`, `OneTokenPerCode`, `WritersAreLogged` |

Each module's `TypeOK` is an invariant of one of its runs. Deadlock is checked in
every run, because new requests can always start, but for `MCAccess`: there the last
accountant may be deleted after the bounds are used up, and nobody is left to arrive.

Bounds are the constants named `Max...` in the modules; each is a guard of the action that
uses up an id or chooses an amount. Three postings let two be checked against a third;
two allocations of two projects let a charge go to the wrong one; three versions have a
revision of a revision and a sibling; three keys allow an upload of two files and a copy, or
a file and its copies in two versions. In `MCProposals` four versions allow a history of
three with its first two deleted, or a version, its revision and the execution copies of both; one
item is enough, because it is either in time for an acceptance or not. In `MCJournal` two
transactions can be entered out of the order of their dates, of different years and kinds;
the forms are an income, an expense, a transfer, an income whose date (MCP checks none) has no
month, and a CSV line from an account to itself, and a category that becomes one of expenses
makes refunds. `RunningBalances` looks at every subset of the rows, because accountants see
some. In `MCUsers` two forms have every operation but
an owner's change of another's password and a role that is not one, and a change of password is made
by the user; the two violations are searched with more forms, and the theorems hold for every set of
forms. In `MCAccess` `MaxRows` bounds
projects, transactions and codes or tokens together: two tokens for
one code need no transaction, and a form that moves a transaction to a second project or charges one needs
no token; a tool that charges a second project would, and only the theorem covers it. One
accountant is enough, because grants of different users do not meet.

*Fairness* is assumed once: `Users!FairSpec` has weak fairness of `PurgeExpiredSessions`,
because the ticker of `main.go:95` runs as long as the process does. Nothing else needs
to happen: users may stay away, and requests may fail. `ExpiredSessionsGo` says that an
expired session is gone eventually even if nobody presents it.

### Where the code and its documents differ

Found by a run (each quoted in `PROJECT.json`):

* Two overlapping requests demote the two owners and none is left (`users.go:128`);
  `LastOwnerGuarded` says that nothing less than such an overlap does it.
* A log-in that verified the old password opens its session after the password change has deleted the
  sessions (`handlers/auth.go:54` against `README.md:57`); `OnlyLateLoginsStay` says that nothing else stays. A
  disabling is overtaken in the same way, which `DisabledUsersSignedOut` sets apart (`late`).
* A draft's files are deleted before its deletion is refused (`quotes.go:571`).
* The acceptance of a proposal fails whenever its project has a role, or a cost worth
  something (`models/management.go:306`, `:367`).

Seen in the models, without a run of their own:

* Two concurrent postings pass the check of the sum and together overspend a payment
  (`journal.go:333` against `budgets.go:267`); `OverspendBounded` says by how much.
* The budget of an accepted standalone quote is a stale total when an item is edited between
  the reads and the commit (`quotes.go:590`).
* A quote typed with the number `1-R2` blocks every revision of `1` (`quotes.go:466`), which
  `mcp/protocol.go:335` offers for any quote: `OnlyTypedNumbersBlock` says that only a typed number does.
* A revision of an execution copy, say of `1-R2-EXEC`, is numbered `1-R3` and so takes the
  number of the next revision of `1`; a revision of `1-EXEC` takes the key and version that the
  copy of `1-R2` needs (`models/management.go:177`, `:277`).
* An item may join a proposal after its items were copied to a revision and before the
  revision locks it (`models/management.go:187`).
* A proposal version can be deleted whatever its status (`models/management.go:155`), although
  `README.md:82` says that old versions are locked and kept (舊版鎖定保留). Proposals has these deletions, and
  maps them to steps of the life cycle (`MayDelete <- Status`): `ImplementsLifeCycle` says there that a
  revised or accepted version never becomes a draft again, not that it stays.
* The form for a posting checks that the user may write the transaction and not the project whose
  budget it charges (`journal.go:296-312`), and the deletion of a posting takes any id
  (`journal.go:361`), so accountants change budgets of projects they have no access to, against the permissions
  per project of `README.md:61`; the MCP tool checks the project (`protocol.go:251`). Access has both, and
  `WritesAreGranted` leaves out just these: the charged project of a form and the posting that is deleted.
* An edit lowers a payment below its splits (`journal.go:406`); `lowered` keeps such
  payments apart in Postings.
* The default number `COUNT(*) + 1` is taken after a deletion (`quotes.go:194`).
* The web form adds items to versions that are no longer drafts (`quotes.go:283`), and
  an upload that began on a draft ends on a sent version (`quote_attachments.go:66`).
* A crash, or an ignored error, between disabling a user and deleting his sessions keeps
  them (`users.go:84`); `lost` keeps such users apart in Users.
* On GCS a deletion that stopped half way cannot be repeated (`quotes.go:572`).
* Siblings of a revised version each create a project when accepted.
* A code that a CSV file takes ahead of the ids blocks new transactions until an id has passed
  it (`models/models.go:128`): the exception in `NextCodeFree`.
* A CSV line that names one unknown account is imported as an income or an expense instead of
  a transfer (`csv.go:174`); one that moves money from an account to itself is imported, although
  the form refuses it (`journal.go:459`), and is the exception in `RunningBalances`.
* The MCP tool checks no date (`protocol.go:764`); a row without a month is in the balances and
  in no profit and loss statement, the exception in `ProfitsAddUpToBalances`.
* Access that is revoked, or a row that moves, between its check and the write does not stop the
  write (`journal.go:402`): `overtaken` in `WritesAreGranted`.
* Two exchanges of one code that both read it before either marks it get a token each
  (`oauth.go:168`): `excused` in `OneTokenPerCode`.
* A disabled user's tokens work again when he is enabled: nothing sets `revoked_at`.

Seen while reading, in parts that are not modelled:

* `accounts.go:47` and the dashboard compute assets minus liabilities, while the balance of a
  liability is already negative by `queries.go:105`.
* An accountant who accepts a project quote by MCP is granted the new project by a statement after
  the commit (`mcp/management.go:80`), on the web he is not (`handlers/management.go:200`).
* The list of the journal reads rows, balances and all rows by separate statements
  (`journal.go:40-59`); a row deleted in between is shown empty.
* `update_project` reads and writes whole rows, so of two edits one may be lost (`protocol.go:530`).

## What is proved

Every invariant, action property and refinement that a passing run checks is also the
statement of a theorem; only the liveness property is not. The theorems hold for all values
of the constants that satisfy the assumptions of their module, hence for any number of
requests, rows and amounts. The assumptions are `ConstantsAssumption` of each module (types
and bounds that are numbers) and, in Postings, `FiniteAssumption`: at any moment there
are finitely many requests and projects, which a sum over them needs.

* **SetLemmas** is what the components share. Induction is stated with a set in place of a
  predicate (`NatSet`, `SubsetInduction`), because the provers cannot instantiate an operator.
  `SumOf(f, S)` is the fold behind `MapThenSumSet`, with a function in place of the operator:
  it exists and is unique (`SumExists`, `SumUnique`), and it adds, subtracts, renames, bounds,
  and splits along partitions. Each module of proofs has one or more lemmas that its own sums are such
  sums. `Sorted` and `ListedAll` are about lists in a strict total order.
* **PostingsProofs** – `TypeCorrect`, `KindsMatch`, `ChargesLive` from `IInv`, which adds
  to the properties that ids come from the sequences, that allocations belong to live
  projects, and `CheckedRequestsFit`: what a request that has passed the check of the kind
  carries still fits the allocation it names *if that allocation still exists*. This is
  the reason why checking before the INSERT is sound for the kind: neither project nor kind of
  an allocation ever changes, and ids are not reused. `SpendingBounded` needs a second
  invariant, `SInv`: what a payment's splits and the requests that have passed the check of
  the sum will split off it together (`SpendingHeld`) stay within the number of requests times the
  amount. A request that passes the check saw splits that leave room for its own; the others
  reserve at most a limit each, and `LimitsHeld` says that the limit a request read is at most the amount
  unless an edit lowered it.
  `ReportsComplete`: the postings of the reports of all projects and of the company pool are a partition of the charged ones.
* **QuotesProofs** – `ExactlyOneProject`, `ProjectKept`, `ParentsStay`,
  `NumberFree`, `LockedFrozen`. `IInv` is the conjunction of `RowsOK` (types and keys), `IdsFromSequence`, `VersionsInv`
  (versions, parents and links fit together) and `RequestsKnow` (what a request in flight
  may still rely on). `NumberFree` holds for whatever numbers are typed: a version that is
  not a first one has its version as its suffix (`NumbersAreVersions`) and so lies below
  `NextVersion` (`NextVersionAbove`). `TypeCorrect` rests on `AmountsInv` too:
  items are finitely many, so that a total is a number, and no budget is negative.
  `LifeCycleImplemented`: Quotes implements LifeCycle. A step simulation: under
  `IInv`, rows correspond to abstract versions one to one (`Views`), and one lemma for each handler
  that changes quotes or projects names the abstract action it performs (`AcceptLives`,
  `ReviseLives`, `DeleteLives`, `CreateLives`, `ProjectLives`, `HeaderLives`); all others change
  nothing the life cycle sees (`QuietLives`).
* **ProposalsProofs** – `TypeCorrect`, `ExecutedOnce`, `BudgetAsAccepted`, `VersionsAscend`, `LifeCycleImplemented`.
  The invariant says what the row lock of an acceptance is for: of the requests past
  `SELECT ... FOR UPDATE` no two are about the same version, and it is not accepted yet (`HoldersExclude`); once
  the items are read, none joins or goes until the commit (`ReadIsTotal`), since the foreign key of a new item waits
  for that lock; a revision in flight is ahead of what it revises (`RevisionsAhead`); a version that
  became a project stays accepted (`SourcesAccepted`). The refinement follows that of Quotes.
* **AttachmentsProofs** – `TypeCorrect`, `NoDanglingRow`, `NoForgottenObject`, for both kinds of store. Neither property is
  inductive. A key that a request may still insert a row for has its object, no row, and nobody else
  knows it (`PendingApart`, `MadeApart`); what a request deletes next belongs to no row but a
  condemned one (`DoomedCondemned`); what it need not clean up if it ends as planned has a row or a
  recorded failure (`Accounted`). Three lemmas cover the steps: those that add neither rows nor objects, those that
  add objects and those that add rows.
* **UsersProofs** – `TypeCorrect`, `NoOrphanSession`, `LastOwner`, `DisabledSignedOut`, `PasswordSignsOut`, all for
  any number of requests and any set of forms. `Knows` says what a request in flight may rely on until
  it is overtaken: past the guard, that its write leaves an active owner (`SafeWrite`); between the two
  statements of a log-in, that the user still has the activation and the password it read (`FreshLogin`). With it,
  `LastOwner` needs one look at the write, and the two sign-out properties are inductive together
  (`SignOutInv`).
  `MCUsersOwnerRace` and `MCUsersPasswordRace` show that without the histories these do not hold.
* **JournalProofs** – `TypeCorrect` and `CodesFree`. A generated code is `MAX(id) + 1` of a moment
  ago, so the invariant `IInv` says that no row has a generated code above its own id
  (`CodesBehindIds`: rows that came or went since only raised the sequence) and that a request
  about to insert one holds at most the next id (`RequestsInv`). Then `NextCode`, which lies
  above every id, is free unless a CSV file brought it. `BalancesComplete` and `ProfitsAgree` add
  `RowsHaveSides`: every row has an account on some side, every account that a row names exists, a
  category is one row. Balances partition the incoming and the outgoing rows by account, profits
  by year, month and category. `RunningBalancesRight`: ids and dates order the rows strictly, so any
  selection has a sorted list (`Listed`); behind each row of it lies exactly what `Until` names (`Rests`); undoing a
  row is counting without it (`OneRowLess`), and by induction along the list the recursive function of
  `TransactionViews` is the balance of the rows that are left (`UndoneBalances`).
* **AccessProofs** – all five properties of Access, each with an invariant of its own on top of
  `TypeInv` (types, references, and that every request that is not idle acts for a user).
  `TypeCorrect`; `WritesGranted` with `CheckedInv`: what a request has checked so far still
  holds or the request was overtaken, from its first check on, not only at the write. What a user may do rests
  on the grants of the projects of a transaction and of the project itself (`RestsOn`), so a step that
  takes a grant, a project or a posting overtakes only those that rely on it (`MayStays`), and one that adds
  a posting nobody (`MayKept`);
  `CreatorsWrite` with `CreatorInv`: a request about to grant names its own project;
  `OneToken` with `ExchangeInv`: while nothing excuses a second token, one request at most
  exchanges a code, before there is a token, and the mark comes first; `WritersLogged`
  with `LogInv`, from two lemmas: a call that is accounted for stays so
  (`StaysAccounted`), and a row carries only calls that are (`RowsCarryCalls`).

Only model-checked: `ExpiredSessionsGo`, because liveness under fairness is out of the provers'
reach, and the four violations. No theorem assumes more than its module does.

## Plan

1. Deadlock freedom of Proposals as an invariant: of the requests that wait for a row lock, one
   can always go on.
2. Quotes with percent discounts and taxes: whether the rounding of a total can change between a
   version and its acceptance.
3. Time entries and receivables of the workspace, and what an acceptance copies of them.
