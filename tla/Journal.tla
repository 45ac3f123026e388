------------------------------- MODULE Journal -------------------------------
(***************************************************************************)
(* The journal: transactions with the accounts, categories and             *)
(* counterparties that they refer to, entered by the web form, by the MCP  *)
(* tools and by CSV import (internal/handlers/journal.go, csv.go,          *)
(* accounts.go, categories.go, counterparties.go; internal/models).        *)
(*                                                                         *)
(* No handler uses a transaction.  A new row takes up to four statements:  *)
(* find the counterparty, create it, read MAX(id) for the code, insert.    *)
(* What is typed is not looked at in between, so the form is chosen by the *)
(* action that writes it.  Projects, budgets and files of transactions are *)
(* in Postings, Access and Attachments.                                    *)
(***************************************************************************)
EXTENDS Ledger

CONSTANTS
  Req,          \* request goroutines
  Name,         \* names of counterparties that users type
  Form,         \* what forms may hold: accounts, category, amount, date
  TypedCode,    \* codes that a CSV file may hold
  Group,        \* groups a category may be moved to
  MaxAccount,   \* bound: accounts ever created
  MaxParty,     \* bound: counterparties ever created
  MaxTx         \* bound: ids of transactions ever used

CategoryGroup == {"income", "cost", "expense", "equity", "other"}

ASSUME ConstantsAssumption ==
  /\ \A f \in Form : /\ f.from \in Nat /\ f.to \in Nat /\ f.cat \in Nat
                     /\ f.cents \in Nat \ {0} /\ f.date \in Nat
  /\ TypedCode \subseteq Nat /\ Group \subseteq CategoryGroup
  /\ MaxAccount \in Nat /\ MaxParty \in Nat /\ MaxTx \in Nat

VARIABLES
  accounts,     \* ids of accounts
  categories,   \* rows of categories
  parties,      \* rows of counterparties
  txs,          \* rows of transactions; n stands for the code "T" with n
  seq,          \* last id of each table's sequence
  req           \* local state of each request

tables == <<accounts, categories, parties, txs, seq>>
vars == <<accounts, categories, parties, txs, seq, req>>

CategoryRow == [id: Nat, group: CategoryGroup]
PartyRow    == [id: Nat, name: Name]
TxRow == [id: Nat, code: Nat, from: Nat, to: Nat, cat: Nat, cents: Nat, date: Nat,
          imported: BOOLEAN]   \* history: the code was typed in a CSV file

Request ==
  [pc: {"idle",
        "line",      \* an import before its next line
        "party",     \* next: INSERT of the counterparty
        "code",      \* next: SELECT MAX(id)
        "insert",    \* next: INSERT of the transaction
        "update"},   \* next: UPDATE of the transaction
   op: {"none", "create", "update", "import"},
   name: Name \cup {""},   \* of the counterparty that is to be created
   party: Nat,             \* the counterparty, once it is known
   code: Nat, typed: BOOLEAN,
   known: Nat]             \* an import: the last account when it started

Idle == [pc |-> "idle", op |-> "none", name |-> "", party |-> 0, code |-> 0,
         typed |-> FALSE, known |-> 0]

Id(rows) == {row.id : row \in rows}

\* Foreign keys, where 0 is NULL.
Refers(id, ids) == id = 0 \/ id \in ids

RowsOK ==
  /\ accounts \subseteq Nat
  /\ categories \subseteq CategoryRow
  /\ parties \subseteq PartyRow
  /\ txs \subseteq TxRow
  /\ seq \in [account: Nat, party: Nat, tx: Nat]
  /\ req \in [Req -> Request]

\* The schema's types, keys and references hold, although requests that overlap
\* compute the same code, or use what another has deleted (schema.sql:43-50).
TypeOK ==
  /\ RowsOK
  /\ \A t \in txs : /\ \A u \in txs : (t.id = u.id \/ t.code = u.code) => t = u
                    /\ Refers(t.from, accounts) /\ Refers(t.to, accounts)
                    /\ Refers(t.cat, Id(categories))

\* A new database is seeded with accounts and categories.
Init ==
  /\ accounts = {1} /\ parties = {} /\ txs = {}
  /\ categories = {[id |-> 1, group |-> "income"], [id |-> 2, group |-> "expense"]}
  /\ seq = [account |-> 1, party |-> 0, tx |-> 0]
  /\ req = [r \in Req |-> Idle]

Become(r, state) == req' = [req EXCEPT ![r] = state]

\* The answer; an import goes on with its next line, whatever became of this one.
Respond(r) ==
  Become(r, IF req[r].op = "import"
              THEN [Idle EXCEPT !.pc = "line", !.op = "import", !.known = req[r].known]
              ELSE Idle)

ForeignKeysHold(form, party) ==
  /\ Refers(form.from, accounts) /\ Refers(form.to, accounts)
  /\ Refers(form.cat, Id(categories)) /\ Refers(party, Id(parties))

-----------------------------------------------------------------------------
(* Entering a transaction.                                                 *)

\* What comes after the counterparty.
AfterParty(q, party) ==
  [q EXCEPT !.name = "", !.party = party,
            !.pc = IF q.op = "update" THEN "update" ELSE IF q.typed THEN "insert" ELSE "code"]

\* No name, no counterparty; else the one of that name, or a new one.
FindParty(r, q) ==
  \/ Become(r, AfterParty(q, 0))
  \/ \E p \in parties : Become(r, AfterParty(q, p.id))
  \/ \E name \in Name : /\ \A p \in parties : p.name # name
                        /\ Become(r, [q EXCEPT !.pc = "party", !.name = name])

\* A form or a tool call: it is complete, or refused before any statement.
StartTransaction(r) ==
  /\ req[r].pc = "idle"
  /\ \E op \in {"create", "update"} : FindParty(r, [Idle EXCEPT !.op = op])
  /\ UNCHANGED tables

\* The accounts are looked up by name once, before the first line.
StartImport(r) ==
  /\ req[r].pc = "idle"
  /\ Become(r, [Idle EXCEPT !.pc = "line", !.op = "import", !.known = seq.account])
  /\ UNCHANGED tables

\* The next line; its code is typed or left to be generated.
ImportLine(r) ==
  /\ req[r].pc = "line"
  /\ \/ FindParty(r, req[r])
     \/ \E n \in TypedCode : FindParty(r, [req[r] EXCEPT !.code = n, !.typed = TRUE])
  /\ UNCHANGED tables

ImportEnds(r) ==
  /\ req[r].pc = "line"
  /\ Become(r, Idle)
  /\ UNCHANGED tables

\* The name is unique; if another request was faster, this one fails.
CreateParty(r) ==
  /\ req[r].pc = "party"
  /\ seq.party < MaxParty
  /\ IF \A p \in parties : p.name # req[r].name
       THEN /\ parties' = parties \cup {[id |-> seq.party + 1, name |-> req[r].name]}
            /\ Become(r, AfterParty(req[r], seq.party + 1))
       ELSE UNCHANGED parties /\ Respond(r)
  /\ seq' = [seq EXCEPT !.party = @ + 1]
  /\ UNCHANGED <<accounts, categories, txs>>

\* Slip: numbering by the count of transactions.
SlipNextCode == Cardinality(txs) + 1

NextCode == Max({0} \cup Id(txs)) + 1

GenerateCode(r) ==
  /\ req[r].pc = "code"
  /\ Become(r, [req[r] EXCEPT !.pc = "insert", !.code = NextCode])
  /\ UNCHANGED tables

\* Slip: a code column without UNIQUE.
SlipCodeTaken(code) == FALSE

CodeTaken(code) == \E t \in txs : t.code = code

\* What the request may write.  A form never moves money from an account to itself.
\* A line of a CSV file may; but it has a real date, and an account that was created
\* after the import began counts as none.
Writable(q, f) ==
  /\ f.from # 0 \/ f.to # 0
  /\ IF q.op = "import"
       THEN f.from <= q.known /\ f.to <= q.known /\ Month(f) \in 1..12
       ELSE f.from # f.to

\* The id of an INSERT that fails is used up.
InsertTransaction(r) ==
  /\ req[r].pc = "insert"
  /\ seq.tx < MaxTx
  /\ \E f \in Form :
       /\ Writable(req[r], f)
       /\ IF ForeignKeysHold(f, req[r].party) /\ ~CodeTaken(req[r].code)
            THEN txs' = txs \cup {[id |-> seq.tx + 1, code |-> req[r].code,
                   from |-> f.from, to |-> f.to, cat |-> f.cat, cents |-> f.cents,
                   date |-> f.date, imported |-> req[r].typed]}
            ELSE UNCHANGED txs
  /\ seq' = [seq EXCEPT !.tx = @ + 1]
  /\ Respond(r)
  /\ UNCHANGED <<accounts, categories, parties>>

\* Every field but the code is overwritten; a row that is gone is no error.
UpdateTransaction(r) ==
  /\ req[r].pc = "update"
  /\ \E id \in 1..seq.tx, f \in Form :
       /\ Writable(req[r], f)
       /\ IF ForeignKeysHold(f, req[r].party)
            THEN txs' = {IF t.id # id THEN t
                         ELSE [t EXCEPT !.from = f.from, !.to = f.to, !.cat = f.cat,
                                        !.cents = f.cents, !.date = f.date] : t \in txs}
            ELSE UNCHANGED txs
  /\ Respond(r)
  /\ UNCHANGED <<accounts, categories, parties, seq>>

\* A lost connection, a failed statement or a restart; what was written stays.
RequestFails(r) ==
  /\ req[r].pc # "idle"
  /\ Become(r, Idle)
  /\ UNCHANGED tables

-----------------------------------------------------------------------------
(* Handlers of a single statement.                                         *)

DeleteTransaction ==
  /\ \E t \in txs : txs' = txs \ {t}
  /\ UNCHANGED <<accounts, categories, parties, seq, req>>

AccountCreate ==
  /\ seq.account < MaxAccount
  /\ accounts' = accounts \cup {seq.account + 1}
  /\ seq' = [seq EXCEPT !.account = @ + 1]
  /\ UNCHANGED <<categories, parties, txs, req>>

\* Slip: REFERENCES accounts(id) ON DELETE SET NULL, as for projects.
SlipUnused(a) == \A t \in txs : t.from # a \/ t.to # a

\* ON DELETE RESTRICT
Unused(a) == \A t \in txs : t.from # a /\ t.to # a

AccountDelete ==
  /\ \E a \in accounts : Unused(a) /\ accounts' = accounts \ {a}
  /\ UNCHANGED <<categories, parties, txs, seq, req>>

CategoryUpdate ==
  /\ \E c \in categories, g \in Group :
       categories' = (categories \ {c}) \cup {[c EXCEPT !.group = g]}
  /\ UNCHANGED <<accounts, parties, txs, seq, req>>

CategoryDelete ==
  /\ \E c \in categories :
       (\A t \in txs : t.cat # c.id) /\ categories' = categories \ {c}
  /\ UNCHANGED <<accounts, parties, txs, seq, req>>

CounterpartyCreate ==
  /\ seq.party < MaxParty
  /\ \E name \in Name :
       /\ \A p \in parties : p.name # name
       /\ parties' = parties \cup {[id |-> seq.party + 1, name |-> name]}
  /\ seq' = [seq EXCEPT !.party = @ + 1]
  /\ UNCHANGED <<accounts, categories, txs, req>>

CounterpartyUpdate ==
  /\ \E p \in parties, name \in Name :
       /\ \A other \in parties \ {p} : other.name # name
       /\ parties' = (parties \ {p}) \cup {[p EXCEPT !.name = name]}
  /\ UNCHANGED <<accounts, categories, txs, seq, req>>

\* Transactions lose the reference, which is not modelled.
CounterpartyDelete ==
  /\ \E p \in parties : parties' = parties \ {p}
  /\ UNCHANGED <<accounts, categories, txs, seq, req>>

Next ==
  \/ \E r \in Req :
       \/ StartTransaction(r) \/ StartImport(r) \/ ImportLine(r) \/ ImportEnds(r)
       \/ CreateParty(r) \/ GenerateCode(r)
       \/ InsertTransaction(r) \/ UpdateTransaction(r) \/ RequestFails(r)
  \/ DeleteTransaction
  \/ AccountCreate \/ AccountDelete
  \/ CategoryUpdate \/ CategoryDelete
  \/ CounterpartyCreate \/ CounterpartyUpdate \/ CounterpartyDelete

Spec == Init /\ [][Next]_vars

-----------------------------------------------------------------------------
(* Properties.                                                             *)

\* models.go:125, "the next T-prefixed sequential transaction code": the code that
\* the next transaction would get is free unless a CSV file has taken it, whatever
\* was deleted, updated, or failed half way before (models.go:128, queries.go:455).
NextCodeFree == \A t \in txs : t.code = NextCode => t.imported

\* README.md:95: the balances of the accounts (queries.go:105-146) account for every
\* cent that ever came in or went out: together they are the sum of the signed
\* amounts (models.go:112-124), because no account with transactions can go.
BalancesCoverEveryCent ==
  MapThenSumSet(LAMBDA a : AccountBalance(txs, a), accounts) = SignedSum(txs)

\* journal.go:118: "the balance immediately after each listed transaction".  For an
\* owner, who sees all transactions, and for an accountant, who sees some and gets
\* balances of these (journal.go:63): undoing the list from today's balances gives, for
\* every transaction between different accounts, what adding up the visible
\* transactions until then gives.
RunningBalances ==
  \A visible \in SUBSET txs :
    LET list  == ListTransactions(visible)
        views == TransactionViews(list, AccountBalances(visible, accounts))
        Until(t) == {u \in visible : ~Newer(u, t)}
    IN \A i \in 1..Len(list) : list[i].from # list[i].to =>
         /\ list[i].from # 0 => views[i].from = AccountBalance(Until(list[i]), list[i].from)
         /\ list[i].to # 0 => views[i].to = AccountBalance(Until(list[i]), list[i].to)

\* The rows that the statement and the balances must agree on: a month, and a category
\* on the side that the money moves to.
Plain(t) ==
  /\ Month(t) \in 1..12
  /\ \E c \in categories : /\ c.id = t.cat
                           /\ CASE Type(t) = "income"  -> c.group = "income"
                                [] Type(t) = "expense" -> c.group \in {"cost", "expense"}
                                [] OTHER               -> FALSE

\* The profit and loss statements of all years (pnl.go:40) and the balances of the
\* accounts are computed by different queries over different tables; if every row is
\* plain or a transfer without a category, the profits add up to the balances.
ProfitsAddUpToBalances ==
  (\A t \in txs : Plain(t) \/ (Type(t) = "transfer" /\ t.cat = 0)) =>
    MapThenSumSet(LAMBDA y : NetProfit(txs, categories, y, 13), AvailableYears(txs))
      = MapThenSumSet(LAMBDA a : AccountBalance(txs, a), accounts)
=============================================================================
