-------------------------------- MODULE Ledger --------------------------------
(***************************************************************************)
(* What the pages compute from the rows of transactions: the kind of a     *)
(* transaction and its sign, the balances of accounts, the balance after   *)
(* each transaction, the profit and loss statement, the company's worth.   *)
(*                                                                         *)
(* A row has an amount in cents, two accounts of which one may be 0        *)
(* (NULL), a category and a date.  A date is the number YYYYMM; days do    *)
(* not matter, and what MCP clients send may be no date at all.            *)
(***************************************************************************)
EXTENDS Integers, Sequences, FiniteSets, FiniteSetsExt

Sum(rows) == MapThenSumSet(LAMBDA t : t.cents, rows)

Year(t)  == t.date \div 100
Month(t) == t.date % 100

-----------------------------------------------------------------------------
(* Transactions.                                                           *)

Type(t) ==
  IF t.from # 0 /\ t.to # 0 THEN "transfer" ELSE IF t.to # 0 THEN "income" ELSE "expense"

\* From the company's perspective: positive for income, negative for expense.
SignedAmountCents(t) ==
  IF Type(t) = "income" THEN t.cents ELSE IF Type(t) = "expense" THEN -t.cents ELSE 0

SignedSum(rows) == MapThenSumSet(SignedAmountCents, rows)

-----------------------------------------------------------------------------
(* Balances.                                                               *)

AccountBalance(rows, a) == Sum({t \in rows : t.to = a}) - Sum({t \in rows : t.from = a})

AccountBalances(rows, accounts) == [a \in accounts |-> AccountBalance(rows, a)]

\* ORDER BY tx_date DESC, id DESC
Newer(t, u) == t.date > u.date \/ (t.date = u.date /\ t.id > u.id)

ListTransactions(rows) ==
  CHOOSE list \in [1..Cardinality(rows) -> rows] :
    \A i, j \in 1..Cardinality(rows) : i < j => Newer(list[i], list[j])

\* Slip: going back in time in the wrong direction for the paying account.
SlipUndo(balance, t) ==
  [a \in DOMAIN balance |-> balance[a] - (IF a \in {t.from, t.to} THEN t.cents ELSE 0)]

\* The balances before a transaction, from those after it.
Undo(balance, t) ==
  [a \in DOMAIN balance |->
    balance[a] + (IF a = t.from THEN t.cents ELSE 0) - (IF a = t.to THEN t.cents ELSE 0)]

\* The balance of each account of a transaction right after it: the list is
\* newest-first, so the current balances are undone row by row.  The receiving
\* account is looked up when the paying one has been undone already.
TransactionViews(txs, current) ==
  LET balance[i \in 0..Len(txs)] ==
        IF i = 0 THEN current ELSE Undo(balance[i - 1], txs[i])
      After(i, a) == IF a = 0 THEN 0 ELSE balance[i - 1][a]
  IN [i \in 1..Len(txs) |->
       [tx |-> txs[i],
        from |-> After(i, txs[i].from),
        to |-> After(i, txs[i].to) + (IF txs[i].from = txs[i].to THEN txs[i].cents ELSE 0)]]

-----------------------------------------------------------------------------
(* Profit and loss: for each category of the three groups twelve months    *)
(* and the year to date, column 13.                                        *)

Columns == 1..13

\* Income counts what comes in, cost and expense what goes out.
Counts(t, group) == IF group = "income" THEN t.to # 0 ELSE t.from # 0

MonthTotal(rows, cat, year, m) ==
  Sum({t \in rows : t.cat = cat.id /\ Year(t) = year /\ Month(t) = m /\ Counts(t, cat.group)})

CategoryTotal(rows, cat, year, column) ==
  IF column = 13
    THEN MapThenSumSet(LAMBDA m : MonthTotal(rows, cat, year, m), 1..12)
    ELSE MonthTotal(rows, cat, year, column)

GroupTotal(rows, cats, group, year, column) ==
  MapThenSumSet(LAMBDA cat : CategoryTotal(rows, cat, year, column),
                {cat \in cats : cat.group = group})

GrossProfit(rows, cats, year, column) ==
  GroupTotal(rows, cats, "income", year, column) - GroupTotal(rows, cats, "cost", year, column)

\* Slip: the gross profit shown as the net profit.
SlipNetProfit(rows, cats, year, column) == GrossProfit(rows, cats, year, column)

NetProfit(rows, cats, year, column) ==
  GrossProfit(rows, cats, year, column) - GroupTotal(rows, cats, "expense", year, column)

AvailableYears(rows) == {Year(t) : t \in rows}
=============================================================================
