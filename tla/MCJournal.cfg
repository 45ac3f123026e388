SPECIFICATION Spec
CONSTANTS
  Req = {r1, r2}
  Name = {n1, n2}
  Form <- SomeForms
  TypedCode = {2}
  Group = {"expense"}
  MaxAccount = 2
  MaxParty = 1
  MaxTx = 2
SYMMETRY Symmetry
INVARIANT TypeOK
INVARIANT NextCodeFree
INVARIANT BalancesCoverEveryCent
INVARIANT RunningBalances
INVARIANT ProfitsAddUpToBalances
