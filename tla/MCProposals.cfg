SPECIFICATION Spec
CONSTANTS
  Req = {r1, r2}
  MaxBase = 1
  MaxQuote = 4
  MaxItem = 1
  MaxProject = 3
  MaxStaffed = 1
SYMMETRY ReqSymmetry
INVARIANT TypeOK
INVARIANT OneExecution
INVARIANT BudgetIsAcceptedTotal
INVARIANT HistoryAscends
PROPERTY ImplementsLifeCycle
