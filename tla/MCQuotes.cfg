SPECIFICATION Spec
CONSTANTS
  Req = {r1, r2}
  Accountant = {u1}
  Base = {1}
  TypedRev = {1, 2}
  MaxCents = 0
  MaxDiscount = 0
  MaxQuote = 3
  MaxItem = 0
  MaxProject = 2
SYMMETRY ReqSymmetry
INVARIANT OneProjectPerAcceptedVersion
INVARIANT RevisionKeepsProject
INVARIANT EveryRevisionHasParent
INVARIANT OnlyTypedNumbersBlock
PROPERTY ImplementsLifeCycle
