SPECIFICATION Spec
CONSTANTS
  Req = {r1, r2}
  Accountant = {}
  Base = {1}
  TypedRev = {1}
  MaxCents = 0
  MaxDiscount = 1
  MaxQuote = 2
  MaxItem = 1
  MaxProject = 1
SYMMETRY ReqSymmetry
INVARIANT TypeOK
PROPERTY LockedVersionsFrozen
