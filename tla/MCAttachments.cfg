SPECIFICATION Spec
CONSTANTS
  Req = {r1, r2}
  StrictDelete = TRUE
  MaxFiles = 2
  MaxQuote = 2
  MaxPayment = 1
  MaxKey = 3
SYMMETRY ReqSymmetry
INVARIANT TypeOK
INVARIANT FilesOutliveRows
INVARIANT OrphansHaveCause
