SPECIFICATION Spec
CONSTANTS
  Req = {r1, r2}
  StrictDelete = FALSE
  MaxFiles = 2
  MaxQuote = 2
  MaxPayment = 1
  MaxKey = 2
SYMMETRY ReqSymmetry
INVARIANT LockedFilesStay
