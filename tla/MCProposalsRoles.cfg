SPECIFICATION Spec
CONSTANTS
  Req = {r1, r2}
  MaxBase = 1
  MaxQuote = 2
  MaxItem = 1
  MaxProject = 2
  MaxStaffed = 1
SYMMETRY ReqSymmetry
PROPERTY AcceptanceSucceeds
