SPECIFICATION Spec
CONSTANTS
  Req = {r1, r2}
  Form <- ManyForms
  NewRole = {"owner", "accountant", "viewer"}
  MaxUser = 2
  MaxSession = 2
  MaxPassword = 1
SYMMETRY ReqSymmetry
INVARIANT OwnerRemains
