SPECIFICATION Spec
CONSTANTS
  Req = {r1, r2}
  User = {u1}
  MaxProject = 2
  MaxTx = 1
  MaxCode = 1
  MaxToken = 2
  MaxCall = 1
  MaxRows = 3
SYMMETRY Symmetry
INVARIANT TypeOK
INVARIANT WritesAreGranted
INVARIANT CreatorsMayWrite
INVARIANT OneTokenPerCode
INVARIANT WritersAreLogged
CHECK_DEADLOCK FALSE
