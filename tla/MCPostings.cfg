SPECIFICATION Spec
CONSTANTS
  Req = {r1, r2}
  Project = {1, 2}
  MaxCents = 1
  MaxTx = 1
  MaxAlloc = 2
  MaxPosting = 3
SYMMETRY ReqSymmetry
INVARIANT TypeOK
INVARIANT KindMatchesAllocation
INVARIANT ReportsCoverEveryCharge
INVARIANT ChargesAreLive
INVARIANT OverspendBounded
