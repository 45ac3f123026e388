SPECIFICATION FairSpec
CONSTANTS
  Req = {r1, r2}
  Form <- TwoForms
  NewRole = {"owner"}
  MaxUser = 2
  MaxSession = 2
  MaxPassword = 1
INVARIANT TypeOK
INVARIANT DisabledUsersSignedOut
INVARIANT OnlyLateLoginsStay
INVARIANT SessionsHaveUsers
PROPERTY LastOwnerGuarded
PROPERTY ExpiredSessionsGo
