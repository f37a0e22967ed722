SPECIFICATION Spec
CONSTANTS
  MaxUsers = 5
  e1 = e1
  e2 = e2
  Emails = {e1, e2, e3}
  Identities = {g}
  Opening <- MCOpening
  Requests = {r1, r2}
  MaxRequests = 3
INVARIANTS TypeOK WelcomedHaveAccounts
PROPERTIES UndisturbedSucceeds AnAdminRemains OneAccountPerIdentity
CHECK_DEADLOCK FALSE
