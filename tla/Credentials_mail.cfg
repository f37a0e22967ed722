SPECIFICATION MCSpec
CONSTANTS
  Orders = {o1}
  Guests = {}
  Requests = {r1, r2}
  MaxRequests = 4
  MaxRestarts = 1
SYMMETRY Symmetry
INVARIANTS TypeOK ShippedIsTold
PROPERTIES OneReset EnabledIsVerified HolderGetsIn
CHECK_DEADLOCK FALSE
