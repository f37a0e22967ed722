SPECIFICATION MCSpec
CONSTANTS
  Paths = {login, register}
  Limit = 2
  Window = 2
  Files = {f1, f2}
  MaxOutages = 2
  MaxDeaths = 1
  MaxRestarts = 1
INVARIANTS WindowBound NoLeftovers
PROPERTIES Unblocked Thumbnailed
CHECK_DEADLOCK FALSE
