SPECIFICATION MCSpec
CONSTANTS
  Paths = {login}
  Limit = 2
  Window = 2
  Files = {}
  MaxOutages = 0
  MaxDeaths = 0
  MaxRestarts = 0
INVARIANT SlidingWindow
CHECK_DEADLOCK FALSE
