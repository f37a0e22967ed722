SPECIFICATION Spec
CONSTANTS
  Tabs = {t1, t2}
  Calls = {c1, c2}
  Requests = {r1, r2}
  NoRequest = NoRequest
  MaxTokens = 3
  MaxLosses = 0
PROPERTY ReplayRevokes
CHECK_DEADLOCK FALSE
