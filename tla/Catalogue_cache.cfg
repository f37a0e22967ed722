SPECIFICATION Spec
CONSTANTS
  MaxProducts = 2
  Prices = {1, 2}
  PerPage = 1
  Promotions = {p}
  Categories = {c}
  Opening <- MCOpening
  Drafts <- MCDrafts
  Followed <- MCFollowed
  Readers = {r}
  Admins = {a1, a2}
  MaxChanges = 2
  MaxSilent = 1
  MaxOutages = 1
INVARIANTS TypeOK QuietEntryIsExact
PROPERTIES UndisturbedCreateSucceeds StaleAnswersGo 
CHECK_DEADLOCK FALSE
