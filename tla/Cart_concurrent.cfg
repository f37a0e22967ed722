SPECIFICATION Spec
CONSTANTS
  Users = {u}
  Sessions = {s}
  NumVariants = 1
  Quantities = {0, 1, 2}
  Stocks = {0, 2}
  Requests = {r1, r2}
  MaxRequests = 4
  MaxEdits = 1
SYMMETRY Symmetry
INVARIANTS TypeOK OneRowPerLine NothingInvented
PROPERTIES LoginKeepsLines UndisturbedIsExact
CHECK_DEADLOCK FALSE
