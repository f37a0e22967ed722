SPECIFICATION Spec
CONSTANTS
  Variants = {v1}
  Orders = {o1}
  Handlers = {h1, h2}
  Carts <- MCCarts
  Methods = {"stripe"}
  Answers = {}
  Scopes = {"user"}
  Stocks = {2}
  Caps = {}
  NoCap = NoCap
  ItemsEager = FALSE
  MaxDeducts = 2
  MaxChanges = 0
  MaxCrashes = 0
  MaxQty = 1
SYMMETRY Symmetry
VIEW Core
INVARIANTS SettledOnce
CHECK_DEADLOCK FALSE
