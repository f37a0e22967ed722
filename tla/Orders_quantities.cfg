SPECIFICATION Spec
CONSTANTS
  Variants = {v1, v2}
  Orders = {o1}
  Handlers = {h1, h2}
  Carts <- MCCarts
  Methods = {"stripe"}
  Answers = {}
  Scopes = {"user"}
  Stocks = {1, 2}
  Caps = {1, 2}
  NoCap = NoCap
  ItemsEager = FALSE
  MaxDeducts = 2
  MaxChanges = 1
  MaxCrashes = 1
  MaxQty = 2
SYMMETRY Symmetry
VIEW Core
INVARIANTS StockLedger UsesLedger
PROPERTIES ImplementsFulfilment
CHECK_DEADLOCK FALSE
