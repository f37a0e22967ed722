SPECIFICATION FairSpec
CONSTANTS
  Variants = {v1}
  Orders = {o1}
  Handlers = {h1, h2}
  Carts <- MCCarts
  Methods = {"stripe"}
  Answers = {}
  Scopes = {"user"}
  Stocks = {1}
  Caps = {}
  NoCap = NoCap
  ItemsEager = TRUE
  MaxDeducts = 1
  MaxChanges = 0
  MaxCrashes = 1
  MaxQty = 1
PROPERTIES RequestEnds PaymentSettles
CHECK_DEADLOCK FALSE
