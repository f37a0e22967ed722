SPECIFICATION MCSpec
CONSTANTS
  Variants = {v1}
  Orders = {o1, o2}
  Handlers = {h1, h2}
  Carts <- MCCarts
  Methods = {"stripe", "swish"}
  Answers = {"swish_paid"}
  Scopes = {"user"}
  Stocks = {1}
  Caps = {}
  NoCap = NoCap
  ItemsEager = FALSE
  MaxDeducts = 2
  MaxChanges = 0
  MaxCrashes = 0
  MaxQty = 1
SYMMETRY Symmetry
VIEW MCCore
INVARIANTS TypeOK NoOversell FulfilledWasDeducted FulfilledWasPaid PaidIsNotPending
PROPERTIES ShippedFromConfirmed
CHECK_DEADLOCK FALSE
