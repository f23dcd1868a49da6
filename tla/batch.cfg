SPECIFICATION Spec
CONSTANTS
  users = users
  orders = orders
  key = key
  None = None
  Batch <- Inputs
  Name = {users, orders, key}
  MaxSurplus = 2
CHECK_DEADLOCK FALSE
INVARIANTS
  EveryItemAccounted
  InlineColumnsInListedTable
  CreatedIsStored
  RelationsJoinNamedEnds
