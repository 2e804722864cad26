\* The inventory: every request ends, deadlocks included.
SPECIFICATION FairSpec
CONSTANTS
  i1 = i1
  i2 = i2
  Device = {d1, d2}
  Identifier = {i1, i2}
  Value = {}
  Tx = {t1, t2}
  IdLists <- BothOrders
  MaxVersion = 2
  Null = Null
  Undeclared = Undeclared
  NoDevice = NoDevice
  NoTx = NoTx
PROPERTIES
  EveryRequestEnds
CHECK_DEADLOCK FALSE
