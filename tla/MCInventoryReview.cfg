\* The inventory: the way from discovery to management that the test names.
SPECIFICATION Spec
CONSTANTS
  i1 = i1
  i2 = i2
  Device = {d1}
  Identifier = {i1, i2}
  Value = {v1}
  Tx = {t1}
  IdLists <- BothOrders
  MaxVersion = 4
  Null = Null
  Undeclared = Undeclared
  NoDevice = NoDevice
  NoTx = NoTx
INVARIANTS
  DiscoveredDevicesAreReviewed
CHECK_DEADLOCK FALSE
