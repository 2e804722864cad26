\* The inventory: two requests side by side, safety.
SPECIFICATION Spec
CONSTANTS
  i1 = i1
  i2 = i2
  Device = {d1, d2}
  Identifier = {i1, i2}
  Value = {v1}
  Tx = {t1, t2}
  IdLists <- BothOrders
  MaxVersion = 3
  Null = Null
  Undeclared = Undeclared
  NoDevice = NoDevice
  NoTx = NoTx
SYMMETRY Symmetry
INVARIANTS
  TypeOK
  OneOwner
  NoChangeIsLost
PROPERTIES
  TrailIsGapless
  ImplementsDeviceRegister
CHECK_DEADLOCK FALSE
