\* The audit chain: three transactions, two organizations.
SPECIFICATION FairSpec
CONSTANTS
  Org = {o1, o2}
  Tx = {t1, t2, t3}
INVARIANTS
  TypeOK
  PositionIsFresh
  ChainIsLinked
  VerifyIsExact
PROPERTIES
  ImplementsAuditLog
  EveryAppendEnds
CHECK_DEADLOCK FALSE
