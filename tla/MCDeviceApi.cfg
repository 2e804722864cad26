\* The device API: two requests, two sites, two replicas.
SPECIFICATION Spec
CONSTANTS
  s1 = s1
  s2 = s2
  d1 = d1
  editor = editor
  Replica = {r1, r2}
  Configured = {r1, r2}
  MaxStarts = 2
  Nobody = Nobody
  Device = {d1}
  Identifier = {}
  Value = {}
  Null = Null
  Undeclared = Undeclared
  Site = {s1, s2}
  SiteOf <- MCSiteOf
  Role = {editor}
  Grants <- MCGrants
  Bindable <- MCBindable
  Request <- MCRequest
  MaxVersion = 3
  Call = {c1, c2}
  NoSite = NoSite
  NoDevice = NoDevice
SYMMETRY Symmetry
INVARIANTS
  TypeOK
  WhatIsDoneWasPermitted
  AnswersAreTrue
  RetryIsSafe
  BootKeepsItsPromise
CHECK_DEADLOCK FALSE
