\* Service accounts: four requests, two credentials, an account and a foreign role.
SPECIFICATION Spec
CONSTANTS
  o1 = o1
  o2 = o2
  a1 = a1
  r1 = r1
  r2 = r2
  view = view
  manage = manage
  inside = inside
  outside = outside
  Org = {o1, o2}
  Account = {a1}
  Credential = {k1, k2}
  Role = {r1, r2}
  Permission = {view, manage}
  Address = {inside, outside}
  Call = {c1, c2, c3, c4}
  OrgOf <- MCOrgOf
  RoleOrg <- MCRoleOrg
  Grants <- MCGrants
  ScopeLists <- MCScopeLists
  CidrLists <- MCCidrLists
  AnyAddress = AnyAddress
  NoOrg = NoOrg
  Forged = Forged
  Nobody = Nobody
SYMMETRY Symmetry
INVARIANTS
  TypeOK
  NoIsFinal
  AuthenticateIsExact
CHECK_DEADLOCK FALSE
