\* The domain rules: changes, trials, tokens, scopes, prefixes, devices and probes.
SPECIFICATION Spec
CONSTANTS
  s1 = s1
  s2 = s2
  p = p
  q = q
  Skew = 1
  MaxLifetime = 3
  Width = 3
  MinTimeout = 1
  MaxTimeout = 3
  Limit = 4
  Window = 1
  NoSite = NoSite
  Fingerprint = {p, q}
  MaxTargets = 3
  MaxUsage = 3
  Horizon = 6
  Id <- MCId
  Subject <- MCSubject
INVARIANTS
  RulesAreExact
PROPERTIES
  NoDecisionComesBack
CHECK_DEADLOCK FALSE
