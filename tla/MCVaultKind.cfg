\* What create stores cannot always be resolved: the kind is trimmed in between.
SPECIFICATION Spec
CONSTANTS
  old = old
  mid = mid
  new = new
  plain = plain
  padded = padded
  None = None
  Profile = {p1}
  Org = {o1, o2}
  Secret = {s1, s2}
  Call = {c1, c2}
  Store <- MCStore
  Key <- MCKey
  Ring <- MCRing
  Current <- MCCurrent
  Kind <- MCKind
  Trim <- MCTrim
INVARIANT
  CreatedResolves
