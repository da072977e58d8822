SPECIFICATION Spec
CONSTANTS
  m = m
  r = r
  Users = {m, r}
  RoleOf <- MCRoleOf
  Sessions = {s1, s2}
  Workpapers = {w1}
  Issues = {i1}
  Findings = {f1}
  SourceOf <- MCSourceOf
  Pbcs = {p1}
  MaxReports = 2
  None = None
SYMMETRY SessionSymmetry
INVARIANTS
  TypeOK
  SingleFreeze
  FrozenResolvedUnlessRaced
  ClosedOnIndependentEvidence
PROPERTIES
  FrozenRowsOnlyRaced
  LifecyclePromise
