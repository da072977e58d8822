SPECIFICATION Spec
CONSTANTS
  m = m
  a = a
  Users = {m, a}
  RoleOf <- MCRoleOf
  Sessions = {s1, s2}
  Findings = {f1}
  Remediations = {r1}
  Acceptances = {k1}
  FindingOf <- MCFindingOf
  MaxTime = 1
  None = None
SYMMETRY SessionSymmetry
INVARIANTS
  TypeOK
  ClosedOnRemedy
  RetestsIndependent
PROPERTIES
  DecidedOnce
  ClosedInTerm
