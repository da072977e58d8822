SPECIFICATION Spec
CONSTANTS
  m = m
  n = n
  Users = {m, n}
  RoleOf <- MCRoleOf
  Sessions = {s1, s2}
  Checks = {1, 2}
  Frameworks = {f1}
  Requirements = {q1}
  FrameworkOf <- MCFrameworkOf
  MaxPlans = 1
  MaxTime = 1
  None = None
CHECK_DEADLOCK FALSE
SYMMETRY SessionSymmetry
INVARIANTS
  TypeOK
  UnreadyOnlyLate
  PlanApprovedIndependently
PROPERTIES
  DecisionsKept
