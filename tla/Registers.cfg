SPECIFICATION Spec
CONSTANTS
  a = a
  b = b
  first = first
  second = second
  third = third
  Users = {a, b}
  RoleOf <- MCRoleOf
  Sessions = {s1, s2}
  Records = {first, second, third}
  Layouts <- MCLayouts
  None = None
\* A row in a final status leaves nothing to request.
CHECK_DEADLOCK FALSE
SYMMETRY SessionSymmetry
INVARIANTS
  TypeOK
  ApprovedIndependently
  VerifiedBeforeWork
  BreachNotifiedBeforeClose
  ActiveOnFile
  CandidateMadeOnce
PROPERTIES
  FinalStays
  Grounded
