SPECIFICATION Spec
CONSTANTS
  ada = ada
  rita = rita
  cleo = cleo
  s1 = s1
  s2 = s2
  fine = fine
  mistyped = mistyped
  missized = missized
  Users <- MCUsers
  RoleOf <- MCRoleOf
  Sessions = {s1, s2}
  Requests = {p1}
  Keys = {k1}
  Contents = {fine, mistyped, missized}
  Sized = {fine, mistyped}
  Typed = {fine, missized}
  None = None
SYMMETRY SessionSymmetry
INVARIANTS TypeOK CompletedOnEvidence DigestOfObject ClientCredited LocksOrdered
PROPERTIES VerifiedUpload WithinAssignment OnlyInTesting ObjectsKept
\* Once the engagement is frozen or deleted, the URLs are dead and every
\* grant is made, nothing is left to be done.
CHECK_DEADLOCK FALSE
