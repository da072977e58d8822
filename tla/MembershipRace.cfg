SPECIFICATION Spec
CONSTANTS
  a = a
  b = b
  c = c
  Users = {a, b, c}
  InitRole <- MCInitRole
  Invitations = {i1}
  Invitee <- MCInvitee
  Grants = {"ORG_ADMIN", "VIEWER"}
  Sessions = {s1, s2}
  None = None
CHECK_DEADLOCK FALSE
SYMMETRY AdminSymmetry
INVARIANTS
  TypeOK
  AdminLostOnlyByRace
