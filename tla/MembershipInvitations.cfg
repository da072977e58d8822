SPECIFICATION Spec
CONSTANTS
  a = a
  b = b
  c = c
  Users = {a, b, c}
  InitRole <- MCInitRole
  Invitations = {i1, i2}
  Invitee <- MCInvitee
  Grants = {"VIEWER"}
  Sessions = {s1, s2}
  None = None
CHECK_DEADLOCK FALSE
SYMMETRY AdminSymmetry
PROPERTIES
  InvitationPromise
