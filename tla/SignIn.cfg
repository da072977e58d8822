SPECIFICATION Spec
CONSTANTS
  Users = {u1}
  Networks = {n1}
  None = None
  Handlers = {h1, h2}
  Tokens = {t1, t2}
  Logins = {l1, l2}
  EmailLimit = 1
  NetworkLimit = 2
  LoginLimit = 1
  Window = 2
  SessionTtl = 2
  MaxTime = 3
SYMMETRY IdSymmetry
INVARIANTS TypeOK SingleUse IssueLimited
PROPERTIES SessionHonoured
