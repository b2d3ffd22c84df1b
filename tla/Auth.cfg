CONSTANTS
  Email = {e1, e2}
  Password = {p1, p2}
  Subject = {s1}
  Proc = {r1, r2}
  MaxToken = 2
  MaxTime = 1
  MaxRequests = 5
  lockoutThreshold = 1
  lockoutBaseDelay = 1
  lockoutMaxDelay = 2
  resetTokenTTL = 1
  verifyTokenTTL = 1
  Backends = {"sql", "mongo"}
  RequireVerification = TRUE
  NoUser = NoUser
  NoPassword = NoPassword
  NoSubject = NoSubject
  NoRow = NoRow
  Visitor = {b1, b2}
  App = {a1, a2, a3}
  User = {u1, u2}
  Passthrough = {a3}
  Flow = {f1, f2}
  SessionAge = 2
  FormAge = 1
  StateAge = 1
  FrontClock = 3
  None_ = None_
  Client = {n1, n2}
  Attempt = {t1, t2}
  LoginMax = 2
  LoginWindow = 3
  LoginKeys = 1
  LoginDelay = 1
  LoginClock = 5
  PortNum = {0, 3000, 3001, 65534, 65535}
  TopPort = 65535
SPECIFICATION AuthSpec
SYMMETRY Perms
CHECK_DEADLOCK FALSE
INVARIANTS AuthTypeOK TokenOnce VerifiedGate LockConsistent 
PROPERTIES PasswordProvenance
