CONSTANTS
  Email = {e1, e2}
  Password = {p1, p2}
  Subject = {s1}
  Proc = {r1, r2}
  MaxToken = 2
  MaxTime = 1
  MaxRequests = 5
  lockoutThreshold = 1
  lockoutBaseDelay = 1
  lockoutMaxDelay = 2
  resetTokenTTL = 1
  verifyTokenTTL = 1
  Backends = {"mongo"}
  RequireVerification = TRUE
  NoUser = NoUser
  NoPassword = NoPassword
  NoSubject = NoSubject
  NoRow = NoRow
SPECIFICATION Spec
CHECK_DEADLOCK FALSE
INVARIANT TakenIsTaken
