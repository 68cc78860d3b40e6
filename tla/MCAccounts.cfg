CONSTANTS
  r1 = r1
  r2 = r2
  Requests = {r1, r2}
  Passwords = {"p1", "p2"}
  MaxTime = 2
  MaxSubjects = 2
  MaxTokens = 2
  MaxFaults = 1
SPECIFICATION Spec
INVARIANTS
  TypeOK
  EndedSessionsStayDead
  TokenSpentOnce
  OneLivingToken
  SessionsAreConfirmed
PROPERTY PasswordsAreChosen
SYMMETRY Symmetry
CHECK_DEADLOCK FALSE
