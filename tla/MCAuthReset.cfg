SPECIFICATION Spec
CONSTANTS
  Requests = {r1, r2}
  Passwords = {p1, p2, p3}
  InitialPassword = p1
  MaxLoginAttempts = 2
  MaxConcurrentSessions = 1
  PasswordHistoryLimit = 1
  MaxIssued = 3
  MaxAttempts = 2
  MaxResetTokens = 2
SYMMETRY Symmetry
INVARIANT ResetInvalidatesAll
