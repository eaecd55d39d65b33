SPECIFICATION Spec
CHECK_DEADLOCK FALSE
CONSTANTS
  Tabs = {t1, t2}
  Calls = {c1, c2}
  Accounts = {u1, u2}
  Nobody = nobody
  MaxCalls = 3
  MaxSessions = 3
INVARIANTS ActsAsShown
PROPERTIES LogoutEnds CallsSettle
