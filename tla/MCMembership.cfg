SPECIFICATION Spec
CHECK_DEADLOCK FALSE
CONSTANTS
  Requests = {r1, r2}
  Users = {u1, u2}
  Roles = {"RP_LIQUIDATOR", "GUEST"}
  MaxRequests = 3
  MaxMails = 2
SYMMETRY Symmetry
INVARIANTS TypeOK PendingHasToken NewestLinkWorks AcceptedOnce ResendsChain RowsFollowProvider 
 
