SPECIFICATION Spec
CHECK_DEADLOCK FALSE
CONSTANTS
  Requests = {r1, r2}
  Users = {manager, guest}
  Managers = {manager}
  Guests = {guest}
  Limit = 1
  MaxRows = 3
  MaxTime = 1
  MaxRequests = 3
  MaxContents = 3
SYMMETRY Symmetry
CONSTRAINT Focus
INVARIANTS TypeOK NothingLeavesUnrecorded RowsHaveContent ConvertedOnce FullReadMissesOnlyRaced
