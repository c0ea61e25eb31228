SPECIFICATION Spec
CONSTANTS
  k1 = k1
  Clients = 2
  Key = {k1}
  Malformed = Malformed
  Used <- MCUsed
  Slots = 2
  MaxMoves = 3
  None = None
INVARIANTS ListIsCurrent
PROPERTIES SuccessIsReported
CHECK_DEADLOCK FALSE
