SPECIFICATION FairSpec
CONSTANTS
  v1 = v1 p1 = p1 p2 = p2 t1 = t1 t2 = t2 None = None
  Validator <- MCValidator
  Password <- MCPassword
  Slot <- MCSlot
  MaxAttempts = 2
  MaxTyped = 2
INVARIANTS QuietResetIsFinal LockIsComing UnlockIsPossible
PROPERTIES WindowComesBack AutoLockComesBack
