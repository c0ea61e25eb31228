SPECIFICATION FairSpec
CONSTANTS
  Index <- MCIndex
  Earlier = {1}
  Slot <- MCSlot
  MaxMoves = 1
  None = None
INVARIANTS ImportKeepsSelection
PROPERTIES ProfileIsTracked DashboardCatchesUp
