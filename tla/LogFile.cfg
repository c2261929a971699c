SPECIFICATION LogSpec
CONSTANTS
  Times <- MCTimes
  Lens <- MCLens
  MaxLen = 4
  RollSize = 3
  FlushInterval = 1
  CheckEveryN = 2
  MaxAppends = 5
INVARIANTS
  NothingLost
  NamesInOrder
  FileBounded
