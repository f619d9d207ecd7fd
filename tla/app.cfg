SPECIFICATION AppSpec
CONSTANTS
  MaxMishaps = 1
  Friends = {ann, bob}
  MaxSockets = 3
  MaxTables = 2
  MaxLapses = 1
  Stakers = {a, b}
  Stranger = Stranger
  MaxRooms = 3
  MaxKeys = 2
  MaxBreaks = 1
  MaxSupply = 2
  MaxEdits = 1
  MaxPresses = 2
  MaxSlips = 1
  MatchIds = {1, 2}
  MaxSpan = 2
  Recent = 1
  DayBlocks = 2
  Stake = 10
  Rake = 1
  LastBlock = 2
CHECK_DEADLOCK FALSE
INVARIANTS PageInv QuickInv  ShopInv IndexerInv
PROPERTIES PageMoves AppAnswers
