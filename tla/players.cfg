SPECIFICATION PlayersSpec
CONSTANTS
  ann = ann
  bob = bob
  Creator = ann
  Friends = {bob, cal}
  MaxRequests = 2
  MaxPly = 2
  MaxFaults = 1
  Nobody = Nobody
  NoMatch = NoMatch
  Players = {ann, bob}
  Regulars = {ann}
  Jobs = {j1, j2}
  FirstDay = 3
  LastDay = 4
  PlayTarget <- Plays
  WinTarget <- Wins
  MaxBegun = 3
  MaxMishaps = 1
  Closed = Closed
  NoPlayer = NoPlayer
  NoProfile = NoProfile
  Free = Free
CHECK_DEADLOCK FALSE
INVARIANTS RecordInv DailyInv
PROPERTIES NothingTakenBack EveryGameEnds
