SPECIFICATION RaceSpec
CONSTANTS
  Players <- MCPlayers
  Collectors = {1}
  Outcomes = {0, 1}
  Deploys <- Custody
  MaxWeeks = 3
  MaxGames = 1
  MaxTaps = 2
  MaxTrouble = 0
  PoolShare = 100
  Seeds = {300}
  MinGames = 1
  PairCap = 1
  RefCap = 1
  RefPoints = 2
  MaxCarry = 150
  ReclaimWeeks = 1
  Referees = {1}
INVARIANT NeverPaidTwice
CHECK_DEADLOCK FALSE
