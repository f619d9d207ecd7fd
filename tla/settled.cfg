SPECIFICATION SettledSpec
CONSTANTS
  Matches = {m1, m2}
  MaxFaults = 2
  Step = 1
  Watched = {m1}
  Sweep = sweep
  Nothing = Nothing
  Players <- MCPlayers
  Collectors = {1}
  Outcomes = {1}
  Deploys <- Both
  MaxWeeks = 3
  MaxGames = 2
  MaxTaps = 1
  MaxTrouble = 1
  PoolShare = 100
  Seeds = {300}
  MinGames = 1
  PairCap = 1
  RefCap = 1
  RefPoints = 2
  MaxCarry = 150
  ReclaimWeeks = 1
  Referees = {1}
CHECK_DEADLOCK FALSE
INVARIANTS LedgerInv PayoutInv PotConserved
PROPERTIES CreditsLast WeekCloses
