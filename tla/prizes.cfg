SPECIFICATION PrizesSpec
CONSTANTS
  Savers <- MCSavers
  Amounts = {1, 3}
  Fees = {3000}
  Moves <- MCMoves
  Wins <- MCWins
  Schedules <- MCSchedules
  Withdrawals = {}
  MaxClock = 4
  MaxSeasons = 2
  MaxDeposits = 2
  MaxMoves = 1
  MaxRuns = 1
  Visitor = 1
  LeagueSeason = 1
  Purse = 3
  MaxVisits = 1
  MaxMishaps = 1
  Entrants <- MCEntrants
  Setups <- MCSetups
  Sponsorships <- MCSponsorships
  MaxTime = 2
  MaxPairings = 2
  MaxFaults = 1
INVARIANTS SeasonInv CupInv
PROPERTIES PrincipalReturns CupEnds
CHECK_DEADLOCK FALSE
