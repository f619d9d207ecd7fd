SPECIFICATION ServerFairSpec
CONSTANTS
  u1 = u1
  u2 = u2
  k1 = k1
  k2 = k2
  MaxMatches = 1
  MaxTime = 4
  LastFunding = 0
  MaxPly = 0
  BlockGaps = {1}
  Users = {u1, u2}
  Keys = {k1, k2}
  Treasuries = {t1}
  Tokens = {usdm}
  Codes = {}
  Stakes = {25}
  Rakes = {500}
  MinStakes = {0}
  Windows = {1}
  Ttls = {2}
  HashWindow = 1
  BPS = 10000
  MaxRakeBps = 2000
  Nobody = Nobody
  NoToken = NoToken
  NoCode = NoCode
  NoHash = NoHash
  OtherHash = OtherHash
  Operator = operator
  SessionOf <- OwnKeys
  MaxFaults = 1
  Prompt = FALSE
CHECK_DEADLOCK FALSE
PROPERTIES MatchesFreed
