SPECIFICATION FairSpec
CONSTANTS
  MaxMatches = 2
  MaxTime = 4
  LastFunding = 0
  MaxPly = 0
  BlockGaps = {1}
  Users = {u1, u2}
  Keys = {k1, k2}
  Treasuries = {t1, t2}
  Tokens = {usdm}
  Codes = {}
  Stakes = {25}
  Rakes = {500}
  MinStakes = {25}
  Windows = {1}
  Ttls = {2}
  HashWindow = 2
  BPS = 10000
  MaxRakeBps = 2000
  Nobody = Nobody
  NoToken = NoToken
  NoCode = NoCode
  NoHash = NoHash
  OtherHash = OtherHash
INVARIANTS Solvent
PROPERTIES EveryStakeReleased
