SPECIFICATION Spec
CONSTANTS
  MaxMatches = 1
  MaxTime = 4
  LastFunding = 0
  MaxPly = 2
  BlockGaps = {1}
  Users = {u1, u2}
  Keys = {k1, k2}
  Treasuries = {t1}
  Tokens = {usdm}
  Codes = {c1}
  Stakes = {1, 25}
  Rakes = {0, 500}
  MinStakes = {0, 2}
  Windows = {1, 2}
  Ttls = {2}
  BPS = 10000
  MaxRakeBps = 2000
  Nobody = Nobody
  NoToken = NoToken
  NoCode = NoCode
  NoHash = NoHash
  OtherHash = OtherHash
  HashWindow = 1

SYMMETRY Symmetry
INVARIANTS EscrowInv
PROPERTIES CustodyKept TermsFrozen InWindowOnlyTruth TrueClaimPrevails
