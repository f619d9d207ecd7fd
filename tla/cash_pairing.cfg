SPECIFICATION MeetSpec
CONSTANTS
  p1 = p1
  p2 = p2
  Players = {p1, p2}
  Ask <- MCAskOnce
  Elo <- MCElo
  BaseWindow = 1
  Growth = 0
  Backstop = 1
  MaxGap = 2
  MaxWait = 1
  MaxConns = 3
  MaxDrops = 1
  MaxUnseen = 1
  MaxRestarts = 1
  Kinds = {turn, streak}
  Endpoints = {phone}
  Invitations <- Challenges
  Wallets = {1, 2}
  MaxItems = 2
  MaxChallenges = 2
  CardRows = 1
  Handlers = {h1, h2}
  MaxStarted = 4
  LastTick = 3
  MaxOutages = 1
  Quiet = Quiet
CHECK_DEADLOCK FALSE
INVARIANTS PairingInv SeatsMatch InboxInv
PROPERTIES CompatibleMeet
