SPECIFICATION FairSpec
CONSTANTS
  Requests = {r1, r2}
  MaxPly = 2
  MaxCrashes = 1
  StartTurn = 1
  LoadsFail = FALSE
  Absent = Absent
  Idle = Idle
CHECK_DEADLOCK FALSE
INVARIANTS MatchInv TranscriptVerifies
PROPERTIES HistoryKept EveryGameEnds
