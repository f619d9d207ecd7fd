SPECIFICATION ReplaySpec
CONSTANTS
  Boards <- MCBoards
  SearchDepth = 3
  SearchPlies <- MCPlies
CHECK_DEADLOCK FALSE
INVARIANTS BoardInv EngineAgrees AnswersExact
