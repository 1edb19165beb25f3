SPECIFICATION Spec
CONSTANTS
  Token = {1, 2, 3}
  NCtx = 5
  stop_ids = {3}
  Greedy <- MCGreedy
  Files <- MCFiles
  NPredict = {0, 2, 3, 4}
CHECK_DEADLOCK FALSE
INVARIANT MatchesSequential
