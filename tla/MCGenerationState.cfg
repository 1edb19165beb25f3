SPECIFICATION FairSpec
CONSTANTS
  Token = {1, 2}
  NCtx = 5
  BlockCount = 4
  Interval = 2
  InitCapacity = 1
  MoeLayers = {1, 2, 3}
  NoToken = NoToken
  Wrong = Wrong
  Greedy <- MCGreedy
  MaxFeed = 4
  MaxDraft = 2
INVARIANTS TypeOK Aligned StateExact IInv
PROPERTIES CallsReturn RefinesContext
