SPECIFICATION Spec
CONSTANTS
  Token = {1, 2}
  NCtx = 4
  BlockCount = 3
  Interval = 2
  InitCapacity = 1
  MoeLayers = {1, 2}
  NoToken = NoToken
  Wrong = Wrong
  Greedy <- MCGreedy
  MaxFeed = 3
  MaxDraft = 2
PROPERTY SpeculationExact
