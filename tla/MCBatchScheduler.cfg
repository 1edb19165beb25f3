SPECIFICATION FairSpec
CONSTANTS
  Token = {1, 2, 3}
  NCtx = 5
  Eos = 3
  Greedy <- MCGreedy
  Request <- MCRequest
  MaxSubmit = 3
  NoAnswer = NoAnswer
INVARIANTS TypeOK Conserved Paired TornSilent EventsAddUp
PROPERTIES RefinesCompletions Served
