SPECIFICATION Spec
CONSTANTS
  Char = {"a", "</think>"}
  Token = {"a", "hi", "lo", "</think>", "<|im_end|>"}
  stop_ids = {"<|im_end|>"}
  max_ctx = 12
  Lines <- MCLines
  Prompts <- MCPrompts
  SystemPrompts <- MCSystemPrompts
  NPredict = {0, 3}
  MaxConversation = 5
CHECK_DEADLOCK FALSE
INVARIANTS TypeOK LongestEndThatFits FailsOnlyWithoutRoom Streamed ReasoningDropped
