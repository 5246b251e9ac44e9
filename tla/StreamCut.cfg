SPECIFICATION Spec
CONSTANTS
  MaxTokens = 2
INVARIANTS WholeReply
CHECK_DEADLOCK FALSE
