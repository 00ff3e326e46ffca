SPECIFICATION FairSpec
CONSTANTS
  tc1 = tc1
  tc2 = tc2
  read_tool = read_tool
  write_tool = write_tool
  ToolCallId <- MCToolCallId
  ToolName <- MCToolName
  CustomResult = {substitute}
  NoDecision = NoDecision
  Configs <- MCConfigs
  Proposals <- MCProposals
  Usages <- MCUsages
  Hooks = 2
  compaction_threshold_tokens = 1
  MaxTokens = 3
CHECK_DEADLOCK FALSE
INVARIANTS ThreadWellFormed ThreadTellsExecutions NothingRunsUnapproved CancelBounded
PROPERTIES HooksInCanonicalOrder Termination
