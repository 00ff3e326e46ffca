SPECIFICATION FairSpec
CONSTANTS
  ToolCallId = {tc1, tc2, tc3}
  read_tool = read_tool
  write_tool = write_tool
  ToolName <- MCToolName
  CustomResult = {substitute}
  NoDecision = NoDecision
  Policies <- MCPolicies
  MaxCalls = 3
INVARIANTS NoUnapprovedAccept
PROPERTIES DecidedPrefixDrains ImplementsOrderedDispatch
