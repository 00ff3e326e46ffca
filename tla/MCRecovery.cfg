SPECIFICATION FairSpec
CONSTANTS
  vnet = vnet
  buckets = buckets
  main = main
  cidr_block = cidr_block
  cidr_blocks = cidr_blocks
  range = range
  ResourceType = {vnet, buckets}
  ResourceName = {main}
  Attribute = {cidr_block, cidr_blocks}
  Value = {range}
  Schema <- MCSchema
  Score <- error_count
  Target = 0
  FixCalls <- FixCall
  InitialPlans <- MCInitialPlans
  MayAsk = TRUE
  max_iterations = 3
  max_turns = 2
  MaxCalls = 2
CHECK_DEADLOCK FALSE
INVARIANTS GaveUpOnUnmetPlan SuccessWasEarned
PROPERTY Termination
