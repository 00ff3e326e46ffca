SPECIFICATION Spec
CONSTANTS
  vnet = vnet
  buckets = buckets
  gateway = gateway
  main = main
  cidr_block = cidr_block
  cidr_blocks = cidr_blocks
  range = range
  ResourceType = {vnet, buckets, gateway}
  ResourceName = {main}
  Attribute = {cidr_block, cidr_blocks}
  Value = {range}
  Schema <- MCSchema
  Template = {vnet, buckets}
  Answers <- MCAnswers
  FixCalls <- FixCall
  max_iterations = 2
  max_turns = 1
  MaxCalls = 1
CHECK_DEADLOCK FALSE
INVARIANT EmittedIsValidated
