SPECIFICATION Spec
CONSTANTS
  hook = hook
  broker = broker
  capture = capture
  migration = migration
  schema_update = schema_update
  Writer <- MCContinued
  Run = {migration}
  RunOf <- MCContinuedRunOf
  Key = {k1}
  NoKey = NoKey
  MaxEntries = 3
  MaxRestarts = 1
CHECK_DEADLOCK FALSE
INVARIANT ExportedChainUnbroken
