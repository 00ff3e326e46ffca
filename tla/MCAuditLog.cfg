SPECIFICATION Spec
CONSTANTS
  hook = hook
  broker = broker
  capture = capture
  migration = migration
  schema_update = schema_update
  Writer <- MCWriter
  Run <- MCRun
  RunOf <- MCRunOf
  Key = {k1, k2}
  NoKey = NoKey
  MaxEntries = 3
  MaxRestarts = 1
CHECK_DEADLOCK FALSE
INVARIANTS UndisturbedChainVerifies RaceIsDetected TamperEvident
