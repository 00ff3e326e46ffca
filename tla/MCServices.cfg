SPECIFICATION MCSpec
CONSTANTS
    vnet = vnet
    cheap = cheap
    dear = dear
    size = size
    small = small
    ResourceType = {vnet}
    ResourceName = {cheap, dear}
    Attribute = {size}
    Value = {small}
    Schema <- MCSchema
    Score <- estimate
    Target = 2
    FixCalls <- OptimizerCall
    InitialPlans <- MCInitialPlans
    MayAsk = TRUE
    max_iterations = 2
    max_turns = 2
    MaxCalls = 2
    FixedPerAddr <- MCFixedPerAddr
    DefaultPerResource = 1
    Scripts <- MCScripts
    ScriptText <- MCScriptText
    Flags = {"-out", "-f", "-c"}
    Policy <- stage1_policy
    MAX_SCRIPT_DEPTH = 2
    ApplyLists <- MCApplyLists
    SecretNames <- MCNames
    Payloads <- MCPayloads
    Vaults <- MCVaults
    Fixtures <- MCFixtures
    SchemaFiles = {{}, {"aws@5"}}
    TfFiles <- MCTfFiles
    REGRESSION_THRESHOLD_PCT = 30
    CostReports <- MCCostReports
    NotifierLists <- MCNotifierLists
    Chars <- MCChars
    Continuation = {"'"}
    Blank <- MCBlank
    Answered = {"Text", "Error", "Hint", "Exit"}
    MessageTexts <- MCTexts
    WelcomeRows <- MCWelcomeRows
    VisibleHeight = 4
    MaxInput = 5
    MaxMessages = 7
    RetryConfigs <- MCRetryConfigs
    Headers <- MCHeaders
    Replies <- MCReplies
    MaxU64 = 65535
    Threads <- MCThreads
    Reductions <- MCReductions
    Trees <- MCTrees
    BlockOf <- MCBlockOf
    MaxNesting = 2
    TemplateOf <- stage1
    TypeOrder <- MCTypeOrder
    RenderPlans <- MCRenderPlans
    MaxValueDepth = 2
CHECK_DEADLOCK FALSE
INVARIANTS
    SavingsWereEarned
    AuthorizedRunsOnlyAllowed
    RecordsHoldReferencesOnly
    MergeGatesAreSound
    LostOnlyEverywhere
    TerminalIsRestored
    RetriesKeepTheirBounds
    RebuiltThreadIsTheReduced
    InventoryIsComplete
    FilesAreThePlan
PROPERTY EditorIsALine
