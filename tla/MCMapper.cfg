SPECIFICATION MapperSpec
CONSTANTS
    t1 = t1
    t2 = t2
    az3 = az3
    az4 = az4
    gcp5 = gcp5
    vnet = vnet
    disk = disk
    estate = estate
    nothing = nothing
    huge = huge
    Tasks = {t1, t2}
    Pairs <- MCPairs
    Types <- MCTypes
    Bundle <- MCBundle
    Registry <- MCRegistry
    Requested <- MCRequested
    TopK = 1
    Durable = TRUE
    MaxOperations = 2
    MaxRestarts = 1
    Targets <- MCTargets
    ProviderOf <- MCProviderOf
    TextPlace <- MCTextPlace
    Estates <- MCEstates
    TypesOf <- MCTypesOf
    TooLarge = {huge}
    Registered = {vnet, disk}
    ProviderOfType <- MCProviderOfType
    MapperTopK = 1
    MaxPlan = 1
    MaxCalls = 2
SYMMETRY MCSymmetry
CHECK_DEADLOCK FALSE
INVARIANTS
    FoundHaveSchemas
    StoredIsSearchable
    AnswersWereValidated
