SPECIFICATION MCHostSpec
CONSTANTS
    OperatorInit = {"o1", "o2"}
    SqliteInit = {"s1"}
    Writer = {"w1"}
    TransportUser = {"d1", "d2"}
    Casts <- MCCasts
    ModeOf <- MCModeOf
    MaxKills = 1
    StoreNode = {"a", "b"}
    Here = "a"
    Secret = {"s1", "s2"}
    Legacy <- MCLegacy
    Items <- MCItems
    Environment <- MCEnvironment
    Batches <- MCBatches
    Value = {"v"}
    CopyPairs <- MCCopyPairs
    EligibleFirst <- MCEligibleFirst
    MaxWrites <- MCMaxWrites
    MaxStoreCommands = 2
    Schema = {"s1"}
    Field = {"f"}
    Entry = {"x", "y"}
    Shell = {"p1", "p2"}
    Bundled <- MCBundled
    SeedFiles <- MCSeedFiles
    FirstFiles = {"inventory", "missing"}
    MaxCatalogCommands = 3
    Endpoint = {"e1", "w"}
    Wildcard = {"w"}
    Registration = {"r1", "r2"}
    Refresh = {"f1"}
    MaxEndpointTx = 3
    UserOrder <- MCUserOrder
    Account = {"x"}
    Runtimes = {"g1", "g2"}
    Admin = {"p1", "p2"}
    MaxHostEvents = 2
    UpdateCommand = {"p1", "p2"}
    Upgrader = {"p1"}
    Repository = {"r1", "r2"}
    Publications <- MCPublications
    FirstVersion <- MCFirstVersion
    MaxUploads = 1
INVARIANTS
    HostTypesOK
    SecretsSurvive
    OneTransportIdentity
    
    
PROPERTIES
    
    
    ActivationAllOrNothing
    UpgradeGoesForward
CHECK_DEADLOCK FALSE
