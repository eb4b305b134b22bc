SPECIFICATION ProgressSpec
CONSTANTS
    Announcements = {"a1"}
    Hints = {}
    Relays <- MCRelays
    Bootstrapped = TRUE
    Inbounds = {}
    MaxEvents = 2
    MaxGenerations = 1
    Relay = {"r1", "r2"}
    Primary = "r1"
    MaxRounds = 2
    MaxScopes = 1
    ServiceName = {"n1"}
    PeerInfos <- MCPeerInfos
    SelfPeer = "me"
    NoPeer = NoPeer
    MaxLanEvents = 2
    MaxMemberships = 2
    Starter = {"s1"}
    Operator = "op"
    MaxDaemons = 2
    MaxCliCommands = 2
    ServiceCommands = {"install", "uninstall"}
    BusyPing = TRUE
    Node = {"a", "b"}
    Group = {"g1"}
    PairGroup = "g1"
    MaxSigned <- MCMaxSigned
    Command = {1, 2}
    RunsAt <- MCRunsAt
    MaxFaults = 1
    Settings <- MCSettings
    MaxTrouble = 1
INVARIANTS
    ProgressTypesOK
PROPERTIES
    PairedFirst
    WorkEnds
    
    RerunsSucceed
CHECK_DEADLOCK FALSE
