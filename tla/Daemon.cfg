SPECIFICATION MCDaemonSpec
CONSTANTS
    Announcements = {"a1"}
    Hints = {"h1"}
    Relays <- MCRelays
    Bootstrapped = TRUE
    Inbounds = {"i1"}
    MaxEvents = 3
    MaxGenerations = 2
    Relay = {"r1", "r2"}
    Primary = "r1"
    MaxRounds = 3
    MaxScopes = 2
    Absent = Absent
    Torn = Torn
    MaxFresh = 3
    MaxCrashes = 1
    MaxLost = 1
    ServiceName = {"n1"}
    PeerInfos <- MCPeerInfos
    SelfPeer = "me"
    NoPeer = NoPeer
    MaxLanEvents = 3
    MaxMemberships = 3
    Starter = {"s1", "s2"}
    Operator = "op"
    MaxDaemons = 2
    MaxCliCommands = 3
    ServiceCommands = {"install", "uninstall"}
    BusyPing = TRUE
    Generations <- MCGenerations
    Profiles <- MCProfiles
    Destinations = {"d1"}
    MaxOutside = 1
INVARIANTS
    DaemonTypesOK
    RoundAccounts
    
    
    OneLaunchAtATime
    
    UninstallResumes
PROPERTIES
    RouteLostForCause
    
    
CHECK_DEADLOCK FALSE
