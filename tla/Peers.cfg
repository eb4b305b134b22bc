SPECIFICATION PeersSpec
CONSTANTS
    Node = {"a", "b"}
    Group = {"g1"}
    PairGroup = "g1"
    MaxSigned <- MCMaxSigned
    Command = {1, 2, 3}
    RunsAt <- MCRunsAt
    MaxFaults = 1
INVARIANTS
    ScopeWasGranted
    ReplayAgrees
    OneApproval
    AdmittedInOrder
PROPERTIES
    AdmissionSettled
CHECK_DEADLOCK FALSE
