SPECIFICATION DeliverySpec
CONSTANTS
  w1 = w1
  w2 = w2
  p1 = p1
  p2 = p2
  Peers = {p1}
  Workers = {w1, w2}
  LastTransaction = 3
  Kind <- OneSecretOneUpdate
  Grant <- AllGranted
  MAX_DELIVERY_ATTEMPTS = 2
  MaxCrashes = 1
  MaxResumes = 1
INVARIANTS
    PeerBoundary
    OneBudgetAlone
PROPERTIES
    ImplementsQueue
