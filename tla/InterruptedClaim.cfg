SPECIFICATION FairSpec
CONSTANTS
  w1 = w1
  w2 = w2
  p1 = p1
  p2 = p2
  Peers = {p1}
  Workers = {w1}
  LastTransaction = 1
  Kind <- OneSecret
  Grant <- AllGranted
  MAX_DELIVERY_ATTEMPTS = 2
  MaxCrashes = 1
  MaxResumes = 0
  MaxLostWakes = 0
  MaxRestarts = 0
PROPERTY InterruptedClaimRecovered
