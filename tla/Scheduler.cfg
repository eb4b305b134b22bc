SPECIFICATION SchedulerSpec
CONSTANTS
  w1 = w1
  w2 = w2
  p1 = p1
  p2 = p2
  Peers = {p1, p2}
  Workers = {w1}
  LastTransaction = 2
  Kind <- TwoSecrets
  Grant <- AllGranted
  MAX_DELIVERY_ATTEMPTS = 2
  MaxCrashes = 1
  MaxResumes = 1
  MaxLostWakes = 1
  MaxRestarts = 1
INVARIANTS
    SleepsOnlyWhenDone
