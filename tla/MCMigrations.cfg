SPECIFICATION Spec
CONSTANTS
  Processes = {p1, p2}
  Accounts = {a1}
  Keys = {k1, k2}
  Null = Null
  MaxGeneration = 2
  MaxAttempts = 3
SYMMETRY Symmetry
INVARIANTS SentOnce EveryOperationCounted
PROPERTIES FailuresStand NothingLost
