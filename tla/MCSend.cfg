SPECIFICATION Spec
CONSTANTS
  a1 = a1
  Accounts = {a1}
  Keys = {k1, k2}
  Requests = {r1, r2}
  Kind <- OneKind
  MaxSends = 2
  Window = 1
  MaxTime = 2
  NoJob = NoJob
SYMMETRY RequestSymmetry
INVARIANTS TypeOK AtMostOnce RetryOnlyWhenUndelivered SingleOwner RateBound VerdictsStand
PROPERTIES SettledIsFinal OrphansStayPending DeletedAccountNeverCalled ImplementsLedger
