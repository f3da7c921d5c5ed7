SPECIFICATION Spec
CONSTANTS
  Accounts = {a1, a2}
  Profiles = {p1, p2}
  Tokens = {t1, t2}
  Requests = {r1}
  CapSets <- SendOrAll
  None = None
SYMMETRY Symmetry
INVARIANTS StoredAsAcknowledged NothingDangles ReachesWhatWasGranted AccessInv
