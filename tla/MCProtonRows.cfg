SPECIFICATION Spec
CONSTANTS
  a1 = a1
  a2 = a2
  Admins = {a1, a2}
  Callers = {a1, a2, boot}
  Boot = boot
  Null = Null
  Logins = {l1}
  Addresses = {l1, alias}
  MaxChallenges = 0
  MaxUpstream = 1
  MaxFailures = 1
  MaxCalls = 3
SYMMETRY Symmetry
INVARIANTS TypeOK
PROPERTIES AssignedRowsSurvive WholeGroupOrNone SyncReconciles
CHECK_DEADLOCK FALSE
