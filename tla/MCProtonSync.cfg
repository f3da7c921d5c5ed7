SPECIFICATION Spec
CONSTANTS
  a1 = a1
  a2 = a2
  Admins = {a1}
  Callers = {a1, boot}
  Boot = boot
  Null = Null
  Logins = {l1, l2}
  Addresses = {l1, l2}
  MaxChallenges = 0
  MaxUpstream = 0
  MaxFailures = 1
  MaxCalls = 4
PROPERTIES SyncImportsOwnAddresses
CHECK_DEADLOCK FALSE
