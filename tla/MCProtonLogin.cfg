SPECIFICATION FairSpec
CONSTANTS
  a1 = a1
  a2 = a2
  Admins = {a1}
  Callers = {a1, boot}
  Boot = boot
  Null = Null
  Logins = {l1, l2}
  Addresses = {l1, l2}
  MaxChallenges = 2
  MaxUpstream = 0
  MaxFailures = 1
  MaxCalls = 3
INVARIANTS OwnDialogOnly CallsProceed
PROPERTIES CallsAreSettled
CHECK_DEADLOCK FALSE
