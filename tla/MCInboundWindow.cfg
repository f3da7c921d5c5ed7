SPECIFICATION Spec
CONSTANTS
  b1 = b1
  b2 = b2
  Null = Null
  Mailboxes <- OneMailbox
  Kind = "gmail"
  Day = 3
  Zone = 2
  PageSize = 1
  MaxPages = 1
  Overlap = 1
  Skew = 0
  Drift = 0
  MaxMail = 1
  MaxTime = 4
  MaxGeneration = 1
  MaxValidity = 1
  MaxFailures = 0
INVARIANTS NoMailOutsideWindow
CHECK_DEADLOCK FALSE
