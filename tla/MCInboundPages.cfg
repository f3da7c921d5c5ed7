SPECIFICATION Spec
CONSTANTS
  b1 = b1
  b2 = b2
  Null = Null
  Mailboxes <- OneMailbox
  Kind = "imap"
  Day = 1
  Zone = 0
  PageSize = 1
  MaxPages = 2
  Overlap = 2
  Skew = 1
  Drift = 1
  MaxMail = 3
  MaxTime = 2
  MaxGeneration = 1
  MaxValidity = 1
  MaxFailures = 1
INVARIANTS NoMailOutsideWindow NothingBehindBoundary
PROPERTIES ScanCatchesUp
CHECK_DEADLOCK FALSE
