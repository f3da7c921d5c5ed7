SPECIFICATION FairSpec
CONSTANTS
  b1 = b1
  b2 = b2
  Null = Null
  Mailboxes <- TwoMailboxes
  Kind = "imap"
  Day = 2
  Zone = 0
  PageSize = 1
  MaxPages = 1
  Overlap = 2
  Skew = 0
  Drift = 1
  MaxMail = 2
  MaxTime = 1
  MaxGeneration = 2
  MaxValidity = 2
  MaxFailures = 1
INVARIANTS TypeOK EventOncePerMail PollerAimed
PROPERTIES ImplementsFeed ScanCompletes
CHECK_DEADLOCK FALSE
