SPECIFICATION Spec
CONSTANTS
  o1 = o1
  o2 = o2
  b1 = b1
  r1 = r1
  r2 = r2
  s1 = s1
  i1 = i1
  i2 = i2
  gmail = gmail
  microsoft_graph = microsoft_graph
  ApiKinds = {"agentmail"}
  OAuthProviders = {gmail, microsoft_graph}
  OtherKinds = {"imap_smtp"}
  Ids = {i1, i2}
  Origins = {o1, o2}
  Boxes = {b1}
  Readers = {r1, r2}
  States = {s1}
  Null = Null
  MaxEdits = 2
  MaxIssued = 2
SYMMETRY Symmetry
INVARIANTS TypeOK KeyStaysWithItsOrigin GenerationTracksMailbox StateUsedOnce
PROPERTIES ImplementsVersions
CHECK_DEADLOCK FALSE
