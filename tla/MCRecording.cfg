CONSTANTS
  Clients = {c1, c2}
  Runs = {r1, r2}
  Digests = {d1, d2}
  RecordIds = {i1, i2}
  Payloads = {p1, p2}
  MtimeKnown = TRUE
  MaxLines = 3
  None = None
SPECIFICATION FairSpec
SYMMETRY Symmetry
INVARIANTS RecordsReadable CacheCoherent AckedDurable ReplayExact
PROPERTIES DamageIsFinal ImplementsEventLog CallsReturn
CHECK_DEADLOCK FALSE
