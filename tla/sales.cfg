CONSTANTS
  Slugs = {s1,s2}
  Formats = {flac}
  Artifacts = {a1}
  Hashes = {h1,h2}
  Tasks = {w1,w2}
  Uploaders = {}
  None = None
  Other = Other
  Torn = Torn
SPECIFICATION StockedSpec
SYMMETRY Symmetric
INVARIANTS TypeOK IInv SoldIsDurable HandledIsRecorded LedgerSound NoGoodsUnpaid
PROPERTIES LedgerMonotone KeepsContract

