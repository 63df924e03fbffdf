CONSTANTS
  Slugs = {s1}
  Formats = {flac}
  Artifacts = {a1}
  Hashes = {h1}
  Tasks = {w1}
  Uploaders = {u1,u2}
  None = None
  Other = Other
  Torn = Torn
SPECIFICATION DiskSpec
SYMMETRY Symmetric
INVARIANTS SaveInv SoldIsDurable FirstUploadIntact
PROPERTIES ImplementsGate KeepsContract
