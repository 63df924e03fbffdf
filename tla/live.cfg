CONSTANTS
  Slugs = {s1}
  Formats = {flac}
  Artifacts = {a1}
  Hashes = {h1}
  Tasks = {w1,w2}
  Uploaders = {u1}
  None = None
  Other = Other
  Torn = Torn
SPECIFICATION StockedLiveSpec
PROPERTIES EventsDrain PollerIsTold

