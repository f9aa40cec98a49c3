SPECIFICATION MCSpec
CONSTANTS
  Links = {l1}
  Requests = {r1, r2}
  NoRequest = NoRequest
  NoVersion = NoVersion
  MaxUses = 1
  MaxUploads = 1
  ExpiresAt = 1
  MaxClock = 1
  MaxVersion = 3
  Cards = {c1, c2}
  OpenCard = c1
  Fields = {"f", "g"}
  BlockOf <- MCBlockOf
  Immediate = {"f"}
  Withdrawn = {"g"}
  Values = {"v", "w", "bad"}
  Invalid = {"bad"}
  Stored = "v"
  NoSession = NoSession
  MaxSessions = 2
  MaxTyped = 2
  MaxSaves = 2
  Contents = {"v", "w", "bad"}
  Unsendable = {"bad"}
  Empty = "v"
  NoEditor = NoEditor
  NoSave = NoSave
  MaxMounts = 2
  MaxStrokes = 3
  MaxTries = 3
SYMMETRY RequestSymmetry
INVARIANT TypeOK
INVARIANT CleanIsStored
INVARIANT SaveStateIsTrue
INVARIANT UsageIsCounted
INVARIANT CirclesAreExpiries
PROPERTY EditsAreKept
PROPERTY NoWriteAfterClose
PROPERTY SnapshotsAreExact
PROPERTY ImplementsProtocol
