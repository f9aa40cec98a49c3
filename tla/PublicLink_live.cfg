SPECIFICATION FairSpec
CONSTANTS
  Links = {l1}
  Requests = {r1, r2}
  NoRequest = NoRequest
  NoVersion = NoVersion
  MaxUses = 1
  MaxUploads = 1
  ExpiresAt = 1
  MaxClock = 1
  MaxVersion = 1
PROPERTY RequestsEnd
