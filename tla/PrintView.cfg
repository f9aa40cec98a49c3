SPECIFICATION MCSpec
CONSTANTS
  Writers = {w1}
  Templates = {t1}
  CardTemplates = {ct1}
  NoCardTemplate = NoCardTemplate
  NoWork = NoWork
  MaxVersions = 1
  MaxDocuments = 0
  BlockFields <- TwoBlocks
  Texts = {"t1"}
  Lines = {"l1"}
  SavedForms <- SmallForms
  TextPositions = {0, 100}
  NoForm = NoForm
  NoView = NoView
  ListedCards = {1, 2, 3}
  KindA = ka
  KindB = kb
  CardKinds = {ka, kb}
  KindOf <- MCKindOf
  Upper = up
  Lower = low
  Branches = {up, low}
  UnderBranch <- MCUnder
  Names = {"", "a", "A", "b"}
  Dates = {"d1", "d2"}
  Rank <- MCRank
  Requests <- MCRequests
  MaxRequests = 1
  MaxRows = 3
  MaxShifts = 1
  Drafters = {d1, d2}
  Runners = {g}
  Reports = {r}
  Codes = {"p", "q"}
  Given = {1, 2}
  Null = Null
  Blank = Blank
  Absent = Absent
  Schemas <- MCSchemas
  Defaults <- MCDefaults
  NoSchema = NoSchema
  NoDefaults = NoDefaults
  ReportKinds <- MCKinds
  MaxUpdates = 2
  MaxRuns = 1
INVARIANT DocumentsPrintTheView
CHECK_DEADLOCK FALSE
