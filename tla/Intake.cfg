SPECIFICATION MCSpec
CONSTANTS
  Editors = {e}
  Lists = {kinds, posts, own}
  Kinds = kinds
  Posts = posts
  OwnPosts = own
  CodeOf <- MCCodeOf
  MaxItems = 4
  Spellings = {"a", "A", "b"}
  Normal <- MCNormal
  Orgs = {top, low}
  Top = top
  Low = low
  Above <- MCAbove
  Actors = {boss, sub}
  Boss = boss
  Sub = sub
  Super = {boss}
  Managers = {boss}
  Manages <- MCManages
  Scope <- MCManages
  Links = {k}
  NoOrg = NoOrg
  NoLink = NoLink
  NoEdit = NoEdit
  MaxEdits = 1
  Importers = {i, j}
  ImportActor <- MCActor
  Fields = {fio, kind, post}
  Fio = fio
  Kind = kind
  Post = post
  Source <- MCSource
  NoList = NoList
  Aware = {post}
  Required = {fio, kind}
  Defaulted = {}
  Manageable = {top, low}
  Sheets <- MCSheets
  NoFile = NoFile
  MaxImports = 2
  CreationLinks = {d1}
  Offices = {oa, ob}
  CardTemplates = {ta, tb}
  Stewards = {st}
  Runs <- MCRuns
  Guests = {g1, g2, g3}
  FillableFields <- MCFillable
  MaxLinked = 2
  Nobody = Nobody
  Readers = {ann, bob}
  Folders = {x}
  Shares = {s}
  FolderOf <- MCFolderOf
  Author <- MCAuthor
  Clerks = {p1, p2}
  MaxSaves = 2
  MaxFields = 2
  MaxToggles = 2
  NoShare = NoShare
  FirstYear = 2023
  FirstDay = 445
  EditDays = 445
  LastDay = 461
  Calculators = {c1, c2}
  Writers = {w}
  Entered <- MCEntered
  Histories <- MCHistories
  NoBaseline = NoBaseline
  MaxWrites = 2
  DiffFields = {fs, fm}
  Single = fs
  Many = fm
  BlockOf <- MCBlockOf
  Repeating = {"many"}
  Papers = {doc}
  Answers = {yes}
  Blank = Blank
  MaxRows = 2
  MaxTurns = 3
  Cards = {f1, f2}
  StorageKeys = {p1, p2}
  Requests = {i, j}
  FileKinds = {"attachment", "document", "report"}
  Reasons = {first, second}
  NoRequest = NoRequest
  NoKey = NoKey
  AnswersMayBeLost = FALSE
SYMMETRY IntakeSymmetry
INVARIANTS OneItemPerLabel ImportedAsFiled ExperienceOnlyGrows DiffTellsChanges RowsHaveFiles ReferencesResolve
PROPERTIES CreatedWhileOpen EverySaveIsTold NoLostCalculation NewReferencesAreLive EndedCardsAreReadOnly
CHECK_DEADLOCK FALSE
