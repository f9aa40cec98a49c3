SPECIFICATION MCSpec
CONSTANTS
  Clerks = {c1, c2}
  Orgs = {o1, o2, o3}
  Root = o1
  Child = o2
  Units = {d1, d2}
  NoOrg = NoOrg
  NoUnit = NoUnit
  NoTask = NoTask
  Users = {admin, u}
  Admin = admin
  Targets = {u}
  OldRoles = {"old"}
  Keys <- SmallKeys
  Periods <- SmallPeriods
  NoChange = NoChange
  NoProfile = NoProfile
  MaxTime = 1
  MaxChanges = 2
  Cards = {f1}
  StorageKeys = {d1, d2, d3}
  Requests = {c1, c2}
  FileKinds = {"attachment", "report"}
  Reasons = {first}
  NoRequest = NoRequest
  NoKey = NoKey
  AnswersMayBeLost = TRUE
SYMMETRY AdminSymmetry
INVARIANTS ClosureFollowsParents DepartmentsFollowManagement ManagersSee SeenThroughRoles ProfileIsExact UncommittedAreDeleted
CHECK_DEADLOCK FALSE
