SPECIFICATION MCSpec
CONSTANTS
  Cards = {c1, c2}
  Requests = {r1, r2}
  Instances = {i1}
  Places = {p1, p2}
  Modes = {"not_required", "required_on_publish", "required"}
  NoRequest = NoRequest
  NoCard = NoCard
  MinInstances = 0
  MaxEvents = 2
SYMMETRY RequestSymmetry
INVARIANTS SupersededHasCopy StatusFollowsFieldsAlone
PROPERTIES NoWriteAfterEnd OneEventPerChange
CHECK_DEADLOCK FALSE
