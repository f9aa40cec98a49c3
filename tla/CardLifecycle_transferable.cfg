SPECIFICATION Spec
CONSTANTS
  Cards = {c1, c2}
  Requests = {r1, r2}
  Instances = {i1}
  Places = {p1}
  Modes = {"not_required", "required_on_publish"}
  NoRequest = NoRequest
  NoCard = NoCard
  MinInstances = 0
  MaxEvents = 1
INVARIANT EditableCanBeTransferred
CHECK_DEADLOCK FALSE
