SPECIFICATION Spec
CONSTANTS
  Cards = {c1, c2}
  Requests = {r1, r2}
  Instances = {}
  Places = {p1}
  Modes = {"not_required", "required_on_publish"}
  NoRequest = NoRequest
  NoCard = NoCard
  MinInstances = 0
  MaxEvents = 1
PROPERTY EndsAreFinal
CHECK_DEADLOCK FALSE
