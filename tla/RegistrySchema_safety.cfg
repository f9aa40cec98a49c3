SPECIFICATION MCSpec
CONSTANTS
  Requests = {r1, r2}
  Blocks = {b1}
  Fields = {f1, f2}
  Layouts = {grid}
  OneBlock = b1
  BlockOf <- FieldsInOneBlock
  MaxRequests = 4
SYMMETRY SchemaSymmetry
INVARIANTS BaseFollowsFields CirclesMeetAtACard
PROPERTIES LayoutIsKept
CHECK_DEADLOCK FALSE
