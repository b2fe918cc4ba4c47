SPECIFICATION Spec
CONSTANTS
  MaxLength = 4
  Requests <- OnePost
  MaxSent = 1
INVARIANT HandledAsSent
