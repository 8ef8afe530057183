CONSTANTS
  s1 = s1  s2 = s2
  Sid <- SidDef
  NoSid = NoSid
  Client = {c1, c2}
  NoInstance = NoInstance
  NoSession = NoSession
  Budget <- BudgetDef
  MaxTitle = 1
  MaxQueue = 3
SYMMETRY Symmetry
CHECK_DEADLOCK FALSE
SPECIFICATION Spec
INVARIANTS
  TypeOK
  StateShown
  MetadataShown
  QuietIsPublished
