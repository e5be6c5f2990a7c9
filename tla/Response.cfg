\* A response that a handler fills, changes and uses again.
SPECIFICATION Spec
CONSTANTS
  OwnKeys = {"server", "date", "content-length", "x"}
  OwnValues = {1}
  LowerCase <- SameCase
  MaxLen = 2
  MaxTime = 1
  None = None
INVARIANTS
  TypeOK
  ReceiverReadsLength
PROPERTIES
  PrepareKeepsFields
