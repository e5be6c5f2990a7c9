\* Every path of up to five symbols, every query of up to four, every method,
\* short and odd request lines, and any two of the header lines. A constructor
\* that throws, or that reads what is not there, leaves nothing to do.
SPECIFICATION Spec
CONSTANTS
  Chars <- Letters
  Holes = {"{x}"}
  RawRequests <- Messages
  PathValues <- Values
  QueryKeys <- Keys
  QueryValues <- FieldValues
  MaxQuery = 2
  MaxLen = 1
  Unsized = Unsized
  None = None
INVARIANTS
  TypeOK
  ReceiverReadsMethod
  ReceiverReadsPath
  ReceiverReadsQuery
  ReceiverReadsFields
  PlainPathIsKey
CHECK_DEADLOCK FALSE
