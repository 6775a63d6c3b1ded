SPECIFICATION Spec
CONSTANTS
  Byte <- MCByte
  Streams <- MCStreams
  RecordHeaderLen = 3
  Nil = Nil
INVARIANTS
  TypeOK
  NothingLost
  DoneDeliversAll
PROPERTIES
  ImplementsUnread
CHECK_DEADLOCK FALSE
