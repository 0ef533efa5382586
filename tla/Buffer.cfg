CONSTANTS
  Byte = {0, 1}
  Zero = 0
  Messages <- ShortMessages
  kPrePendIndex = 1
  kInitialSize = 3
  ExtraSize = 2
  MaxLen = 3
  MaxContent = 4
SPECIFICATION Spec
INVARIANTS
  TypeOK
  SizeIsBounded
PROPERTIES
  ImplementsQueue
