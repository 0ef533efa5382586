CONSTANTS
  Pages <- MCPages
  Lines <- MCLines
  Streams <- AnyStream
  Requests <- RequestStreams
  WithoutQuery <- MCWithoutQuery
SPECIFICATION Spec
INVARIANTS
  AnswersAreRight
  AnswersAreDelimited
  NoRequestIsLeft
CHECK_DEADLOCK FALSE
