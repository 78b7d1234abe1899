SPECIFICATION Spec
CONSTANTS
  Calls <- MCCalls
  Subscriptions <- MCSubscriptions
  Neighbours <- MCNeighbours
  Pieces <- MCPieces
  Travellers <- MCTravellers
  MaxStages = 2
INVARIANTS
  RequestsWellFormed
  AnswersTrue
  InStep
  ResultsCurrent
PROPERTY
  CallsEnd
CHECK_DEADLOCK FALSE
