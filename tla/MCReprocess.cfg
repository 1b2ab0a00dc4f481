SPECIFICATION InboxFairSpec
CONSTANTS
  p1 = p1
  Events <- OneOfEachKind
PROPERTIES
  FailedEventIsReprocessed
CHECK_DEADLOCK FALSE
