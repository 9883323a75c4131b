CONSTANTS
  Ids = {1, 2, 3, 4, 5}
  M = 1
  Uids = {1, 2, 3, 4, 5}
  Dates = {0, 1, 2}
  H = 2
  Hash <- MCHash
  UidPatterns <- MCUidPatterns
  HeartbeatPatterns <- MCHeartbeatPatterns
  None = None
  MaxAsk = 2
  RecordFaults = {"open", "title", "row", "memory", "column"}
SPECIFICATION RecordSpec
INVARIANTS
  Sorted
  AnswersAll
CHECK_DEADLOCK FALSE
