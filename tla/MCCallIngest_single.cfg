SPECIFICATION Spec
CONSTANTS
  c1 = c1  c2 = c2  ch1 = ch1
  e0 = e0  e1 = e1  e2 = e2  e3 = e3  e4 = e4  e5 = e5  e6 = e6  e7 = e7  e8 = e8
  Workers = {w1}
  Calls = {c1, c2}
  Channels = {ch1}
  EventIds = {e0, e1, e2, e3, e4, e5, e6, e7, e8}
  NoTopic = NoTopic
  Migrated = FALSE
  Logs <- SingleLogs
  MaxBatch = 3
  MaxFaults = 2
  MaxMoves = 0
INVARIANTS TypeOK Announcements LiveBoardAgrees
PROPERTIES TerminalOnce ImplementsLedger
CHECK_DEADLOCK FALSE
