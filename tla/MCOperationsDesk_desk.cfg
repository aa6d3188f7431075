SPECIFICATION Spec
CONSTANTS
  Roles <- MCRoles
  Failed <- MCFailed
  Found <- MCFound
  Outcomes <- MCOutcomes
  Alerts <- MCAlerts
  FirstStatus <- MCFirstStatus
  SeverityOf <- MCSeverityOf
  Recordings <- MCRecordings
  Scores <- MCScores
  FirstRows <- MCFirstRows
  FoundRecordings <- MCFoundRecordings
  Titles <- MCTitles
  MaxCalls = 2
  Clicks = 5
INVARIANTS
  Consistent
PROPERTIES
  NothingComesBack
CHECK_DEADLOCK FALSE
