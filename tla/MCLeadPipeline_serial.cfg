SPECIFICATION SerialSpec
CONSTANTS
  Sessions = {x1}
  p1 = p1
  Phones = {p1}
  NoPhone = NoPhone
  Jobs = {j1}
  Files <- TwoFiles
  Leads <- AllLeads
  Checked = {p1}
  Redis = {"up", "down"}
  LeadStatuses = {"new", "suppressed"}
  MaxEntries = 2
  MaxLines = 2
  MaxCopies = 2
  MaxPushes = 2
INVARIANTS Consistent ClearIsTrue PushedOnce
CHECK_DEADLOCK FALSE
