SPECIFICATION RaceSpec
CONSTANTS
  Sessions = {x1, x2}
  p1 = p1
  Phones = {p1}
  NoPhone = NoPhone
  Jobs = {j1}
  Files <- OneFile
  Leads <- AllLeads
  Checked = {}
  Redis = {"down"}
  LeadStatuses = {"new"}
  MaxEntries = 2
  MaxLines = 2
  MaxCopies = 1
  MaxPushes = 2
SYMMETRY Symmetric
INVARIANTS OneActiveEntry NumberOncePerInsert
PROPERTIES SuppressedStaysOut
CHECK_DEADLOCK FALSE
