SPECIFICATION Spec
CONSTANTS
  LastCall = 5
  Disposition <- MCDisposition
  Qualification <- MCQualification
  PerPage = 2
  MaxPages = 2
  Full = 3
  FewRows = 2
  PerView = 2
  SampleEvery = 6
  Walks = 2
  Clicks = 5
  MaxLost = 1
INVARIANTS
  Consistent
PROPERTIES
  AuditsKept
  PagesComplete
CHECK_DEADLOCK FALSE
