SPECIFICATION RaceSpec
CONSTANTS
  Sessions = {x1, x2}
  Scripts = {s1}
  Campaigns = {k1}
  Texts = {sound}
  Sound = {sound}
  NoText = NoText
  NoCampaign = NoCampaign
  Payloads <- FirstVersions
  Schemas = {"metadata", "migrated"}
  MaxVersions = 2
  MaxEdits = 2
  MaxRaced = 1
SYMMETRY Symmetric
INVARIANTS TypeOK LiveWasSigned
PROPERTIES BindingsAccounted
CHECK_DEADLOCK FALSE
