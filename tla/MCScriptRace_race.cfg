SPECIFICATION RaceSpec
CONSTANTS
  Sessions = {x1, x2}
  Scripts = {s1, s2}
  Campaigns = {}
  Texts = {sound, unsound}
  Sound = {sound}
  NoText = NoText
  NoCampaign = NoCampaign
  Payloads <- FirstVersions
  Schemas = {"metadata", "migrated"}
  MaxVersions = 2
  MaxEdits = 2
  MaxRaced = 1
SYMMETRY Symmetric
INVARIANTS VersionsNumbered SerialSafetyAlone
PROPERTIES FrozenOnceSubmitted
CHECK_DEADLOCK FALSE
