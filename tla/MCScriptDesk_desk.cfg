SPECIFICATION DeskSpec
CONSTANTS
    k1 = k1
    old = old
    new = new
    blank = blank
    Blank = blank
    Known <- MCKnown
    New = {n1}
    Temps = {t1}
    None = None
    Wordings <- MCWordings
    MaxVersion = 3
    Visits <- MCVisits
    MaxCalls = 2
    MaxLost = 1
INVARIANTS DeskTypeOK
PROPERTIES TombstonesHold SnapshotsFrozen
CHECK_DEADLOCK FALSE
