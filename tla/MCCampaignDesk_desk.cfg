SPECIFICATION Spec
CONSTANTS
    k1 = k1
    k2 = k2
    Known <- MCKnown
    New = {n1}
    Temps = {t1}
    None = None
    Uploaded = Uploaded
    Builtin = Builtin
    Default = Default
    Visits <- MCVisits
    MaxCalls = 2
    MaxLost = 1
INVARIANTS Consistent StoredIsShown
PROPERTIES RowsLeaveByHand
CHECK_DEADLOCK FALSE
