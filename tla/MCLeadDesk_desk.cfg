\* The whole desk, a few clicks deep.
CONSTANTS
    a = a
    b = b
    None = None
    Lists = {a, b}
    Visits <- MCVisits
    MaxCalls = 2
    Files <- MCFiles
    EditTo = {"phone"}
    DncOn <- MCDncOn
    FileKeys = {"k1", "k2"}
    Register = {"k2"}
    Old = a
    MaxLost = 1
SPECIFICATION Spec
INVARIANTS Consistent ShownIsRegistry ImportedKept
PROPERTIES EditsSettle
CHECK_DEADLOCK FALSE
