\* One tab with two calls under way, from a fresh browser.
CONSTANTS
    t1 = t1
    s1 = s1
    s2 = s2
    Tabs = {t1}
    SlotsOf <- MCSlotsOf
    First = s1
    Roles = {"QA"}
    Views = {"dashboard", "profile"}
    NoUser = NoUser
    MaxTokens = 2
    Returning = FALSE
    Walk = {"login", "signup"}
    MaxLost = 1
    MaxReloads = 1
SPECIFICATION Spec
INVARIANTS Consistent ReplayedOnlyIfOrphaned
PROPERTIES CallsSettle
