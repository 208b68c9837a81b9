SPECIFICATION MCFirstSpec
CONSTANTS
    TagName = {1, 2, 3, 4}
    ParseTag <- MCParseTag
    PatchWindowExempt = {}
    Component = {c1, c2}
    Chart = {h1}
    ChartOf <- MCSharedChart
    Version = {1, 2}
    Published <- MCPublished
    ZeroDay <- MCZeroDay
    None = None
    Session = {s1, s2}
    updateAttempts = 2
    BundledTag <- MCBundledTag
    InitialVersion = 1
    UserTags = {3}
    Kinds = {"upgrade", "other", "value", "deleteConfig", "deleteState", "imagePatch", "fail"}
    MaxDisturbances = 2
SYMMETRY MCSymmetry
INVARIANT TypeOK
PROPERTY OthersEntriesKept
PROPERTY BaselineKept
PROPERTY OthersValuesKept
CHECK_DEADLOCK FALSE
