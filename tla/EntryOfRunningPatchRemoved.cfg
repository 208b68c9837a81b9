SPECIFICATION MCSpec
CONSTANTS
    TagName = {1, 2, 3, 4}
    ParseTag <- MCParseTag
    PatchWindowExempt = {}
    Component = {c1}
    Chart = {h1}
    ChartOf <- MCSharedChart
    Version = {1}
    Published <- MCPublished
    ZeroDay <- MCZeroDay
    None = None
    Session = {s1, s2, s3}
    updateAttempts = 5
    BundledTag <- MCBundledTag
    InitialVersion = 1
    UserTags = {3}
    Kinds = {}
    MaxDisturbances = 0
SYMMETRY MCSymmetry
INVARIANT PatchesTracked
CHECK_DEADLOCK FALSE
