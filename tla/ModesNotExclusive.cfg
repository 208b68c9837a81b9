SPECIFICATION ModesSpec
CONSTANTS
    TagName = {1, 2, 3}
    ParseTag <- MCParseTag
    PatchWindowExempt = {}
    Component = {c1}
    Chart = {h1}
    ChartOf <- MCSharedChart
    Version = {1}
    InitialVersion = 1
    BundledTag <- MCBundledTag
    Published <- MCPublished
    ZeroDay <- MCZeroDay
    None = None
    UserTags = {3}
    UserPolicies = {"Manual"}
    Kinds = {"create"}
    MaxDisturbances = 1
    Session = {s1}
    updateAttempts = 5
INVARIANT ModesExclusive
CHECK_DEADLOCK FALSE
