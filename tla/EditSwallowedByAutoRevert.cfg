SPECIFICATION FairSpec
CONSTANTS
    TagName = {1, 2, 3, 4, 5, 6, 7}
    ParseTag <- MCParseTag
    PatchWindowExempt = {}
    Component = {c1}
    Chart = {h1}
    ChartOf <- MCSharedChart
    Version = {1, 2}
    InitialVersion = 1
    BundledTag <- MCBundledTag
    Published <- MCPublished
    ZeroDay <- MCZeroDay
    None = None
    UserTags = {4, 5}
    UserPolicies = {"AutoRevert"}
    Kinds = {"edit", "upgrade"}
    MaxDisturbances = 2
PROPERTY MarkerNamesRevertedSpec
CHECK_DEADLOCK FALSE
