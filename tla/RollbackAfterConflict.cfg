SPECIFICATION FairSpec
CONSTANTS
    TagName = {1, 2, 3, 4, 5, 6, 7}
    ParseTag <- MCParseTag
    PatchWindowExempt = {}
    Component = {c1}
    Chart = {h1}
    ChartOf <- MCSharedChart
    Version = {1}
    InitialVersion = 1
    BundledTag <- MCBundledTag
    Published <- MCPublished
    ZeroDay <- MCZeroDay
    None = None
    UserTags = {2, 3}
    UserPolicies = {"Manual"}
    Kinds = {"edit"}
    MaxDisturbances = 1
PROPERTY NoRollback
CHECK_DEADLOCK FALSE
