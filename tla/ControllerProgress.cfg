SPECIFICATION FairSpec
CONSTANTS
    TagName = {1, 2, 3, 4, 5, 6, 7}
    ParseTag <- MCParseTag
    PatchWindowExempt = {}
    Component = {c1}
    Chart = {h1}
    ChartOf <- MCSharedChart
    Version = {1, 2}
    InitialVersion = 1
    BundledTag <- MCBundledTag
    Published <- MCPublished
    ZeroDay <- MCZeroDay
    None = None
    UserTags = {1, 2, 6}
    UserPolicies = {"AutoRevert", "Manual"}
    Kinds = {"upgrade", "delete", "value", "crash", "marker", "fail", "lost"}
    MaxDisturbances = 2
PROPERTY DeletionCompletes
PROPERTY NoOlderImageKept
PROPERTY RevertedStaysReverted
PROPERTY ForeignValuesKept
PROPERTY MarkedBeforeReverted
CHECK_DEADLOCK FALSE
