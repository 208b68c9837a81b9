\* Two components, each with a chart of its own, two RKE2 versions, two disturbances of any kind.
SPECIFICATION Spec
CONSTANTS
    TagName = {1, 2, 3, 4, 5, 6, 7}
    ParseTag <- MCParseTag
    PatchWindowExempt = {}
    Component = {c1, c2}
    Chart = {h1, h2}
    ChartOf <- MCOwnChart
    Version = {1, 2}
    InitialVersion = 1
    BundledTag <- MCBundledTag
    Published <- MCPublished
    ZeroDay <- MCZeroDay
    None = None
    UserTags = {4}
    UserPolicies = {"Manual"}
    Kinds = {"upgrade", "delete", "lost", "create", "other", "deleteConfig", "crash", "prime", "cli"}
    MaxDisturbances = 2
INVARIANT TypeOK
INVARIANT OneVersion
INVARIANT NoOrphan
PROPERTY NoLostUpdate
PROPERTY ImplementsLifecycle
SYMMETRY MCSymmetry
CHECK_DEADLOCK FALSE
