SPECIFICATION MCRulesSpec
CONSTANTS
    TagName <- MCTagName
    ParseTag <- MCParseTag
    PatchWindowExempt = {ingress}
    NoTag = 9
    Name <- MCName
    Skipped = {0, 1}
    limit = 3
    defaultPage = 2
    ListedFor = traefik
    ZeroDay <- MCZeroDay
    MaxNames = 4
    Windowed = traefik
    Exempt = ingress
    Years <- MCYears
    StartDays <- MCStartDays
    Walk = 120
    Charts = {"coredns", "canal", "ingressNginx"}
    Key <- MCKey
    Defaults <- MCDefaults
    Tags = {"new", "newer"}
    UserPaths <- MCUserPaths
    UserScalars = {"new", "own", "{}"}
    EmptyMap = "{}"
    NoValue = ""
    MaxEdits = 3
INVARIANT NothingSkipped
INVARIANT TokenRenewed
INVARIANT OrderedNewestFirst
INVARIANT CLIAgreesWithPolicy
INVARIANT NextNewerTag
INVARIANT ListingMatchesPatching
INVARIANT WindowClosesAfter45Days
INVARIANT OnlyDatesAreBuildDates
INVARIANT ComparisonPredictsMerge
PROPERTY UsersValuesKept
PROPERTY OtherImagesKept
PROPERTY EveryImagePatched
CHECK_DEADLOCK FALSE
