\* image-cve when the report is downloaded at the second attempt.
CONSTANTS
    Command = {p1}
    Image = {i1}
    p1 = p1
    p2 = p2
    i1 = i1
    i2 = i2
    None = None
    Requests <- MCOneImage
    Stamp = {1}
    Outputs <- MCRetried
    vexDownloadAttempts = 2
    Kinds = {"scanner"}
    MaxDisturbances = 1
SPECIFICATION MCSpec
INVARIANT GoodScansReported
CHECK_DEADLOCK FALSE
