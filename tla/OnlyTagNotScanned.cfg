\* image-list --with-cves when only the current tag can be scanned.
CONSTANTS
    Command = {p1}
    Image = {i1}
    p1 = p1
    p2 = p2
    i1 = i1
    i2 = i2
    None = None
    Requests <- MCOnlyTag
    Stamp = {1}
    Outputs = {}
    vexDownloadAttempts = 2
    Kinds = {}
    MaxDisturbances = 0
SPECIFICATION MCSpec
INVARIANT EverySelectedTagReported
CHECK_DEADLOCK FALSE
