\* Two commands in the cluster or on the local machine, and one disturbance.
CONSTANTS
    Command = {p1, p2}
    Image = {i1, i2}
    p1 = p1
    p2 = p2
    i1 = i1
    i2 = i2
    None = None
    Requests <- MCRequests
    Stamp = {1, 2}
    Outputs <- MCOutputs
    vexDownloadAttempts = 2
    Kinds = {"fail", "lost", "kill", "scanner", "pod", "file", "tool", "network", "age", "remove"}
    MaxDisturbances = 1
SPECIFICATION MCSpec
INVARIANT CveTypeOK
INVARIANT WholeFileOnly
INVARIANT TempsRemoved
INVARIANT JobsRemoved
INVARIANT OnlyFinishedReported
INVARIANT FindingsReported
PROPERTY ForeignJobsKept
PROPERTY StaleAsLastResort
PROPERTY ScansEnd
CHECK_DEADLOCK FALSE
