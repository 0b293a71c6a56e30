SPECIFICATION Spec
CONSTANTS
    t1 = t1
    t2 = t2
    audit = audit
    job = job
    Topics = {t1, t2, audit}
    Managed = {t1, t2}
    RunNames = {job}
    Demo = Demo
    None = None
    NamesUnique = TRUE
    ReportsParallelism = FALSE
    MayExit = TRUE
    JobEvents = {"fail", "stop", "resume"}
    MaxFaults = 1
    MaxIncidents = 2
INVARIANTS
    LossWithinFaults
    KnownTopicHadFlow
    ScanWithinFaults
