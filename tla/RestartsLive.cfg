SPECIFICATION FairSpec
CONSTANTS
    t1 = t1
    t2 = t2
    audit = audit
    job = job
    Topics = {t1, t2}
    Managed = {t1, t2}
    RunNames = {t2}
    Demo = Demo
    None = None
    NamesUnique = FALSE
    ReportsParallelism = FALSE
    MayExit = FALSE
    JobEvents = {"fail", "stop"}
    MaxFaults = 0
    MaxIncidents = 2
INVARIANTS
    KnownTopicHadFlow
    TopicHasItsFlow
PROPERTIES
    FailedIsRestarted
