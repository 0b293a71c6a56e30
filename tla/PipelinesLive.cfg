SPECIFICATION FairSpec
CONSTANTS
    t1 = t1
    t2 = t2
    audit = audit
    job = job
    Topics = {t1, audit}
    Managed = {t1}
    RunNames = {job}
    Demo = Demo
    None = None
    NamesUnique = FALSE
    ReportsParallelism = FALSE
    MayExit = TRUE
    JobEvents = {"fail"}
    MaxFaults = 2
    MaxIncidents = 1
PROPERTIES
    TopicGetsFlow
