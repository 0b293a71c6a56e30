SPECIFICATION FairSpec
CONSTANTS
    t1 = t1
    t2 = t2
    audit = audit
    job = job
    Topics = {t1}
    Managed = {t1}
    RunNames = {}
    Demo = Demo
    None = None
    NamesUnique = FALSE
    ReportsParallelism = FALSE
    MayExit = FALSE
    JobEvents = {"fail"}
    MaxFaults = 1
    MaxIncidents = 2
PROPERTIES
    FailedIsRestarted
