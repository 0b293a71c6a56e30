SPECIFICATION Spec
CONSTANTS
    t1 = t1
    t2 = t2
    audit = audit
    job = job
    Topics = {t1}
    Managed = {t1}
    RunNames = {job}
    Demo = Demo
    None = None
    NamesUnique = FALSE
    ReportsParallelism = TRUE
    MayExit = TRUE
    JobEvents = {"fail"}
    MaxFaults = 2
    MaxIncidents = 2
INVARIANTS
    TypeOK
    LossWithinFaults
    FlowHasTable
    KnownTopicHadFlow
    CopiesWithinFaults
    ParallelismKept
    TopicHasItsFlow
PROPERTIES
    CatalogKept
    RunningNeverDeleted
    JobsNotMultiplied
