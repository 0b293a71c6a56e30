SPECIFICATION Spec
CONSTANTS
    r1 = r1
    r2 = r2
    r3 = r3
    n1 = n1
    n2 = n2
    Requests = {r1, r2, r3}
    Owners = {"o1"}
    NamesGiven = {n1, n2}
    Prefix <- PrefixClash
    MaxFailures = 2
INVARIANTS
    TypeOK
    CreatedIsUsable
    StoredCredentialsWork
    UserHasCredentials
    DuplicateNeedsOverlap
    ExistsIsTrue
    IndexedIsStored
PROPERTIES
    DirectoryKept
SYMMETRY Interchangeable
CHECK_DEADLOCK FALSE
