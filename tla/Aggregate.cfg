SPECIFICATION Spec
CONSTANTS
    q1 = q1
    q2 = q2
    q3 = q3
    Requests = {q1, q2}
    Readings <- SomeReadings
    Args <- SomeArgs
    Day = 2
    TTL = 1
    Patience = 1
    SetLag = 1
    MaxClock = 3
    Never = Never
    NoAnswer = NoAnswer
INVARIANTS
    TypeOK
    AnswersAreComplete
    NotFoundIsTrue
    OtherTypeWasAskedFor
    AnswersAreOfToday
PROPERTIES
    AnswersKept
SYMMETRY Interchangeable
CHECK_DEADLOCK FALSE
