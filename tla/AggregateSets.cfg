SPECIFICATION Spec
CONSTANTS
    q1 = q1
    q2 = q2
    q3 = q3
    Requests = {q1, q2, q3}
    Readings <- EarlyReading
    Args <- OneArg
    Day = 4
    TTL = 2
    Patience = 1
    SetLag = 1
    MaxClock = 7
    Never = Never
    NoAnswer = NoAnswer
PROPERTIES
    AnswersAreFresh
    SetsGoBackLittle
SYMMETRY Interchangeable
CHECK_DEADLOCK FALSE
