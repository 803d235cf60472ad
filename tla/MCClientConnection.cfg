SPECIFICATION Spec
CONSTANTS
    MaxAttempts = 2
    MaxReports = 1
INVARIANTS
    TypeOK
    NoEventOfEarlierAttempts
PROPERTIES
    ImplementsLife
    GivenUpAttemptsFinish
