SPECIFICATION Spec
CONSTANTS
    MaxAttempts = 1
    MaxReports = 1
PROPERTIES
    DeadConnectionNoticed
