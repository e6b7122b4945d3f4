\* The delays of the code: 1 s doubled up to the 10 s of the desktop build.
SPECIFICATION FairSpec
CONSTANTS
    INITIAL_DURATION = 1
    MAX_DURATION = 10
    None = None
INVARIANTS
    ScheduledOnlyWithNetwork
PROPERTIES
    BackoffSpacing
    ScheduleResolves
