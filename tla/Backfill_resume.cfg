SPECIFICATION Spec
CONSTANTS
    LastHour = 2
    Archived <- MCArchived
    Modes <- MCModes
    Retries = 1
    HourParallelism = 2
    Scheduled <- MCScheduled
    Slots = {1, 2}
    MaxRuns = 2
    MaxFaults = 2
    MaxCrons = 1
    None = None
INVARIANTS
    
    SoundSuccess
PROPERTIES
    ResumeKeepsProgress
CHECK_DEADLOCK FALSE
