SPECIFICATION Spec
CONSTANTS
    up = up
    dull = dull
    None = None
    Addresses = {up, dull}
    Settings <- ChainSettings
    Pages <- TokenPages
    Schedules <- QuietTimes
    DayM = 10
    ShiftAt = 2
    QuietSleep = 1
    Renominate = 3
    LookBack = 4
    MaxLag = 1
    MaxNow = 6
    MaxControls = 1
    MaxFaults = 1
INVARIANTS
    NominationsSpaced
    CooldownExplained
    ReplayAgrees
    ScansResume
CHECK_DEADLOCK FALSE
