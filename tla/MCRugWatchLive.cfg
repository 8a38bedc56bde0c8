SPECIFICATION FairSpec
CONSTANTS
    alertA = alertA
    alertB = alertB
    None = None
    Alerts = {alertA, alertB}
    Configured = {alertA}
    Minutes = {1, 2}
    Grace = 0
    MaxTime = 3
    LastAlert = 0
PROPERTIES
    ChecksFinish
    WarningsDelivered
