SPECIFICATION Spec
CONSTANTS
    alertA = alertA
    alertB = alertB
    None = None
    Alerts = {alertA, alertB}
    Configured = {alertA, alertB}
    Minutes = {1, 2}
    Grace = 1
    MaxTime = 3
    LastAlert = 0
SYMMETRY Interchangeable
INVARIANTS
    EachFindingWarnedOnce
PROPERTIES
    DeliveredReachedDiscord
    FindingsAreFinal
