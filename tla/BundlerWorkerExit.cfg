SPECIFICATION Spec
CONSTANTS
    hup1 = hup1
    hup2 = hup2
    Reloads = {}
    Attempts = 2
    Torn = Torn
    Absent = Absent
    Pins <- MCPins
    Patched = 2
PROPERTY WorkerExitIsNoticed
CHECK_DEADLOCK FALSE
