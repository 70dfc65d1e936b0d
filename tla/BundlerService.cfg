SPECIFICATION Spec
CONSTANTS
    hup1 = hup1
    hup2 = hup2
    Reloads = {hup1, hup2}
    Attempts = 2
    Torn = Torn
    Absent = Absent
    Pins <- MCPins
    Patched = 2
INVARIANTS
    StoppedIsClean
    SuccessMeansAsked
    PinnedWorker
PROPERTIES
    ShutdownEnds
    StartupSettles
    NoOrphan
CHECK_DEADLOCK FALSE
