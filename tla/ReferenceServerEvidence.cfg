SPECIFICATION Spec
CONSTANTS
    s1 = s1
    s2 = s2
    h1 = h1
    h2 = h2
    h3 = h3
    r1 = r1
    r2 = r2
    Requests = {r1, r2}
    Sessions = {s1, s2}
    Hashes = {h1, h2, h3}
    Asks <- MCAsks
    Modes = {"bundler", "direct"}
    MaxSessions = 1
    MaxOperations = 1
    MaxFaults = 1
    None = None
    Torn = Torn
PROPERTY InclusionEvidenceKept
CHECK_DEADLOCK FALSE
