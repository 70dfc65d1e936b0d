SPECIFICATION Spec
CONSTANTS
    Requests <- MCRequests
    Ours = {2}
    Costs = {6, 17}
    TopUps = {6, 40}
    MaxBlocks = 5
    MaxForeign = 1
    MaxTorn = 1
    None = None
INVARIANTS
    SentIsRecorded
    EvidenceIsReal
    RequestsStayExecutable
CHECK_DEADLOCK FALSE
