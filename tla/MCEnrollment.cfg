SPECIFICATION Spec
CONSTANTS
    Ids = {i1}
    Addresses = {a1, a2}
    current = current
    former = former
    r1 = r1
    r2 = r2
    Scopes = {current, former}
    Replicas = {r1, r2}
    ScopeOf <- MCScopeOf
    Requests = {q1, q2}
    Times <- MCTimes
    Ttl = 1
    Durable = TRUE
    MaxDamage = 1
    None = None
INVARIANTS
    OneUsePerChallenge
    UsedWithConsent
    UsedBeforeExpiry
PROPERTIES
    RemovedForCause
    ImplementsOneShot
SYMMETRY Symmetry
CHECK_DEADLOCK FALSE
