SPECIFICATION Spec
CONSTANTS
    c1 = c1
    c2 = c2
    c3 = c3
    server = server
    command = command
    id1 = id1
    id2 = id2
    pay = pay
    other = other
    Contexts = {c1, c2, c3}
    Hosts = {server}
    HostOf <- MCOneHost
    Ids = {id1, id2}
    Intents = {pay, other}
    Work <- MCWork
    None = None
INVARIANTS
    NonceReservedOnce
    OneTransactionPerId
    SentIsJournalled
PROPERTIES
    OutcomeKept
    LockIsReleased
CHECK_DEADLOCK FALSE
