SPECIFICATION Spec
CONSTANTS
    c1 = c1
    c2 = c2
    c3 = c3
    server = server
    command = command
    id1 = id1
    id2 = id2
    pay = pay
    other = other
    Contexts = {c1, c2, c3}
    Hosts = {server, command}
    HostOf <- MCTwoHosts
    Ids = {id1, id2}
    Intents = {pay, other}
    Work <- MCWork
    None = None
INVARIANT NonceReservedOnce
CHECK_DEADLOCK FALSE
