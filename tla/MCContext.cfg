SPECIFICATION Spec
CONSTANTS
    NULL = NULL
    u1 = u1
    u2 = u2
    k1 = k1
    k2 = k2
    User = {u1, u2}
    Channel = {k1, k2}
    Nick = {n1, n2}
    Name = {x1}
    Socket = {s1}
    Mode = {o, v}
    OPER = o
    MaxSize = 6
    MaxServers = 0
    Args <- MCArgs
    hostname <- Host
SYMMETRY Places
CHECK_DEADLOCK FALSE
INVARIANTS
    NetworkLoads
    TablesAgree
PROPERTIES
    ImplementsDirectory
