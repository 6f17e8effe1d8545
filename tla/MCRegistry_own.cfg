\* Does a client with a name of its own always get registered?
SPECIFICATION Spec
CONSTANTS
    Conn = {c1, c2}
    Name = {n1, n2}
    None = None
    UserArity = {4}
    MaxLines = 4
SYMMETRY Symmetry
CHECK_DEADLOCK FALSE
INVARIANT OwnNameRegisters
