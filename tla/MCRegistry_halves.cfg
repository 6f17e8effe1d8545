\* Does a connection need both commands to be welcomed?
SPECIFICATION Spec
CONSTANTS
    Conn = {c1, c2}
    Name = {n1}
    None = None
    UserArity = {4}
    MaxLines = 3
SYMMETRY Symmetry
CHECK_DEADLOCK FALSE
INVARIANT WelcomeNeedsBothCommands
