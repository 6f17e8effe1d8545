\* Does a thread handle only the connection it was created for?
SPECIFICATION Spec
CONSTANTS
    Conn = {c1, c2}
    None = None
    NFd = 1
    MaxLines = 2
CHECK_DEADLOCK FALSE
INVARIANT OneThreadPerConnection
