\* Three connections, two names: a third thread uses a list whose head is lost.
\* USER lines with too few and with enough parameters.
SPECIFICATION Spec
CONSTANTS
    Conn = {c1, c2, c3}
    Name = {n1, n2}
    None = None
    UserArity = {3, 4}
    MaxLines = 4
SYMMETRY Symmetry
CHECK_DEADLOCK FALSE
INVARIANTS
    TypeOK
    RegistrationSound
    BoundIsRegistered
    NoStrandedName
    UniqueNick
    UniqueNode
PROPERTY SettledStays
