\* Three clients over two descriptors, two lines.
SPECIFICATION Spec
CONSTANTS
    Conn = {c1, c2, c3}
    None = None
    NFd = 2
    MaxLines = 2
CHECK_DEADLOCK FALSE
SYMMETRY Symmetry
INVARIANTS
    TypeOK
    NoLeak
    ReadsOwn
    DeletesLive
    BindingCurrent
    CountExact
