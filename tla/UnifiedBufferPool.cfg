SPECIFICATION Spec
CONSTANTS
    Procs = {p1, p2}
    Buffers = {b1, b2, b3, b4}
    Nodes = {n1, n2, n3}
    Nil = Nil
    MaxPoolSize = 1
    Word = 16
SYMMETRY Symmetry
INVARIANTS TypeOK SingleOwner ListIsChain CountAccounted OverrunBounded
