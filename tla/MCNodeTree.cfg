CONSTANTS
    Node = {n1, n2, n3, n4, n5}
    Root = Root
    MaxDepth = 3
SPECIFICATION TreeSpec
SYMMETRY Symmetry
CHECK_DEADLOCK FALSE
INVARIANTS
    TreeTypeOK
    Acyclic
    DepthBounded
PROPERTY StaysAttached
