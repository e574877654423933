CONSTANTS
    Node = {n1, n2, n3}
    Root = Root
    MaxDepth = 3
SPECIFICATION TreeSpec
CHECK_DEADLOCK FALSE
INVARIANT DeletedSubtreesAreGone
