SPECIFICATION Spec
CONSTANTS
    Nodes = {1, 2, 3, 4, 5}
    Last = 5
    Key <- MCKey
    NULL = NULL
INVARIANTS
    FindExact
    WalksInOrder
