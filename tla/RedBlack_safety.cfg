CONSTANTS
    r1 = r1
    r2 = r2
    r3 = r3
    r4 = r4
    r5 = r5
    r6 = r6
    r7 = r7
    NIL = NIL
    RAIZ = RAIZ
    NULL = NULL
    NodeIds <- MCNodeIds
    Keys = {0, 1, 2}
SPECIFICATION RBSpec
SYMMETRY MCSymmetry
VIEW MCView
INVARIANTS IsRedBlackTree
PROPERTIES OrderedQueueRefinement
