CONSTANTS
    BLOCK_SIZE = 1
    INODE_NUM_BLKS = 2
    DIR_PAGE_ENTRIES = 2
    DataBlocks <- MCSmall
    Inodes <- MCInodes2
    Names <- MCTwoNames
    n1 = n1
    n2 = n2
    NoName = NoName
    Bytes = {0}
    MAX_REF = 2
    SelfOps = FALSE
    NUM_TC = 1
SPECIFICATION NsSpec
VIEW MCView
PROPERTY DirectoryRefinement
