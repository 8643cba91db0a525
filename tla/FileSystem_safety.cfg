CONSTANTS
    BLOCK_SIZE = 2
    INODE_NUM_BLKS = 2
    DataBlocks <- MCTinyDisk
    Inodes <- MCInodes
    Bytes = {0}
    MAX_REF = 3
    SelfOps = TRUE
SPECIFICATION Spec
VIEW MCView
INVARIANTS TypeOK RefcountsCover
