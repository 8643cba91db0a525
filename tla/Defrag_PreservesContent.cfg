CONSTANTS
    BLOCK_SIZE = 2
    INODE_NUM_BLKS = 2
    DataBlocks <- MCDefragDisk
    Inodes <- MCDefragInodes
    Bytes = {0, 1}
    MAX_REF = 3
    SelfOps = FALSE
SPECIFICATION DefragSpec
VIEW MCDefragView
PROPERTY DefragPreservesContent
