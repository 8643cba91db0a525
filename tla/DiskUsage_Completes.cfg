\* fs_diskUsage from every state the root directory and the files reach.
CONSTANTS
    BLOCK_SIZE = 1
    INODE_NUM_BLKS = 2
    DIR_PAGE_ENTRIES = 2
    DataBlocks <- MCDUDisk
    Inodes <- MCDUInodes
    Names <- MCDUNames
    n1 = n1
    n2 = n2
    n3 = n3
    NoName = NoName
    RootPath = RootPath
    Bytes = {0}
    MAX_REF = 2
    SelfOps = FALSE
    NUM_TC = 1
SPECIFICATION NsSpec
VIEW MCDUView
INVARIANT DiskUsageCompletes
