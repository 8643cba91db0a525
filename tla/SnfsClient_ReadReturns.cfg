\* Expected violation: see PROJECT.json findings.
CONSTANTS
  c1 = c1
  c2 = c2
  f = f
  g = g
  d = d
  Clients <- MCClients
  Names <- MCNames
  Inodes <- MCInodes
  DName = d
  BLOCK = 1
  INODE_NUM_BLKS = 3
  DENTRY = 1
  MAX_DATA = 1
  MAX_OPEN_FILES = 2
  UINT = 8
  MaxCount = 2
  MaxOffset = 3
SPECIFICATION Spec
PROPERTY ReadReturns
