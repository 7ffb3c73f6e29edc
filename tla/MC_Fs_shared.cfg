\* Three free inodes (six, two to a table block) and one free data block,
\* with only the handlers that create and remove names: enough for two
\* directories and a file after rmdir has freed a block it does not own.
CONSTANTS
    a = a
    b = b
    Names = {a, b}
    NInodes = 6
    INODES_PER_BLK = 2
    NBlocks = 8
    N_DIRECT = 1
    N_ENTRIES = 2
    NUM_PER_BLK = 1
    BLOCK_SIZE = 1
    MaxWrite = 2
SPECIFICATION NamespaceSpec
\* The host may stop calling at any point, and the model stops at a read
\* of bytes it does not follow.
CHECK_DEADLOCK FALSE
PROPERTY FsImplementsFileTree
