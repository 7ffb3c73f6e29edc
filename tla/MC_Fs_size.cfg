\* Two names, paths of depth two, two entries per directory, inodes 2 and 3
\* free (two to a table block), one free data block after the root
\* directory's, one direct pointer and one pointer per index block, and
\* writes of one or two one-byte blocks.
CONSTANTS
    a = a
    b = b
    Names = {a, b}
    NInodes = 4
    INODES_PER_BLK = 2
    NBlocks = 7
    N_DIRECT = 1
    N_ENTRIES = 2
    NUM_PER_BLK = 1
    BLOCK_SIZE = 1
    MaxWrite = 2
SYMMETRY NameSymmetry
SPECIFICATION Spec
\* The host may stop calling at any point, and the model stops at a read
\* of bytes it does not follow.
CHECK_DEADLOCK FALSE
INVARIANT SizeCoveredByBlocks
