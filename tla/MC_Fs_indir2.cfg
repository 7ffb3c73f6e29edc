\* One file under /a, written through direct, indir_1 and indir_2 with two
\* pointers per index block, on a disk large enough that no allocation
\* fails.
CONSTANTS
    a = a
    Names = {a}
    NInodes = 4
    INODES_PER_BLK = 2
    NBlocks = 18
    N_DIRECT = 1
    N_ENTRIES = 1
    NUM_PER_BLK = 2
    BLOCK_SIZE = 1
    MaxWrite = 2
SPECIFICATION WriteOnlySpec
CHECK_DEADLOCK FALSE
INVARIANT SizeCoveredByBlocks
