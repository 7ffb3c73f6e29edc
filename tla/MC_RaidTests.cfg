\* Images of four blocks and two passes of each random loop: every
\* first_blk from -1 to nblks - 2 is tried in each pass.
CONSTANTS
    BlkNum = 4
    TestsNum = 2
    Units <- MCUnits
    NDisks <- MCNDisks
    W = W
    Zero = Zero
    NULL = NULL
    Disk0 = D0
    Disk1 = D1
    NewDisk = S1
SPECIFICATION Spec
INVARIANT TypeOK
INVARIANT MirrorTestPasses
INVARIANT Raid0TestPasses
