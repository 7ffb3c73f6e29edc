\* Two disks of four blocks, a stripe unit of two: eight volume blocks in
\* two stripes; requests of one or two blocks cross unit and disk borders.
CONSTANTS
    N = 2
    Unit = 2
    DiskSize = 4
    Vals = {v1}
    Zero = Zero
    NULL = NULL
    MaxFail = 1
    MaxNum = 2
SPECIFICATION Spec
INVARIANT TypeOK
INVARIANT StripePlacement
INVARIANT ChildrenClosedOnce
PROPERTY Raid0ImplementsBlockStore
PROPERTY FailedDiskTerminal
