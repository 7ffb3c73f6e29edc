\* The bounds of MC_Raid0.cfg: after a failure has nulled one disk, a
\* request that reaches only the other disk.
CONSTANTS
    N = 2
    Unit = 2
    DiskSize = 4
    Vals = {v1}
    Zero = Zero
    NULL = NULL
    MaxFail = 1
    MaxNum = 2
SPECIFICATION Spec
PROPERTY AllLaterCallsFail
