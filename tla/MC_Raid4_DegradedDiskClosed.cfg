\* One failure detected by a read or write: raid4_read's comment says
\* the drive is closed and the volume continues degraded.
CONSTANTS
    N = 3
    Unit = 2
    DiskSize = 2
    Vals = {1}
    Spares = {S1, S2}
    WrongSize = {S2}
    NULL = NULL
    MaxFail = 2
    MaxDown = 1
    MaxNum = 2
SPECIFICATION Spec
INVARIANT DegradedDiskClosed
