\* Disks of three blocks with a stripe unit of two: raid0_create rounds the
\* volume down to four blocks, leaving the third block of each disk unused.
CONSTANTS
    N = 2
    Unit = 2
    DiskSize = 3
    Vals = {v1}
    Zero = Zero
    NULL = NULL
    MaxFail = 1
    MaxNum = 2
SPECIFICATION Spec
PROPERTY Raid0ImplementsBlockStore
