\* A second disk failing while one is degraded: no call may dereference
\* the slot it nulled.
CONSTANTS
    N = 3
    Unit = 2
    DiskSize = 2
    Vals = {1}
    Spares = {S1, S2}
    WrongSize = {S2}
    NULL = NULL
    MaxFail = 2
    MaxDown = 2
    MaxNum = 2
SPECIFICATION Spec
INVARIANT NoNullDeref
