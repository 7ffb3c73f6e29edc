\* One slot down at a time: spec section 9 says a write block succeeds only
\* when both its data and parity writes succeed.
CONSTANTS
    N = 3
    Unit = 2
    DiskSize = 2
    Vals = {1}
    Spares = {S1, S2}
    WrongSize = {S2}
    NULL = NULL
    MaxFail = 2
    MaxDown = 1
    MaxNum = 2
SPECIFICATION Spec
PROPERTY BlockSuccessMeansBothWritten
