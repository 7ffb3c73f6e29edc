\* Two blocks, two values, one good and one wrong-sized spare, up to two
\* image failures and requests of one or two blocks (some out of range).
CONSTANTS
    NBlks = 2
    Vals = {v1, v2}
    Zero = Zero
    Disk0 = D0
    Disk1 = D1
    Spares = {S1, S2}
    WrongSize = {S2}
    NULL = NULL
    MaxFail = 2
    MaxNum = 2
SPECIFICATION Spec
SYMMETRY ValSymmetry
INVARIANT FailedChildDetached
