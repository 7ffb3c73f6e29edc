\* Two data disks and a parity disk of one block, unit 1: a two-block
\* volume; a two-block request crosses from one data disk to the other.
\* Two failures in a run, and two slots down at once: fail, replace, fail
\* again, or a second disk failing while one is degraded.
CONSTANTS
    N = 3
    Unit = 1
    DiskSize = 1
    Vals = {1}
    Spares = {S1, S2}
    WrongSize = {S2}
    NULL = NULL
    MaxFail = 2
    MaxDown = 2
    MaxNum = 2
SPECIFICATION Spec
INVARIANT TypeOK
INVARIANT ParityLaw
PROPERTY Raid4ImplementsBlockStore
