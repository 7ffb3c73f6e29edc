\* Two data disks and a parity disk of two blocks, unit 2: a four-block
\* volume; a two-block request stays on one data disk or crosses to the
\* other, and raid4_replace copies two blocks.  Two failures in a run, one
\* slot down at a time: fail, replace, fail again.
CONSTANTS
    N = 3
    Unit = 2
    DiskSize = 2
    Vals = {1}
    Spares = {S1, S2}
    WrongSize = {S2}
    NULL = NULL
    MaxFail = 2
    MaxDown = 1
    MaxNum = 2
SPECIFICATION Spec
INVARIANT TypeOK
INVARIANT ParityLaw
PROPERTY Raid4ImplementsBlockStore
