\* Safety and liveness of the scheduler, mutexes, condition variables, join,
\* sleep and I/O with two threads, one mutex, one condition variable and one
\* descriptor, every thread's program terminating; io_wait's uninitialised
\* `tmp` may hold garbage and crash the process.  No symmetry: the liveness
\* properties are checked in the same run.
CONSTANTS
    Threads = {t1, t2}
    NoThread = NoThread
    Mutexes = {m1}
    Conds = {c1}
    FDs = {f1}
    MaxOps = 3
    MaxSleep = 2
    Forever = {}
    TmpGarbage = TRUE
SPECIFICATION FairSpec
INVARIANT TypeOK
INVARIANT ThreadsAccountedFor
INVARIANT MutualExclusion
PROPERTY FreeOnlyDone
PROPERTY UsleepReturns
PROPERTY IoProgress
PROPERTY RunReturns
