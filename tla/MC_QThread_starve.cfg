\* A thread blocked in qthread_read starves while another thread sleeps in
\* a loop: schedule() serves the sleepers before it ever calls io_wait().
CONSTANTS
    Threads = {t1, t2}
    NoThread = NoThread
    Mutexes = {m1}
    Conds = {c1}
    FDs = {f1}
    MaxOps = 2
    MaxSleep = 1
    Forever = {t1}
    TmpGarbage = FALSE
SPECIFICATION FairSpec
PROPERTY IoProgress
