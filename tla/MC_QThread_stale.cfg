\* A thread that blocks when no other thread is runnable is resumed, in a
\* later qthread_run, from a context that was never saved.
CONSTANTS
    Threads = {t1, t2}
    NoThread = NoThread
    Mutexes = {m1}
    Conds = {c1}
    FDs = {f1}
    MaxOps = 3
    MaxSleep = 2
    Forever = {}
    TmpGarbage = FALSE
SPECIFICATION Spec
INVARIANT NoStaleResume
