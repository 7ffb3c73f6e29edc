\* The contract of usleep over every phase of a 5-bit unsigned clock.
CONSTANTS
    W = 5
    PEND_TIME = 4
    MaxUsecs = 12
SPECIFICATION Spec
INVARIANT SleepBounded
