\* 5-bit unsigned clock, a 4-microsecond tick and sleeps of up to 12: every
\* phase of the clock at the call, with and without wrap-around.
CONSTANTS
    W = 5
    PEND_TIME = 4
    MaxUsecs = 12
SPECIFICATION Spec
INVARIANT TypeOK
INVARIANT SleepBoundedWithoutWrap
