----------------------------- MODULE UsleepClock -----------------------------
(***************************************************************************)
(* The clock arithmetic of qthread_usleep (src/hw1/qthread.c).             *)
(*                                                                         *)
(* get_usecs() returns tv_sec * 1000000 + tv_usec converted to `unsigned`, *)
(* i.e. the wall clock in microseconds modulo 2^W (W = 32 in the build).   *)
(* qthread_usleep stores wakeup = get_usecs() + usecs, again as unsigned,  *)
(* and loops while get_usecs() < wakeup; each pass the thread sits in      *)
(* `sleepers` until the idle scheduler has slept PEND_TIME.  The real time *)
(* `now` is unbounded; the clock reading is now % 2^W.  TLC's integers     *)
(* cannot hold 2^32, so W is a parameter and the model is checked with a   *)
(* small width: the wrap-around behaves the same at every width.  A pass   *)
(* of the loop takes PEND_TIME or a microsecond more.  A sleep is followed *)
(* up to Horizon microseconds, longer than a whole period of the clock.    *)
(***************************************************************************)
EXTENDS Naturals

CONSTANTS
    W,          \* width of `unsigned` in bits
    PEND_TIME,  \* the idle scheduler's sleep
    MaxUsecs    \* longest sleep requested

ASSUME W \in Nat \ {0} /\ PEND_TIME \in Nat \ {0} /\ MaxUsecs \in Nat

Wrap == 2 ^ W

Horizon == Wrap + MaxUsecs + 2 * PEND_TIME

\* get_usecs(): the real time as an unsigned of W bits.
get_usecs(t) == t % Wrap

VARIABLES
    now,      \* real time in microseconds
    start,    \* real time of the call
    usecs,    \* the argument
    wakeup,   \* the local `wakeup`
    phase     \* "idle", "sleeping" (in the while loop) or "returned"

vars == <<now, start, usecs, wakeup, phase>>

Init ==
    /\ now \in 0..(Wrap - 1)
    /\ start = now /\ usecs = 0 /\ wakeup = 0
    /\ phase = "idle"

(***************************************************************************)
(* qthread_usleep(usecs): compute wakeup and test the loop condition once; *)
(* the thread either returns at once or joins `sleepers`.                  *)
(***************************************************************************)
\* Mutation: wakeup kept as a long, without the conversion to unsigned.
qthread_usleep_LongWakeup ==
    /\ phase = "idle"
    /\ \E u \in 0..MaxUsecs :
          /\ usecs' = u
          /\ wakeup' = get_usecs(now) + u
          /\ phase' = IF get_usecs(now) < wakeup' THEN "sleeping" ELSE "returned"
    /\ start' = now
    /\ UNCHANGED now

qthread_usleep ==
    /\ phase = "idle"
    /\ \E u \in 0..MaxUsecs :
          /\ usecs' = u
          /\ wakeup' = (get_usecs(now) + u) % Wrap
          /\ phase' = IF get_usecs(now) < wakeup' THEN "sleeping" ELSE "returned"
    /\ start' = now
    /\ UNCHANGED now

(***************************************************************************)
(* One pass of the loop: schedule() finds nothing else to run, sleeps      *)
(* PEND_TIME and moves the sleeper back to `active`; the thread tests      *)
(* get_usecs() < wakeup again.                                             *)
(***************************************************************************)
\* Mutation: `if` for `while`: the clock is not tested again after a pass.
SleepPass_NoRetest ==
    /\ phase = "sleeping" /\ now - start < Horizon
    /\ \E d \in PEND_TIME..(PEND_TIME + 1) : now' = now + d
    /\ phase' = "returned"
    /\ UNCHANGED <<start, usecs, wakeup>>

SleepPass ==
    /\ phase = "sleeping" /\ now - start < Horizon
    /\ \E d \in PEND_TIME..(PEND_TIME + 1) : now' = now + d
    /\ phase' = IF get_usecs(now') < wakeup THEN "sleeping" ELSE "returned"
    /\ UNCHANGED <<start, usecs, wakeup>>

\* The sleep has returned, or has lasted longer than the model follows it.
Done == (phase = "returned" \/ now - start >= Horizon) /\ UNCHANGED vars

Next == qthread_usleep \/ SleepPass \/ Done

Spec == Init /\ [][Next]_vars

-----------------------------------------------------------------------------
TypeOK ==
    /\ now \in Nat /\ start \in Nat /\ now >= start
    /\ usecs \in 0..MaxUsecs /\ wakeup \in 0..(Wrap - 1)
    /\ phase \in {"idle", "sleeping", "returned"}

Elapsed == now - start

(***************************************************************************)
(* The contract of the spec (section 8): usleep(u) blocks for at least     *)
(* u - PEND_TIME and at most u + 2 * PEND_TIME.                             *)
(***************************************************************************)
SleepBounded ==
    /\ phase = "returned" => Elapsed + PEND_TIME >= usecs
    /\ phase # "idle" => Elapsed <= usecs + 2 * PEND_TIME

(***************************************************************************)
(* When the unsigned clock does not wrap between the call and the last     *)
(* test of the loop (at most one tick past the wakeup time), the loop      *)
(* never returns before the full sleep has elapsed and returns within one  *)
(* scheduler tick after it.                                                *)
(***************************************************************************)
SleepBoundedWithoutWrap ==
    (phase # "idle" /\ get_usecs(start) + usecs + PEND_TIME < Wrap) =>
        /\ phase = "returned" => Elapsed >= usecs
        /\ Elapsed <= usecs + PEND_TIME

=============================================================================
