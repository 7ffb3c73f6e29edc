------------------------------- MODULE QThread -------------------------------
(***************************************************************************)
(* The cooperative user-space thread runtime of src/hw1/qthread.c.         *)
(*                                                                         *)
(* One OS thread runs at a time: `current`.  Every public call of the      *)
(* runtime is one action of the calling thread, including the call of      *)
(* schedule() it ends with; schedule() is the operator Schedule, which     *)
(* picks the next thread, lets the idle scheduler sleep, or hands control  *)
(* back to main.  The only scheduler step that is not part of a thread's   *)
(* call is one pass of the select() loop of io_wait(), which waits for the *)
(* environment.  Threads run an arbitrary program of runtime calls:        *)
(* a thread of Forever loops forever (like the barber-shop customers:      *)
(* a few calls, then a sleep), every other thread makes at most MaxOps     *)
(* calls and then exits.                                                   *)
(***************************************************************************)
EXTENDS Naturals, Sequences, SequencesExt, FiniteSets

CONSTANTS
    Threads,     \* the qthread structures the program may create
    NoThread,    \* NULL
    Mutexes,     \* the qthread_mutex_t objects
    Conds,       \* the qthread_cond_t objects
    FDs,         \* file descriptors used with qthread_read/qthread_write
    MaxOps,      \* calls a terminating thread makes before it exits
    MaxSleep,    \* longest qthread_usleep, in PEND_TIME ticks
    Forever,     \* threads whose program never returns
    TmpGarbage   \* can the uninitialised `tmp` of io_wait() hold garbage?

ASSUME /\ NoThread \notin Threads
       /\ Forever \subseteq Threads
       /\ MaxOps \in Nat \ {0} /\ MaxSleep \in Nat \ {0}
       /\ TmpGarbage \in BOOLEAN

Modes == {"read_mode", "write_mode"}

VARIABLES
    current,     \* `current`; NoThread while main or the idle scheduler runs
    active,      \* the tqueue `active`
    sleepers,    \* the tqueue `sleepers`
    io_waiters,  \* the tqueue `io_waiters`
    polling,     \* schedule() is looping in io_wait()
    state,       \* unborn / live / done (qt->done) / freed (free(qt))
    waiter,      \* qt->waiter
    status,      \* qt->status
    fd,          \* qt->fd
    locked,      \* mutex->locked
    mwaiters,    \* mutex->waiters
    cwaiters,    \* cond->waiters
    pc,          \* where a suspended thread resumes
    arg,         \* the mutex (cond_wait) or thread (join) it resumes with
    saved,       \* threads whose qt->sp was saved when they last suspended
    holds,       \* mutexes each thread's program believes it holds
    sleepLeft,   \* ticks until a sleeper's wakeup time
    ops,         \* calls made by the thread's program
    joined,      \* threads some program has called qthread_join on
    ready,       \* <<fd, mode>> pairs select() would report ready
    mainPhase,   \* main: "main" (own code), "running" (inside qthread_run), "exit"
    crashed      \* the process dereferenced a wild pointer

vars == <<current, active, sleepers, io_waiters, polling, state, waiter,
          status, fd, locked, mwaiters, cwaiters, pc, arg, saved, holds,
          sleepLeft, ops, joined, ready, mainPhase, crashed>>

-----------------------------------------------------------------------------
(* Helpers *)

\* Ticks left until a sleeper's wakeup once b ticks have passed: the test
\* get_usecs() < wakeup of qthread_usleep stops at zero.
\* Mutation: the remaining time is a plain difference that runs below zero.
Monus_Wraps(a, b) == a - b
Monus(a, b) == IF a > b THEN a - b ELSE 0

\* How many times thread t is linked into queue q.
Occ(q, t) == Len(SelectSeq(q, LAMBDA x : x = t))

\* The intrusive thread queue (struct tqueue, linked through qt->next) as a
\* sequence from head to tail.  tq_pop of an empty queue yields NULL and
\* leaves it empty; tq_append of NULL does nothing.
tq_empty(q) == q = <<>>
tq_pop(q) == IF tq_empty(q) THEN [qt |-> NoThread, rest |-> q]
             ELSE [qt |-> Head(q), rest |-> Tail(q)]
tq_append(q, t) == IF t = NoThread THEN q ELSE Append(q, t)

-----------------------------------------------------------------------------
(***************************************************************************)
(* schedule(save_location) called by `self` (NoThread for qthread_run)    *)
(* after the caller has turned the three queues into act, slp and io and  *)
(* the sleep deadlines into left.                                          *)
(*  - pop `active`; a popped thread (possibly self) runs next, and the    *)
(*    context of self is saved in *save_location;                          *)
(*  - all queues empty: switch_to(NULL, main_stack), which does NOT save   *)
(*    the context of self;                                                 *)
(*  - sleepers: usleep(PEND_TIME) (d >= 1 ticks pass), move every sleeper  *)
(*    to active, and pop again;                                            *)
(*  - only io_waiters: loop in io_wait() (action IoWait).                  *)
(***************************************************************************)
\* Mutation: schedule() returns to main without looking at the sleepers.
Schedule_IgnoresSleepers(self, act, slp, io, left) ==
    /\ io_waiters' = io
    /\ IF act = <<>> /\ io = <<>>
         THEN /\ current' = NoThread /\ active' = act
              /\ sleepers' = slp /\ sleepLeft' = left
              /\ saved' = saved \ {self} /\ mainPhase' = "main"
              /\ UNCHANGED polling
         ELSE IF act # <<>>
         THEN /\ current' = Head(act) /\ active' = Tail(act)
              /\ sleepers' = slp /\ sleepLeft' = left
              /\ saved' = saved \cup ({self} \cap Threads)
              /\ UNCHANGED <<polling, mainPhase>>
         ELSE /\ current' = NoThread /\ active' = act
              /\ sleepers' = slp /\ sleepLeft' = left
              /\ saved' = saved \cup ({self} \cap Threads)
              /\ polling' = TRUE /\ UNCHANGED mainPhase

\* Mutation: schedule() enters io_wait() even when every queue is empty.
Schedule_NoReturnToMain(self, act, slp, io, left) ==
    /\ io_waiters' = io
    /\ sleepers' = slp /\ sleepLeft' = left
    /\ saved' = saved \cup ({self} \cap Threads)
    /\ UNCHANGED mainPhase
    /\ IF act # <<>>
         THEN /\ current' = Head(act) /\ active' = Tail(act)
              /\ UNCHANGED polling
         ELSE /\ current' = NoThread /\ active' = act /\ polling' = TRUE

Schedule(self, act, slp, io, left) ==
    /\ io_waiters' = io
    /\ CASE ~tq_empty(act) ->
              /\ current' = tq_pop(act).qt /\ active' = tq_pop(act).rest
              /\ sleepers' = slp /\ sleepLeft' = left
              /\ saved' = saved \cup ({self} \cap Threads)
              /\ UNCHANGED <<polling, mainPhase>>
         [] tq_empty(act) /\ tq_empty(slp) /\ tq_empty(io) ->
              /\ current' = NoThread /\ active' = act
              /\ sleepers' = slp /\ sleepLeft' = left
              /\ saved' = saved \ {self}
              /\ mainPhase' = "main"
              /\ UNCHANGED polling
         [] tq_empty(act) /\ ~tq_empty(slp) ->
              /\ \E d \in 1..MaxSleep :
                    sleepLeft' = [t \in Threads |-> Monus(left[t], d)]
              /\ current' = tq_pop(slp).qt /\ active' = tq_pop(slp).rest
              /\ sleepers' = <<>>
              /\ saved' = saved \cup ({self} \cap Threads)
              /\ UNCHANGED <<polling, mainPhase>>
         [] OTHER ->
              /\ current' = NoThread /\ active' = act
              /\ sleepers' = slp /\ sleepLeft' = left
              /\ saved' = saved \cup ({self} \cap Threads)
              /\ polling' = TRUE
              /\ UNCHANGED mainPhase

SchedVars == <<current, active, sleepers, io_waiters, polling, sleepLeft,
               saved, mainPhase>>

(***************************************************************************)
(* io_wait(): select() on the fds of every io waiter; a waiter whose fd is *)
(* in the returned read OR write set moves to active, in queue order, the  *)
(* rest go back to io_waiters through the local queue `tmp`, which is      *)
(* never initialised: if its stack slot holds a non-NULL head the loop     *)
(* follows a wild pointer.  Then schedule() pops active again.             *)
(***************************************************************************)
Woken(t) == \E m \in Modes : <<fd[t], m>> \in ready /\
               \E u \in ToSet(io_waiters) : status[u] = m /\ fd[u] = fd[t]

\* The garbage outcome of `tmp`: the process dies in io_wait.
IoWaitCrash ==
    /\ polling /\ ~crashed /\ TmpGarbage
    /\ crashed' = TRUE
    /\ UNCHANGED <<SchedVars>>
    /\ UNCHANGED <<state, waiter, status, fd, locked, mwaiters, cwaiters, pc,
                   arg, holds, ops, joined, ready>>

\* A select() pass that survives `tmp`.
IoWaitPoll ==
    /\ polling /\ ~crashed
    /\ LET act == SelectSeq(io_waiters, Woken)
           io  == SelectSeq(io_waiters, LAMBDA t : ~Woken(t))
       IN /\ io_waiters' = io
          /\ IF tq_empty(act)
               THEN UNCHANGED <<current, active, polling>>
               ELSE /\ current' = tq_pop(act).qt /\ active' = tq_pop(act).rest
                    /\ polling' = FALSE
          /\ UNCHANGED <<sleepers, sleepLeft, saved, mainPhase, crashed>>
    /\ UNCHANGED <<state, waiter, status, fd, locked, mwaiters, cwaiters, pc,
                   arg, holds, ops, joined, ready>>

IoWait == IoWaitCrash \/ IoWaitPoll

-----------------------------------------------------------------------------
(* The calling thread and its program *)

Running(t) == current = t /\ ~polling /\ ~crashed /\ mainPhase = "running"

\* A call of the thread's own program: a terminating thread has a budget,
\* a Forever thread has a budget between two sleeps.
CanCall(t) == pc[t] = "user" /\ ops[t] < MaxOps
Count(t) == ops' = [ops EXCEPT ![t] = @ + 1]

\* qthread_mutex_unlock(m) by its holder t: no waiter clears `locked`, else
\* the head waiter moves to active and now owns the (still locked) mutex.
HandOff(m) == tq_pop(mwaiters[m]).qt
\* Mutation: unlock clears `locked` even when it hands the mutex over.
UnlockLocked_AlwaysClear(m) == [locked EXCEPT ![m] = FALSE]
UnlockLocked(m) == [locked EXCEPT ![m] = ~tq_empty(mwaiters[m])]
UnlockWaiters(m) == [mwaiters EXCEPT ![m] = tq_pop(@).rest]
UnlockActive(m) == IF tq_empty(mwaiters[m]) THEN active
                   ELSE tq_append(active, HandOff(m))
UnlockHolds(t, m) ==
    [u \in Threads |->
        IF u = t THEN holds[u] \ {m}
        ELSE IF mwaiters[m] # <<>> /\ u = HandOff(m) THEN holds[u] \cup {m}
        ELSE holds[u]]

(***************************************************************************)
(* qthread_mutex_lock(m) by t (also the re-lock at the end of              *)
(* qthread_cond_wait): take a free mutex, or join its waiters and          *)
(* schedule; unlock hands the mutex over, so lock returns without          *)
(* looking at `locked` again.                                              *)
(***************************************************************************)
MutexLock(t, m) ==
    /\ pc' = [pc EXCEPT ![t] = "user"]
    /\ IF ~locked[m]
         THEN /\ locked' = [locked EXCEPT ![m] = TRUE]
              /\ holds' = [holds EXCEPT ![t] = @ \cup {m}]
              /\ UNCHANGED <<mwaiters, SchedVars>>
         ELSE /\ mwaiters' = [mwaiters EXCEPT ![m] = tq_append(@, t)]
              /\ Schedule(t, active, sleepers, io_waiters, sleepLeft)
              /\ UNCHANGED <<locked, holds>>

qthread_mutex_lock(t) ==
    /\ Running(t) /\ CanCall(t) /\ Count(t)
    /\ \E m \in Mutexes : m \notin holds[t] /\ MutexLock(t, m)
    /\ UNCHANGED <<state, waiter, status, fd, cwaiters, arg, joined, ready,
                   crashed>>

qthread_mutex_unlock(t) ==
    /\ Running(t) /\ CanCall(t) /\ Count(t)
    /\ \E m \in holds[t] :
          /\ locked' = UnlockLocked(m)
          /\ mwaiters' = UnlockWaiters(m)
          /\ active' = UnlockActive(m)
          /\ holds' = UnlockHolds(t, m)
    /\ UNCHANGED <<current, sleepers, io_waiters, polling, state, waiter,
                   status, fd, cwaiters, pc, arg, saved, sleepLeft, joined,
                   ready, mainPhase, crashed>>

\* qthread_cond_wait(c, m): join c's waiters, unlock m, schedule; on resume
\* the thread re-locks m (CondWaitResume).
qthread_cond_wait(t) ==
    /\ Running(t) /\ CanCall(t) /\ Count(t)
    /\ \E c \in Conds, m \in holds[t] :
          /\ cwaiters' = [cwaiters EXCEPT ![c] = tq_append(@, t)]
          /\ locked' = UnlockLocked(m)
          /\ mwaiters' = UnlockWaiters(m)
          /\ holds' = UnlockHolds(t, m)
          /\ pc' = [pc EXCEPT ![t] = "relock"]
          /\ arg' = [arg EXCEPT ![t] = m]
          /\ Schedule(t, UnlockActive(m), sleepers, io_waiters, sleepLeft)
    /\ UNCHANGED <<state, waiter, status, fd, joined, ready, crashed>>

CondWaitResume(t) ==
    /\ Running(t) /\ pc[t] = "relock"
    /\ MutexLock(t, arg[t])
    /\ UNCHANGED <<state, waiter, status, fd, cwaiters, arg, ops, joined,
                   ready, crashed>>

\* Mutation: signal wakes the head waiter without unlinking it.
qthread_cond_signal_NoPop(t) ==
    /\ Running(t) /\ CanCall(t) /\ Count(t)
    /\ \E c \in Conds :
          IF cwaiters[c] # <<>>
            THEN active' = Append(active, Head(cwaiters[c]))
            ELSE UNCHANGED active
    /\ UNCHANGED <<current, sleepers, io_waiters, polling, state, waiter,
                   status, fd, locked, mwaiters, cwaiters, pc, arg, saved,
                   holds, sleepLeft, joined, ready, mainPhase, crashed>>

qthread_cond_signal(t) ==
    /\ Running(t) /\ CanCall(t) /\ Count(t)
    /\ \E c \in Conds :
          IF ~tq_empty(cwaiters[c])
            THEN /\ active' = tq_append(active, tq_pop(cwaiters[c]).qt)
                 /\ cwaiters' = [cwaiters EXCEPT ![c] = tq_pop(@).rest]
            ELSE UNCHANGED <<active, cwaiters>>
    /\ UNCHANGED <<current, sleepers, io_waiters, polling, state, waiter,
                   status, fd, locked, mwaiters, pc, arg, saved, holds,
                   sleepLeft, joined, ready, mainPhase, crashed>>

qthread_cond_broadcast(t) ==
    /\ Running(t) /\ CanCall(t) /\ Count(t)
    /\ \E c \in Conds :
          /\ active' = active \o cwaiters[c]
          /\ cwaiters' = [cwaiters EXCEPT ![c] = <<>>]
    /\ UNCHANGED <<current, sleepers, io_waiters, polling, state, waiter,
                   status, fd, locked, mwaiters, pc, arg, saved, holds,
                   sleepLeft, joined, ready, mainPhase, crashed>>

-----------------------------------------------------------------------------
(* Thread life cycle *)

\* Fresh qthread structure appended to active (qthread_start/create).
Spawn(u) ==
    /\ state' = [state EXCEPT ![u] = "live"]
    /\ active' = tq_append(active, u)

qthread_create(t) ==
    /\ Running(t) /\ CanCall(t) /\ Count(t)
    /\ \E u \in Threads : state[u] = "unborn" /\ Spawn(u)
    /\ UNCHANGED <<current, sleepers, io_waiters, polling, waiter, status, fd,
                   locked, mwaiters, cwaiters, pc, arg, saved, holds,
                   sleepLeft, joined, ready, mainPhase, crashed>>

qthread_yield(t) ==
    /\ Running(t) /\ CanCall(t) /\ Count(t)
    /\ Schedule(t, tq_append(active, t), sleepers, io_waiters, sleepLeft)
    /\ UNCHANGED <<state, waiter, status, fd, locked, mwaiters, cwaiters, pc,
                   arg, holds, joined, ready, crashed>>

\* qthread_exit (also the return of a qthread_create function): mark done,
\* wake the joiner, schedule.  A Forever thread never exits.
qthread_exit(t) ==
    /\ Running(t) /\ pc[t] = "user" /\ t \notin Forever
    /\ state' = [state EXCEPT ![t] = "done"]
    /\ waiter' = [waiter EXCEPT ![t] = NoThread]
    /\ Schedule(t, tq_append(active, waiter[t]),
                sleepers, io_waiters, sleepLeft)
    /\ UNCHANGED <<status, fd, locked, mwaiters, cwaiters, pc, arg, holds,
                   ops, joined, ready, crashed>>

\* qthread_join(u): a done thread is freed at once; otherwise register as
\* its waiter and schedule.  A program joins a thread at most once.
\* Mutation: join frees its target without testing qt->done.
qthread_join_NoDoneTest(t) ==
    /\ Running(t) /\ CanCall(t) /\ Count(t)
    /\ \E u \in Threads \ {t} :
          /\ state[u] \in {"live", "done"} /\ u \notin joined
          /\ joined' = joined \cup {u}
          /\ state' = [state EXCEPT ![u] = "freed"]
    /\ UNCHANGED <<waiter, pc, arg, SchedVars, status, fd, locked, mwaiters,
                   cwaiters, holds, ready, crashed>>

qthread_join(t) ==
    /\ Running(t) /\ CanCall(t) /\ Count(t)
    /\ \E u \in Threads \ {t} :
          /\ state[u] \in {"live", "done"} /\ u \notin joined
          /\ joined' = joined \cup {u}
          /\ IF state[u] = "done"
               THEN /\ state' = [state EXCEPT ![u] = "freed"]
                    /\ UNCHANGED <<waiter, pc, arg, SchedVars>>
               ELSE /\ waiter' = [waiter EXCEPT ![u] = t]
                    /\ pc' = [pc EXCEPT ![t] = "join"]
                    /\ arg' = [arg EXCEPT ![t] = u]
                    /\ Schedule(t, active, sleepers, io_waiters, sleepLeft)
                    /\ UNCHANGED state
    /\ UNCHANGED <<status, fd, locked, mwaiters, cwaiters, holds, ready,
                   crashed>>

\* Back from schedule() in qthread_join: read retval, free(qt).
JoinResume(t) ==
    /\ Running(t) /\ pc[t] = "join"
    /\ state' = [state EXCEPT ![arg[t]] = "freed"]
    /\ pc' = [pc EXCEPT ![t] = "user"]
    /\ UNCHANGED <<SchedVars, waiter, status, fd, locked, mwaiters, cwaiters,
                   arg, holds, ops, joined, ready, crashed>>

(***************************************************************************)
(* qthread_usleep: wakeup = now + usecs; while (now < wakeup) { join       *)
(* sleepers; schedule }.  A Forever thread's sleep ends one iteration of   *)
(* its loop, so its call budget starts again.                              *)
(***************************************************************************)
qthread_usleep(t) ==
    /\ Running(t) /\ pc[t] = "user"
    /\ ops[t] < MaxOps \/ t \in Forever
    /\ ops' = [ops EXCEPT ![t] = IF t \in Forever THEN 0 ELSE @ + 1]
    /\ \E k \in 1..MaxSleep :
          Schedule(t, active, tq_append(sleepers, t), io_waiters,
                   [sleepLeft EXCEPT ![t] = k])
    /\ pc' = [pc EXCEPT ![t] = "usleep"]
    /\ UNCHANGED <<state, waiter, status, fd, locked, mwaiters, cwaiters, arg,
                   holds, joined, ready, crashed>>

\* Back from schedule() in the loop of qthread_usleep: test the clock again.
UsleepResume(t) ==
    /\ Running(t) /\ pc[t] = "usleep"
    /\ IF sleepLeft[t] = 0
         THEN /\ pc' = [pc EXCEPT ![t] = "user"]
              /\ UNCHANGED SchedVars
         ELSE /\ Schedule(t, active, tq_append(sleepers, t), io_waiters,
                          sleepLeft)
              /\ UNCHANGED pc
    /\ UNCHANGED <<state, waiter, status, fd, locked, mwaiters, cwaiters, arg,
                   holds, ops, joined, ready, crashed>>

-----------------------------------------------------------------------------
(***************************************************************************)
(* qthread_read/recv/accept (read_mode) and qthread_write/send             *)
(* (write_mode): record status and fd, try the call; on EAGAIN join        *)
(* io_waiters and schedule, and retry when resumed.  A successful read may *)
(* or may not drain what select() would report.                            *)
(***************************************************************************)
\* Mutation: on EAGAIN the caller schedules without joining io_waiters.
TryIo_NotQueued(t, f, m) ==
    IF <<f, m>> \in ready
      THEN /\ pc' = [pc EXCEPT ![t] = "user"]
           /\ \E drained \in BOOLEAN :
                 ready' = IF drained THEN ready \ {<<f, m>>} ELSE ready
           /\ UNCHANGED SchedVars
      ELSE /\ pc' = [pc EXCEPT ![t] = "io"]
           /\ Schedule(t, active, sleepers, io_waiters, sleepLeft)
           /\ UNCHANGED ready

TryIo(t, f, m) ==
    IF <<f, m>> \in ready
      THEN /\ pc' = [pc EXCEPT ![t] = "user"]
           /\ \E drained \in BOOLEAN :
                 ready' = IF drained THEN ready \ {<<f, m>>} ELSE ready
           /\ UNCHANGED SchedVars
      ELSE /\ pc' = [pc EXCEPT ![t] = "io"]
           /\ Schedule(t, active, sleepers, tq_append(io_waiters, t), sleepLeft)
           /\ UNCHANGED ready

qthread_io(t) ==
    /\ Running(t) /\ CanCall(t) /\ Count(t)
    /\ \E f \in FDs, m \in Modes :
          /\ status' = [status EXCEPT ![t] = m]
          /\ fd' = [fd EXCEPT ![t] = f]
          /\ TryIo(t, f, m)
    /\ UNCHANGED <<state, waiter, locked, mwaiters, cwaiters, arg, holds,
                   joined, crashed>>

IoResume(t) ==
    /\ Running(t) /\ pc[t] = "io"
    /\ TryIo(t, fd[t], status[t])
    /\ UNCHANGED <<state, waiter, status, fd, locked, mwaiters, cwaiters, arg,
                   holds, ops, joined, crashed>>

\* The other end of a pipe or socket becomes readable or writable.
FdReady ==
    /\ \E p \in FDs \X Modes : p \notin ready /\ ready' = ready \cup {p}
    /\ ~crashed
    /\ UNCHANGED <<SchedVars, state, waiter, status, fd, locked, mwaiters,
                   cwaiters, pc, arg, holds, ops, joined, mainPhase, crashed>>

-----------------------------------------------------------------------------
(* main(): create threads, qthread_run, join finished threads, repeat. *)

MainCreate ==
    /\ mainPhase = "main"
    /\ \E u \in Threads : state[u] = "unborn" /\ Spawn(u)
    /\ UNCHANGED <<current, sleepers, io_waiters, polling, waiter, status, fd,
                   locked, mwaiters, cwaiters, pc, arg, saved, holds,
                   sleepLeft, ops, joined, ready, mainPhase, crashed>>

\* qthread_run: schedule(&main_stack) with current = NULL; with an empty
\* `active` it returns at once, so main only calls it with work to do.
qthread_run ==
    /\ mainPhase = "main" /\ ~tq_empty(active)
    /\ mainPhase' = "running"
    /\ current' = tq_pop(active).qt /\ active' = tq_pop(active).rest
    /\ UNCHANGED <<sleepers, io_waiters, polling, sleepLeft, saved, state,
                   waiter, status, fd, locked, mwaiters, cwaiters, pc, arg,
                   holds, ops, joined, ready, crashed>>

\* main joins a thread that has exited (joining a live one from main
\* dereferences current == NULL).
MainJoin ==
    /\ mainPhase = "main"
    /\ \E u \in Threads :
          /\ state[u] = "done" /\ u \notin joined
          /\ state' = [state EXCEPT ![u] = "freed"]
          /\ joined' = joined \cup {u}
    /\ UNCHANGED <<SchedVars, waiter, status, fd, locked, mwaiters, cwaiters,
                   pc, arg, holds, ops, ready, crashed>>

MainReturn ==
    /\ mainPhase = "main"
    /\ mainPhase' = "exit"
    /\ UNCHANGED <<current, active, sleepers, io_waiters, polling, state,
                   waiter, status, fd, locked, mwaiters, cwaiters, pc, arg,
                   saved, holds, sleepLeft, ops, joined, ready, crashed>>

\* main() of the test driver (src/hw1/test1.c): create threads, run them,
\* join the finished ones, and again; or return.
MainStep == MainCreate \/ qthread_run \/ MainJoin \/ MainReturn

\* The process has ended, normally or by a crash.
Terminated == (mainPhase = "exit" \/ crashed) /\ UNCHANGED vars

-----------------------------------------------------------------------------
Init ==
    /\ current = NoThread
    /\ active = <<>> /\ sleepers = <<>> /\ io_waiters = <<>>
    /\ polling = FALSE
    /\ state = [t \in Threads |-> "unborn"]
    /\ waiter = [t \in Threads |-> NoThread]
    /\ status = [t \in Threads |-> "no_io"]
    /\ fd = [t \in Threads |-> CHOOSE f \in FDs : TRUE]
    /\ locked = [m \in Mutexes |-> FALSE]
    /\ mwaiters = [m \in Mutexes |-> <<>>]
    /\ cwaiters = [c \in Conds |-> <<>>]
    /\ pc = [t \in Threads |-> "user"]
    /\ arg = [t \in Threads |-> NoThread]
    /\ saved = Threads
    /\ holds = [t \in Threads |-> {}]
    /\ sleepLeft = [t \in Threads |-> 0]
    /\ ops = [t \in Threads |-> 0]
    /\ joined = {}
    /\ ready = {}
    /\ mainPhase = "main"
    /\ crashed = FALSE

ThreadStep(t) ==
    \/ qthread_create(t) \/ qthread_yield(t) \/ qthread_exit(t)
    \/ qthread_join(t) \/ JoinResume(t)
    \/ qthread_usleep(t) \/ UsleepResume(t)
    \/ qthread_mutex_lock(t) \/ qthread_mutex_unlock(t)
    \/ qthread_cond_wait(t) \/ CondWaitResume(t)
    \/ qthread_cond_signal(t) \/ qthread_cond_broadcast(t)
    \/ qthread_io(t) \/ IoResume(t)

Next ==
    \/ \E t \in Threads : ThreadStep(t)
    \/ IoWait \/ FdReady
    \/ MainStep
    \/ Terminated

\* The running thread always gets to its next step, the idle scheduler
\* keeps calling select() (the garbage `tmp` is undefined behaviour, which
\* no fairness forces), and the other end of a descriptor eventually
\* becomes ready.  main is not assumed to do anything.
Fairness ==
    /\ \A t \in Threads : WF_vars(ThreadStep(t))
    /\ WF_vars(IoWaitPoll)
    /\ WF_vars(FdReady)

Spec == Init /\ [][Next]_vars
FairSpec == Spec /\ Fairness

-----------------------------------------------------------------------------
(* Properties *)

TypeOK ==
    /\ current \in Threads \cup {NoThread}
    /\ \A q \in {active, sleepers, io_waiters} : q \in Seq(Threads)
    /\ polling \in BOOLEAN /\ crashed \in BOOLEAN
    /\ state \in [Threads -> {"unborn", "live", "done", "freed"}]
    /\ waiter \in [Threads -> Threads \cup {NoThread}]
    /\ status \in [Threads -> Modes \cup {"no_io"}]
    /\ fd \in [Threads -> FDs]
    /\ locked \in [Mutexes -> BOOLEAN]
    /\ mwaiters \in [Mutexes -> Seq(Threads)]
    /\ cwaiters \in [Conds -> Seq(Threads)]
    /\ pc \in [Threads -> {"user", "relock", "join", "usleep", "io"}]
    /\ arg \in [Threads -> Mutexes \cup Threads \cup {NoThread}]
    /\ saved \subseteq Threads /\ joined \subseteq Threads
    /\ holds \in [Threads -> SUBSET Mutexes]
    /\ sleepLeft \in [Threads -> 0..MaxSleep]
    /\ ops \in [Threads -> 0..MaxOps]
    /\ ready \subseteq FDs \X Modes
    /\ mainPhase \in {"main", "running", "exit"}

\* The places a thread can be: running, linked into one of the queues, or
\* waiting in qthread_join as some thread's qt->waiter.
Places(t) ==
    (IF current = t THEN 1 ELSE 0)
    + Occ(active, t) + Occ(sleepers, t) + Occ(io_waiters, t)
    + Cardinality(UNION {{<<m, i>> : i \in {j \in DOMAIN mwaiters[m] :
                                          mwaiters[m][j] = t}} : m \in Mutexes})
    + Cardinality(UNION {{<<c, i>> : i \in {j \in DOMAIN cwaiters[c] :
                                          cwaiters[c][j] = t}} : c \in Conds})
    + Cardinality({u \in Threads : waiter[u] = t})

(***************************************************************************)
(* No thread is lost or duplicated: every live thread is in exactly one    *)
(* place (running, in one queue once, or the waiter of the thread it       *)
(* joins), and a thread that exited, was freed or was never created is in  *)
(* none.  This is what the queue moves of exit, join, unlock, cond_wait,   *)
(* signal, broadcast, io_wait and schedule must preserve together.         *)
(***************************************************************************)
ThreadsAccountedFor ==
    \A t \in Threads : Places(t) = IF state[t] = "live" THEN 1 ELSE 0

(***************************************************************************)
(* Mutual exclusion of qthread_mutex_t with hand-over on unlock and the    *)
(* release inside qthread_cond_wait: at most one thread holds a mutex,     *)
(* `locked` is set exactly when someone holds it, and an unlocked mutex    *)
(* has no waiters (a waiter there would never be woken).                   *)
(***************************************************************************)
MutualExclusion ==
    \A m \in Mutexes :
        /\ Cardinality({t \in Threads : m \in holds[t]}) <= 1
        /\ locked[m] <=> \E t \in Threads : m \in holds[t]
        /\ ~locked[m] => mwaiters[m] = <<>>

(***************************************************************************)
(* qthread_join frees a thread only after that thread has exited: free(qt) *)
(* of a thread still linked in a queue would leave a dangling pointer.     *)
(***************************************************************************)
FreeOnlyDone ==
    [][\A u \in Threads :
          (state'[u] = "freed" /\ state[u] # "freed") => state[u] = "done"]_state

(***************************************************************************)
(* A thread is only ever resumed from a context that was saved when it     *)
(* last suspended.  schedule() switches to main with switch_to(NULL, ...)  *)
(* when no queue holds a thread, which does not save the context of the    *)
(* thread that just blocked on a mutex, a condition or a join.             *)
(***************************************************************************)
NoStaleResume == current \in Threads => current \in saved

\* A thread that calls qthread_usleep eventually returns from it, unless
\* io_wait's garbage `tmp` has killed the process first.
UsleepReturns ==
    \A t \in Threads : pc[t] = "usleep" ~> (pc[t] # "usleep" \/ crashed)

\* A thread blocked in qthread_read/qthread_write eventually completes the
\* call, given that the descriptor eventually becomes ready (or the process
\* has crashed in io_wait).
IoProgress == \A t \in Threads : pc[t] = "io" ~> (pc[t] # "io" \/ crashed)

\* qthread_run returns to main once the threads' programs have finished
\* (or the process has crashed).
RunReturns == mainPhase = "running" ~> (mainPhase # "running" \/ crashed)

=============================================================================
