# TLA+ models of the CS5600 homework systems

This directory holds TLA+ models of the code under `src/`, the TLC
configurations that check them, and `PROJECT.json`, which maps every model
definition to the source lines it translates.

## The system

The repository has four independent programs.

| Part | Source | What it is |
|---|---|---|
| QT | `src/hw1/qthread.c`, `qthread.h` | A cooperative user-space thread library. It has three global queues (`active`, `sleepers`, `io_waiters`) and `schedule()`. It provides create/yield/exit/join/usleep, mutexes with hand-over, condition variables, and non-blocking I/O wrappers that park a thread until `select()` reports its descriptor ready. |
| Barbershop | `src/hw2/homework.c` | A pthreads simulation: a barber, customers, a bounded waiting line and three condition variables. |
| RAID | `src/hw3/homework.c` | Block devices built over child disks: a mirror (RAID1), striping (RAID0) and RAID4 with a parity disk. It includes failure detection, recovery from parity and disk replacement. |
| FS | `src/hw4/homework.c` | A FUSE file system over a block image. It has an inode bitmap, a block bitmap, an inode table, directories, and files with direct, single-indirect and double-indirect blocks. |

Test drivers (`src/hw1/test1.c` and `src/hw3/*test*.c`) exercise these parts. So do libraries that are not in `src/`: the block-device layer, the FUSE glue, the hw2 timing library, and the stack switch `switch_to`/`setup_stack`.

The four programs do not interact, so each is modelled on its own.

## Inventory and status

| Component | Module(s) | Status |
|---|---|---|
| QT scheduler, threads, mutexes, conds, I/O | `QThread`, `MC_QThread` | modelled |
| QT clock arithmetic (`get_usecs`, `qthread_usleep`) | `UsleepClock` | modelled |
| RAID block-device interface | `BlkDev` (return codes, C `&`, leaf device) | modelled from the spec (not in `src/`) |
| RAID abstract volume | `BlockStore` | abstract specification |
| RAID mirror | `Mirror`, `MC_Mirror` | modelled |
| RAID0 | `Raid0`, `MC_Raid0` | modelled |
| RAID4 | `Raid4`, `MC_Raid4` | modelled |
| FS handlers that change state (init/getattr, mknod, mkdir, truncate, unlink, rmdir, rename, chmod, utime, write) | `Fs`, `MC_Fs` | modelled (the read-only handlers change no state and are not actions) |
| FS abstract tree of names (the operation contracts of spec section 4.3) | `FileTree` | abstract specification |
| Barbershop (barber, customers, wait line, condition variables) | `Barbershop`, `MC_Barbershop` | modelled |
| QT test driver (`test1.c`: `main`, `run_test1`) | `QThread` (`MainStep`, thread programs) | modelled (the strcmp of return values is left out) |
| RAID test drivers (`mirror-test.c`, `raid0-test.c`; `test.c`) | `RaidTests`, `MC_RaidTests` (composing `Mirror` and `Raid0`); `test.c`'s replacing caller is `Replace` of `Mirror` and `Raid4` | modelled |
| External libraries | none | not modelled: not in `src/` |

## QThread: the thread runtime

### State

The variables are the library's globals and per-thread fields:

- `current`;
- `active`, `sleepers` and `io_waiters` as sequences of threads, because FIFO order matters;
- `state`, which is `done`/`free` abstracted to unborn/live/done/freed;
- `waiter`, `status` and `fd`;
- `locked` and `mwaiters` for each mutex;
- `cwaiters` for each condition variable.

Four variables are auxiliary:

- `pc` and `arg` record where a suspended thread resumes: inside `qthread_cond_wait`, `qthread_join`, the loop of `qthread_usleep`, or an I/O retry loop.
- `saved` records which threads had their stack pointer saved when they last suspended.
- `holds` records the mutexes that a thread's program holds.

### Actions

Each public call is one action of the running thread. Each action includes the `schedule()` call the function ends with. That `schedule()` call is the operator `Schedule`, a CASE over its branches:

1. pop `active`;
2. everything empty: switch to main without saving;
3. sleepers: sleep `PEND_TIME` and move them all to `active`;
4. only I/O waiters: poll.

The one scheduler step that is not part of a call is a pass of the `io_wait()` select loop (`IoWait`). It is either a select pass that moves the ready waiters to `active` (`IoWaitPoll`) or the crash described below (`IoWaitCrash`). It waits for the environment (`FdReady`).

`main` is modelled by four actions: `MainCreate`, `qthread_run`, `MainJoin` and `MainReturn`. Together they are `MainStep`, the `main` of the test driver `test1.c`: create threads, run them, join the finished ones, and again. `run_test1` (three yields, then return) is one of the call programs of a thread with `MaxOps` 3.

The queues are the intrusive `struct tqueue`, modelled as sequences from head to tail through `tq_pop`, `tq_append` and `tq_empty`. `tq_pop` of an empty queue yields NULL and `tq_append` of NULL does nothing, as in the code; `qthread_exit` relies on the latter when no thread joined.

Each thread runs an arbitrary program of calls:

- A thread outside `Forever` makes at most `MaxOps` calls and then exits.
- A thread in `Forever` loops forever. Its call budget restarts at every `qthread_usleep`, like the barber-shop customers: a few calls, then a sleep.

The time a sleeper still has to sleep is abstracted to ticks (`sleepLeft`, at most `MaxSleep`).

The uninitialised local `tmp` of `io_wait()` is undefined behaviour. It is a nondeterministic crash, enabled by `TmpGarbage`.

### Runs

| Run | cfg | Checks | Result |
|---|---|---|---|
| `qthread` | `MC_QThread.cfg` | `TypeOK`, `ThreadsAccountedFor`, `MutualExclusion`, `FreeOnlyDone`, and `UsleepReturns`, `IoProgress`, `RunReturns` under `FairSpec` | pass |
| `qthread_stale_context` | `MC_QThread_stale.cfg` | `NoStaleResume` | violation (finding) |

What each property covers:

- `ThreadsAccountedFor` says each live thread is in exactly one place: running, one queue, or the `waiter` of the thread it joins. It covers every queue move of every call together.
- `MutualExclusion` covers the hand-over protocol of unlock and the release inside `cond_wait`.
- `FreeOnlyDone` is an action property: `free(qt)` only after `qt` exited.

Two counterexamples are bugs in the code. The first is the run `qthread_stale_context`; the second is `MC_QThread_starve.cfg`, listed under 'Further counterexamples'.

1. **Stale context.** `schedule()` switches to main with `switch_to(NULL, main_stack)` when all queues are empty. This does not save the context of the thread that just blocked, so a later `qthread_run` resumes that thread from a stale stack pointer.
2. **I/O starvation.** `schedule()` serves sleepers before I/O waiters. A thread that sleeps in a loop therefore starves every reader, contrary to the spec's promise that a sleeper and a reader both progress.

Bounds are 2 threads, 1 mutex, 1 condition variable, 1 descriptor, `MaxOps` 3 and `MaxSleep` 2. These are enough for:

- a blocked waiter and a hand-over on each primitive;
- a join before and after exit;
- a sleeper overlapping a reader;
- a crash in `io_wait`.

A third thread only adds longer queues of the same shape. The run does not use `SYMMETRY`, because it checks liveness. The liveness properties allow a crash in `io_wait` as an outcome (`\/ crashed`): after a crash nothing more happens.

**Fairness.** The running thread eventually takes its next step. This holds because its program is a finite sequence of calls, and its budget is bounded or restarts at each sleep. The idle scheduler keeps calling `select()` (`WF_vars(IoWaitPoll)`). The garbage outcome of `tmp` is undefined behaviour, so no fairness forces it. A descriptor's other end eventually becomes ready (`WF_vars(FdReady)`). `main` is not assumed to do anything.

## UsleepClock: the unsigned clock

`get_usecs()` returns the time in microseconds, truncated to `unsigned`. `qthread_usleep` stores `wakeup = get_usecs() + usecs`, also as `unsigned`, and loops while `get_usecs() < wakeup`. Each pass of the loop lasts one scheduler tick, `PEND_TIME` or a microsecond more.

TLC integers cannot hold 2^32, so the width `W` is a constant. It is checked at W = 5 with `PEND_TIME` 4 and sleeps up to 12. Every clock phase at the call is an initial state, so every position relative to the wrap is covered.

- **`UsleepClock.cfg` (pass; see 'Further counterexamples').** If the clock does not wrap before the loop's last test, `usleep(u)` lasts between `u` and `u + PEND_TIME`.
- **`UsleepClock_wrap.cfg` (violation; see 'Further counterexamples').** Near the wrap, which comes every 71.6 minutes at 32 bits, `usleep` either returns at once (`wakeup` wrapped) or sleeps a whole period (the clock wrapped during the sleep). Both break the spec's bound of `u + 2*PEND_TIME`.

## RAID: mirror, RAID0 and RAID4 (`src/hw3/homework.c`)

### Shared modules

- **`BlkDev`** holds the block-device interface. `blkdev.h` is not in the repository, so the codes are assumed to be `SUCCESS` 0, `E_BADADDR` -1, `E_UNAVAIL` -2 and `E_SIZE` -3. The code combines codes with C `&`, so `CAnd` computes `&` on their 8-bit two's-complement patterns (community module `Bitwise`). `LeafResult` is the image device: a failed image answers `E_UNAVAIL`, and an out-of-range request answers `E_BADADDR`.
- **`BlockStore`** is what a volume promises: an array of blocks. A successful write stores its value in every block it names. A failed write may have stored it in a prefix of them. A successful read returns the stored values. Block contents are one model value per request.

### How the RAID modules correspond to the code

Each RAID module has one action per operation: read, write, close, and for the mirror also replace. Each action walks the request block by block, as the code does. Inside one action, the model chooses which leaf access first meets a newly failed image (`image_fail`). This covers a failure at any point of any call, up to `MaxFail` images per run.

`latest` is a history variable: the value the completed writes left in each block. `lastRead` is what the last successful read returned. The volume refines `BlockStore` under `store <- latest`, which checks two things:

- each successful read returns `latest`;
- `latest` only changes the way a write may change it.

### Mirror

The variables are:

- `disks`: the two slots;
- `data` of each image;
- `failed` images;
- the `closes` each image received;
- the `spares` for `mirror_replace`, where a spare in `WrongSize` has the wrong size.

`Replace` models a caller that replaces a side which is NULL or failed.

| Run | cfg | Checks | Result |
|---|---|---|---|
| `mirror_integrity` | `MC_Mirror.cfg` | `TypeOK`, `HealthySidesAgree`, `ChildrenClosedOnce`, `MirrorImplementsBlockStore`, `DegradedServes` | pass |

`DegradedServes` is what `mirror-test.c` asserts after `image_fail`, for every request and failure point: an in-range read or write succeeds unless no attached, unfailed side is left at the end of the call. The history variable `call` records the operation and request of the last step. An out-of-range read whose side 1 fails answers `E_UNAVAIL`, not `E_BADADDR`. That is the spec's "propagate the last error", so the property is stated for in-range requests only.

The three counterexamples below are bugs in the code. All three are configurations listed under 'Further counterexamples'.

1. `mirror_write` starts with `val = E_UNAVAIL` and does `val &= write(...)`. Since `-2 & -1 = -2`, an out-of-range write is taken for a failure: both healthy sides are closed and dropped.
2. Once one side succeeds, `0 & x = 0`, so an `E_UNAVAIL` from the other side is ignored. That side is never closed.
3. `mirror_replace` reads the other side without testing it for NULL.

The bounds are 2 blocks, 2 values (under symmetry), 2 spares (one of the wrong size), 2 failures, and requests of 1 or 2 blocks. With them, every order of failure, drop and replace of the two sides happens, and so do multi-block requests that fail halfway.

### RAID0

`DiskOf` and `BlkOf` are the code's stripe arithmetic. `LogicalOf` is an independent reference placement: stripe unit `u` of the volume is unit `u / N` of disk `u % N`. A request walks its blocks and stops at the first block whose slot is NULL, whose image has failed, or whose address is past the disk.

| Run | cfg | Checks | Result |
|---|---|---|---|
| `raid0_integrity` | `MC_Raid0.cfg` | `TypeOK`, `StripePlacement`, `ChildrenClosedOnce`, `Raid0ImplementsBlockStore`, `FailedDiskTerminal` | pass |

- `FailedDiskTerminal` is what `raid0-test.c` asserts after `image_fail` (spec section 8, "Stripe0 terminal"). Every later read or write whose blocks reach a failed disk returns `E_UNAVAIL`. This holds whether the disk was closed and nulled by an earlier call or is met failing now, and whichever block of the request reaches it. The history variable `touched` is the set of disks the last request's blocks map to (`DisksOf`).
- `StripePlacement` says every disk block holds the value `latest` gives its logical block at the reference placement. An aliasing error in the arithmetic only shows up after a write that crosses a unit border.
- The comments of `raid0_read` and `raid0_write` (`homework.c:222-227`, `265-268`) promise more than the code does. They say that once a failed device is closed, "this and all subsequent read or write operations" return an error. The code only fails requests whose blocks reach the nulled slot. `AllLaterCallsFail` states the comments' promise, and `MC_Raid0_later.cfg` shows it violated (see 'Further counterexamples'): disk 0 fails and is nulled with `E_UNAVAIL`, then a request on disk 1 alone returns `SUCCESS`. The spec (section 8) and `raid0-test.c` ask only for what `FailedDiskTerminal` checks, so this is a gap between the comments and the code.
- The violation of `MC_Raid0_tail.cfg` (see 'Further counterexamples'): `raid0_create` rounds `nblks` down to whole units, but reads and writes never check against `nblks`. With disks of 3 blocks and a unit of 2, a read of blocks 3 and 4 of a 4-block volume succeeds.

The bounds are 2 disks of 4 blocks, a unit of 2 (8 volume blocks in two stripes), one value, one failure, and requests of 1 or 2 blocks. With them, requests cross both unit and disk borders. A second value does not change which blocks are placed where, and it made the state space too large.

### RAID4

`Raid4` has N-1 data disks and a parity disk in the last slot. `last_failed` is the disk that is read around.

**Contents.** Block contents are small integers (`Vals`, here `{1}`), so parity is real XOR (`^^` of `Bitwise`). The `TypeOK` word width is the width of the widest value.

**Steps and failures.** A request is processed one block at a time, with `pc` and the loop's locals (`i`, `d`, `pd`, `od`, `op`, `buf`) as variables. `image_fail` can run between any two steps. There are four steps:

- a read block: `ReadBlock`, which is `r4_read_check` with its `recover_data`;
- the old-data read of a write block: `WriteReadData`;
- the old-parity read: `WriteReadParity`;
- the two writes: `WriteCommit`.

Each image is accessed at most once within a step. So a failure inside a step has the same effect as a failure just before or just after it.

**The commit.** C leaves the order of the two `r4_write_check` calls in `a & b` unspecified, so `WriteCommit` takes both orders. The second call sees the `last_failed` that the first one left.

**Replace and close.** `raid4_replace` is one action. Nothing that its loop reads changes between passes, so the first pass decides whether it fails. `raid4_close` is also one action.

**Caller and faults.** `Replace` is the caller of `test_raid4_3`: it replaces a slot that is failed or NULL with a spare. A NULL or closed image that is dereferenced ends the process (`fault`).

| Run | cfg | Checks | Result |
|---|---|---|---|
| `raid4_integrity` | `MC_Raid4.cfg` | `TypeOK`, `ParityLaw`, `Raid4ImplementsBlockStore` | pass |
| `raid4_stale_parity` | `MC_Raid4_NoUseAfterClose.cfg` | `NoUseAfterClose` | violation (finding) |

**What holds.** With two failures per run and up to two slots down at once (`MaxDown` 2):

- the parity law holds whenever every slot is healthy again;
- the volume refines `BlockStore`: no read ever returns data the writes did not leave, even after a second disk has failed while one was degraded. After that second failure the calls that do not crash return `E_UNAVAIL`, or serve blocks of disks that are still healthy.

This covers fail, replace and fail again. It also covers a failure between the read and the write halves of a block, in either write order. Degraded reads are reconstructed correctly.

**What breaks.** With two slots down, the process can crash:

- A NULL is dereferenced (`MC_Raid4_NoNullDeref.cfg`). The second failing disk is closed and nulled, but `recover_data`, `r4_read_check` and `raid4_replace` never test for NULL.
- A closed image is read (the run `raid4_stale_parity`). `raid4_write` reads `pd` once at entry. When the parity disk is closed as a second failure in one block, `0 & -2` is `SUCCESS`, so the loop goes on and the next block reads through the freed pointer. This needs two consecutive blocks on a healthy data disk, which is why the unit is 2.

**Where code and text disagree** (`MC_Raid4_DegradedDiskClosed.cfg` and `MC_Raid4_BothWritten.cfg`).

- The first failed disk is never closed, contrary to the comment of `raid4_read`.
- Spec section 9 says the source reports a write block successful only when both writes succeed. In fact one successful write is enough, which is the behaviour section 4.2.3 asks for.

**Bounds.** The run `raid4_integrity` has 3 disks of 1 block and a unit of 1: a 2-block volume, where a request of 2 blocks crosses from one data disk to the other. There are two spares, one of the wrong size, two failures per run, and up to two slots down at once. The run has 169K distinct states. `MC_Raid4_TwoBlock.cfg` checks the same properties over disks of 2 blocks with a unit of 2, a 4-block volume as in the tests' N=3 and unit=2. It allows one slot down at a time. It passes with 4.0M distinct states in about 2 minutes, too slow to be a run (see 'Further counterexamples'). Together they cover requests inside one unit, a replace that copies several blocks, and a second failure while degraded.

## RaidTests: the RAID test programs (`src/hw3/mirror-test.c`, `src/hw3/raid0-test.c`)

`RaidTests` composes the two test programs with the volumes they drive. `Mir` is an `INSTANCE` of `Mirror` and `R0(c)` an `INSTANCE` of `Raid0` for the pass `c = <<i, j>>` of raid0-test's outer loops over `units[]` and `ndisks[]`. Their variables are renamed with `m_` and `r_`. The programs share nothing, so the model runs `mirror-test` to its end and then `raid0-test`.

| Code | Model |
|---|---|
| where `main()` is | `m_pc`, `r_pc`; `m_k`, `r_k` are the loop counters, `r_i`, `r_j` the outer loop indices |
| `blkdev_write`, `blkdev_read` | `MWrite`, `MRead`, `RWrite`, `RRead`: one action of the volume, with no image failing inside it |
| `first_blk = rand() % nblks - 1` | `FirstBlk(r)` for every `r` in `0..nblks-1`; a negative value skips the pass |
| `create_new_image` | `FreshImage`: a zero-filled image |
| `image_fail(...)` | `MirrorFail`, the `"fail"` step of `Raid0Fail` |
| `blkdev_close(mirror)` at line 85, then `mirror_create` over fresh images | `MirrorRecreate`: `mirror_close` of the first volume, then the new volume; the ids `Disk0` and `Disk1` stand for the new images |
| `assert(e)` | `Assert`: a false `e`, or a crash of `mirror_replace`, ends the program in `"abort"` |
| `exit(0)` after a failed first write or read | `"exit"` |

`write_data` fills a buffer with `(char) i`, so with `BLOCK_SIZE` 1024 every block of `write_buf` holds the same bytes, the value `W`; `bzero`'d buffers hold `Zero`. `assert(memcpy(backup, image_copy, ...))` (`mirror-test.c:116`, `raid0-test.c:101`) tests the pointer `memcpy` returns, so it compares nothing; the model does the same. The assert of line 92 compares the mirror's `nblks`, which `mirror_create` reads from disk 0 (`homework.c:157`), with the size of `mirror_drives[0]`; it holds.

| Run | cfg | Checks | Result |
|---|---|---|---|
| `raid_tests` | `MC_RaidTests.cfg` | `TypeOK`, `MirrorTestPasses`, `Raid0TestPasses` | pass, 20,138 distinct states |

**What holds.** For every value `rand()` returns, both programs run to their end: no assert fails, `mirror_replace` does not crash, and the early `exit(0)` is not taken. After `image_fail(mirror_drives[0])` the mirror write of line 120 drops slot 0, the read falls back to side 1, and `mirror_replace(mirror, 0, newdisk)` copies from side 1. After `image_fail(disks[0])` both calls on block 0 of the RAID0 volume fail.

**What the tests miss.** The component mutations that the component runs catch were also checked against `MC_RaidTests.cfg`. None of these makes a test fail:

- `mirror_read` without fallback;
- `mirror_write` stopping after side 0;
- `mirror_replace` copying one block short;
- a dropped side left in its slot, in the mirror or in RAID0;
- RAID0 placement per block, or with the stripe number not scaled by the unit;
- RAID0 without the early return.

Every written block holds the same bytes, and each read follows the write of the same blocks, so the tests cannot see misplaced or stale blocks. Only the properties of `mirror_integrity`, `raid0_integrity` and `raid4_integrity` do.

**Bounds.** Images have `BLK_NUM` = 4 blocks, and each random loop makes 2 passes. raid0-test runs with `units[]` = `<<2, 3>>` and `ndisks[]` = `<<2, 3>>`, so the volumes have 8, 12, 6 and 9 blocks. With unit 3 a tail block of every image is unused, as with unit 7 and 32 blocks in the code. The first phase of mirror-test uses images of 2 blocks in the code; the model uses 4 for both phases, because the instance's size is a constant. Deadlock is checked: the model stops only when both programs have ended.

## Barbershop: the sleeping barber (`src/hw2/homework.c`)

One barber thread and `NUM_OF_CUSTOMERS` customer threads share the mutex `m`, the condition variables `barber_c`, `wait_c` and `done_c`, the linked-list wait line `line` and the flag `is_sleep`.

**Why each section is one action.** Every access to shared state happens with `m` held. Every section ends by releasing `m`:

- in `pthread_cond_wait`;
- in `sleep_exp(TIME_OF_HAIRCUT, &m)`, which unlocks `m` for the haircut (the behaviour of the hw2 timing library, not in `src/`);
- in `pthread_mutex_unlock`.

So each section is one action, and `m` is free between actions; it is not a variable. A thread woken by a signal has left the condition variable (`wait_c`, `done_c`, or `barber_c` for the barber) but has not yet reacquired `m`. Its next action is the rest of its section. The race of the model is between that re-acquisition and the other threads' sections.

| Code | Model |
|---|---|
| `barber()`: lock, first loop test | `BarberStart` |
| wake from `barber_c`, `while (q_empty)` again | `BarberWake` |
| `sleep_exp` returns: signal `done_c`, `wait_c`, `q_poll`, loop top | `BarberFinish` (and `BarberFinishCrash`) |
| the loop top: sleep or peek and start `sleep_exp` | `LoopTop` |
| `customer()`: count, full test, signal, `q_offer`, first turn test | `customer` |
| wake from `wait_c`, `while (customer_num != q_peek)` again | `CustomerRecheck` |
| wake from `done_c`, unlock, back to the circle | `CustomerLeave` |

`pthread_cond_signal` wakes one arbitrary waiter (`Signal`). `q_poll` frees the head and then reads `head->next` from the freed node. That read is undefined behaviour, so `BarberFinishCrash` lets it return garbage and the process die (`FreedRead`). The statistics library calls (`stat_*`) and the printing are left out. `total` and `turn_away` are kept, and `total` is capped at `MaxTotal` visits.

| Run | cfg | Checks | Result |
|---|---|---|---|
| `barbershop` | `MC_Barbershop.cfg` | `TypeOK`, `BarberSleepsOnlyWhenEmpty`, `LineHoldsWaitingCustomers`, `DoneWaiterIsHead`, `HaircutPrecedesLeave`, `BarberServesHead` under `FairSpec` | pass |
| `barbershop_lost_signal` | `MC_Barbershop_lost.cfg` | `EveryCustomerLeaves` under `FairSpec` | violation (finding) |

What the run shows:

- the barber never waits on `barber_c` with a non-empty line;
- the line holds each customer at most once, and only customers inside `customer()`;
- only the head waits on `done_c`;
- a customer leaves only after it was polled;
- the barber keeps serving the head of the line.

**What breaks.** `EveryCustomerLeaves` fails (the run `barbershop_lost_signal`). The barber signals `done_c` while the new head has been woken from `wait_c` but has not yet reacquired `m`, so the signal is lost. `q_poll` then removes that customer, which waits on `wait_c` forever because it is never the head again. The same happens when `signal(&wait_c)` wakes a customer other than the head. Once every customer is lost, the simulation hangs.

**Bounds and fairness.** There are 3 customers, 1 waiting chair and the barber's chair (a line of 2, so the shop fills and turns customers away), and up to 9 visits. The run has 23k states. The deadlock check is off because the run ends when the visits are used up or the process dies. Weak fairness is assumed on each woken thread's re-acquisition of `m` and on the barber's sections. This is justified because every section is a few instructions and a customer spends its circle (mean 10 s) away from `m`. Arrivals and the garbage read are not forced. Spurious wakeups are not modelled. With them, the `done_c` wait, which is not in a loop, would let a customer leave before its haircut.

## Fs: the fsx600 file system (`src/hw4/homework.c`)

The FUSE host calls one handler at a time, so each `fs_*` handler that changes state is one atomic action of `Fs`. The state has two copies:

- the in-memory shadow that `fs_init` loads: `inodes`, `inode_map` and `block_map`;
- the disk image: `disk_inodes`, `disk_inode_map`, `disk_block_map`, and `disk_blk`, which holds the contents of every other block.

A handler's disk writes are applied to the disk variables in the same step, as the code makes them. These are `update_inode` (the whole table block holding the inode), `update_map` (both bitmaps), directory blocks and index blocks. `lookup` reads directory blocks from disk through the in-memory inodes, as the code does.

**Data.** A block is zero bytes, directory entries, block pointers, the superblock, other metadata, or `garbled` (a structure partly overwritten by file data). A path has at most two components over a set of names. The buffers passed to `fs_write` are zero-filled. Sometimes the code reads one structure's bytes as another's, for example through a stale pointer to a block now used differently. The result then depends on data the model does not carry, so the model sets `halt` to `"layout"` (`ReadGarbled`, or a `fs_write` that meets a garbled index block) and stops. A zeroed superblock makes the next `fs_init` index `malloc(0)`; the model sets `halt` to `"super"`.

| Code | Model |
|---|---|
| `fs_init`, and `fs_getattr` which calls it | `fs_init`, `fs_getattr` (reload the shadow from disk) |
| `lookup` | `walk`, `lookup` (`GARBLE` when a directory block holds something else) |
| `find_free_inode_index`, `find_free_blk_num`, `update_inode` | operators of the same names; `AllocBlk` (zero the block, set the bit) |
| `fs_mknod` | `CanCreate`, `AddEntry`, `fs_mknod` (sets only mode and size) |
| `fs_mkdir` | `fs_mkdir`, and `fs_mkdir_nospc` for the return at line 512 |
| `truncate_clear_indir1/2`, `fs_truncate` | `PtrsIn`, `TruncReadsOK`, `TruncFreed`, `Truncated`, `fs_truncate` |
| `fs_unlink` | `fs_unlink` |
| `fs_rmdir` | `fs_rmdir`: the empty check (`NonEmptyOutcomes`), the 8-byte `memset`, `FD_CLR(direct[0])` |
| `fs_rename`, `fs_chmod`, `fs_utime` | operators of the same names |
| `lookup` of every path, as the host sees the tree | `AbsTree`, the refinement mapping to `FileTree` |
| `fs_write_direct`, `fs_write_indir1`, `fs_write_indir2`, `fs_write` | recursive loops of the same names over a write record; `WriteStage` for the three stages and their early returns |

Two checks of `fs_rmdir` read bytes that may not be directory entries: the parent test on line 677 looks at `dir_inode`, not `inode`. When the inode is not a directory, its block's emptiness is a nondeterministic choice (`NonEmptyOutcomes`).

| Run | cfg | Checks | Result |
|---|---|---|---|
| `fs` | `MC_Fs.cfg` | `TypeOK`, `NamesUniqueInDir`, `EntriesNameLiveInodes`, `ReachableInodesFlushed`, `FsImplementsFileTree` | pass, 67,114 distinct states |
| `fs_stale_inode` | `MC_Fs_stale.cfg` | `BlocksOwnedOnce` | violation (finding) |
| `fs_write_nospace` | `MC_Fs_size.cfg` | `SizeCoveredByBlocks` | violation (finding) |

What the run shows. Consider every sequence of handler calls on two names with four inodes, seven blocks and writes of 1 or 2 bytes at every legal offset, including ENOSPC paths and remounts by `fs_getattr`. For all of them:

- no directory ever holds the same name twice;
- every entry reachable from the root names an inode that is in `inode_map` and has the entry's type;
- every inode a lookup reaches is the same in memory and in the table on disk (`ReachableInodesFlushed`), so the reload of `fs_getattr` never changes a file or directory the host can see;
- `Fs` implements `FileTree` (`FsImplementsFileTree`).

**The abstract tree.** `FileTree` is what the operations promise at the level of names. It maps every path of depth at most two to `"none"`, `"reg"` or `"dir"`. Its steps are:

- create a name in a directory;
- unlink a regular file;
- rmdir a directory with no valid entries;
- rename within one directory, which moves what is under the source.

Any call may fail and change nothing. The refinement mapping `AbsTree` gives each path the mode of the inode `lookup` finds, or `"none"` where `lookup` fails. So the property says that:

- no failed `mkdir` makes a name visible;
- rmdir never removes a directory that still lists entries;
- rename carries a directory's entries with it;
- no stale block makes a directory's entries vanish.

Two limits of this check:

- By itself, `rmdir` of a regular file (the wrong test on line 677) looks like an `unlink` at this level.
- Both `rmdir` bugs make two live inodes share a block. They break the tree only when a third inode exists, to put an entry in a directory whose block is shared. The `fs` run has two free inodes, so the refinement holds there. `MC_Fs_shared.cfg` (under Further counterexamples) gives six inodes and only the handlers that create and remove names (`NamespaceSpec`), and the refinement fails.

**What breaks.** Each of these is a bug in the code.

1. `fs_stale_inode`. `fs_rmdir` runs `memset(inode, 0, sizeof(inode))` with a pointer, which clears 8 bytes. `direct[0]` stays. `fs_mknod` reuses the inode, so after `mkdir /a`, `rmdir /a`, `mknod /a` the file points at a block that `block_map` marks free.
2. `MC_Fs_shared.cfg`. Because of the wrong check on line 677, `rmdir` of an empty regular file removes it and runs `FD_CLR(0)`. TLC's trace has seven steps:
   - `mknod /a`, then `rmdir /a`, which frees block 0;
   - `mknod /a` again, then `mkdir /b`, which takes block 0 for its entries;
   - `rmdir /a`, which frees block 0 again, then `mkdir /a`, which takes block 0 too;
   - `mknod /a/a`, which also makes `/b/a` appear.

   `MC_Fs_superblock.cfg` shows the first cost: the next allocation zeroes the superblock (`MetadataStaysAllocated`). The memset bug of item 1 alone also breaks the tree, in TLC's simulation mode under these bounds: `mkdir /x`, `rmdir /x`, `mknod /x`, `mkdir /y`, `mknod /y/z`, `unlink /x`, `mkdir /x`. The final `mkdir` zeroes the block of `/y`, and `/y/z` vanishes.
3. `MC_Fs_leak.cfg`. `fs_mkdir` sets the inode bit before allocating the block. Its ENOSPC return leaves the bit set, and the next `update_map` writes it. The spec says the partial state must not be visible.
4. `fs_write_nospace`. `fs_write_direct` returns `len - len_t` after `len_t` was already reduced for the block it could not allocate, so `size` covers a block that was never written. TLC's trace: `mknod /a`, then `mkdir /b` takes the last free block, then a 1-byte write to `/a` returns 1 and sets `size` to 1 while `direct[0]` stays 0. The spec (section 4.3, `write`) says a short write reports the bytes written so far.
5. `MC_Fs_indir2.cfg`. `fs_write_indir2` starts at page `offset / BLOCK_SIZE` instead of `offset / INDIR1_SIZE`, which `fs_read` uses. It runs `WriteOnlySpec` (`mknod` and `write` only) with two pointers per index block, to reach the double-indirect region.

**Bounds.** These are chosen so that each region and each ENOSPC path is reached:

- 4 inodes, 2 per table block. Inode 0 is reserved and 1 is the root, so two files or directories can exist.
- 7 blocks: the superblock, two bitmaps, two inode-table blocks, the root directory block (blocks 0 to 5), and 1 free block in the main run.
- One direct pointer and one pointer per index block, with 1-byte blocks, so the direct, indir_1 and indir_2 regions are each one block.

`SYMMETRY` permutes the names; this is sound because `lookup` takes the first matching slot and no handler compares names other than for equality. Deadlock is not checked: once `halt` is set, or once every operation fails, the model stops. There is no liveness property, and no fairness, because the host calls handlers only when a user asks.

## Further counterexamples

`PROJECT.json` lists one question per run. The configurations below are kept beside the modules. All but `UsleepClock.cfg` and `MC_Raid4_TwoBlock.cfg` reproduce a further disagreement between the code and its spec, comments or intent: each checks one property, and TLC reports it violated. Those two pass. The hazards of `PROJECT.json` cite them.

| cfg | Module | Property | What TLC shows |
|---|---|---|---|
| `MC_Mirror_FailedChildDetached.cfg` | `MC_Mirror` | `FailedChildDetached` | A write that succeeds on side 0 hides side 1's `E_UNAVAIL` (`0 & x == 0`). Side 1 stays attached and open. |
| `MC_Mirror_NoCrash.cfg` | `MC_Mirror` | `NoCrash` | After both sides were dropped, `mirror_replace` dereferences the NULL side. |
| `MC_Raid0_later.cfg` | `MC_Raid0` | `AllLaterCallsFail` | After a failed disk is closed, a request that reaches only the other disk still succeeds, contrary to the comments of `raid0_read` and `raid0_write`. |
| `MC_Raid0_tail.cfg` | `MC_Raid0` | `Raid0ImplementsBlockStore` | When the disk size is not a multiple of the unit, a read past `nblks` succeeds. |
| `MC_Raid4_NoNullDeref.cfg` | `MC_Raid4` | `NoNullDeref` | After a second failure nulls a slot, a degraded read or `raid4_replace` dereferences it. |
| `MC_Raid4_DegradedDiskClosed.cfg` | `MC_Raid4` | `DegradedDiskClosed` | The first failed disk is never closed, contrary to the comment of `raid4_read`. |
| `MC_Mirror_HealthyNeverClosed.cfg` | `MC_Mirror` | `HealthyNeverClosed` | `val = E_UNAVAIL; val &= write(...)`: an out-of-range write gives `-2 & -1 == -2`, so both healthy sides are closed and dropped. |
| `MC_QThread_starve.cfg` | `MC_QThread` | `IoProgress` | A thread that sleeps in a loop keeps `sleepers` non-empty, so `schedule()` never calls `io_wait()` and a reader starves. |
| `MC_Raid4_TwoBlock.cfg` | `MC_Raid4` | `TypeOK`, `ParityLaw`, `Raid4ImplementsBlockStore` | Passes: the Raid4 safety properties over 2-block disks with one slot down at a time. |
| `UsleepClock.cfg` | `UsleepClock` | `TypeOK`, `SleepBoundedWithoutWrap` | Passes: without a wrap, `usleep(u)` lasts between `u` and `u + PEND_TIME`. |
| `UsleepClock_wrap.cfg` | `UsleepClock` | `SleepBounded` | Near the 32-bit wrap of `get_usecs()`, `usleep` returns at once or sleeps a whole period. |
| `MC_Fs_superblock.cfg` | `MC_Fs` | `MetadataStaysAllocated` | `rmdir` of an empty regular file frees block 0 (the superblock). |
| `MC_Fs_leak.cfg` | `MC_Fs` | `NoLeakedInodes` | `mkdir` failing with ENOSPC leaves its inode bit set, and the next `update_map` writes it to disk. |
| `MC_Fs_shared.cfg` | `MC_Fs` | `FsImplementsFileTree` | With six inodes and only the name handlers, `rmdir` of a regular file lets two directories share a block, so `mknod /a/a` also makes `/b/a` appear. |
| `MC_Fs_indir2.cfg` | `MC_Fs` | `SizeCoveredByBlocks` | `fs_write_indir2` picks the page by `offset / BLOCK_SIZE`, so a write past the first double-indirect page goes to the wrong page. |
| `MC_Raid4_BothWritten.cfg` | `MC_Raid4` | `BlockSuccessMeansBothWritten` | A block whose parity write fails is still reported written. Spec section 9 misreads the source here. |

Run any of them as `tlc -workers 2 -config <cfg> <Module>`.

## Not modelled

- Stack switching and memory layout (`switch_to`, `setup_stack`, `malloc` of stacks).
- Byte contents of buffers, and the wording of printed output.
- The fixed sequences of `test.c`. Its tests call the volumes in orders the component modules already explore. Its caller that replaces a failed disk is the `Replace` action of `Mirror` and `Raid4`. The helpers `dump`, `check_data` and `check_parity` compare bytes or write debugging files.
- The real sizes of the test programs (`BLK_NUM` 32, units up to 32, 10 disks, `TESTS_NUM` 10). `rand()` ranges over `nblks` values in each of 10 passes, which TLC cannot enumerate. The model scales them down (see RaidTests, 'Bounds').
- `test1.c`'s string return values and its `strcmp` assertions: values are not modelled.
- FS: the read-only handlers (`fs_readdir`, `fs_open`, `fs_opendir`, `fs_release`, `fs_statfs`, `fs_read`). They change no state; `fs_read`'s page arithmetic is the reference `SpecBlockOf`.
- FS: `fs_truncate` with `len != 0`, which only returns `-EINVAL`. Names of 28 bytes or more. The one-byte-short `_path` buffer of `fs_mkdir` (stack undefined behaviour). A crash between the disk writes of one handler: there is no journal and no recovery code to check.
- FS: `fsx600.h` is not in the repository. The model assumes its standard layout (16-bit `uid`/`gid`, then `mode`), so `rmdir`'s 8-byte `memset` clears `uid`, `gid` and `mode` and nothing else.
- The external block-device, image and FUSE libraries. Only the behaviour the code relies on is assumed.
