------------------------------ MODULE RaidTests ------------------------------
(***************************************************************************)
(* The two test programs of the RAID code: main() of src/hw3/mirror-test.c *)
(* driving the Mirror volume and main() of src/hw3/raid0-test.c driving    *)
(* RAID0 volumes, each an INSTANCE of its component module with the        *)
(* component's variables renamed.  The programs share nothing; the model   *)
(* runs mirror-test first and raid0-test after it has ended.               *)
(*                                                                         *)
(* A test call is one action of the component, with no image failing       *)
(* inside it: the image files only fail through the tests' image_fail.     *)
(* Each rand() is a choice over the values rand() % nblks can take.  An    *)
(* assert that fails, or a crash of the component, ends the program in     *)
(* "abort"; exit(0) ends it in "exit".  Block contents are Zero (bzero'd   *)
(* buffers) and W: write_data fills a buffer with (char) i, so its blocks  *)
(* of BLOCK_SIZE = 1024 bytes all hold the same bytes.                     *)
(***************************************************************************)
EXTENDS BlkDev, Naturals, Sequences

CONSTANTS
    BlkNum,    \* BLK_NUM: blocks of every image the tests create
    TestsNum,  \* TESTS_NUM: passes of the random write/read loops
    Units,     \* units[] of raid0-test
    NDisks,    \* ndisks[] of raid0-test
    W,         \* contents of write_buf
    Zero, NULL,
    Disk0, Disk1, NewDisk  \* mirror1, mirror2 and newdisk of mirror-test

VARIABLES
    m_disks, m_data, m_failed, m_closes, m_spares, m_reported, m_ret,
    m_phase, m_crashed, m_latest, m_lastRead, m_call,
    m_pc,      \* where main() of mirror-test is
    m_k,       \* its loop counter i
    m_first,   \* first_blk of the loop pass; 0 for the later fixed calls
    r_disks, r_data, r_failed, r_closes, r_ret, r_phase, r_latest,
    r_lastRead, r_touched,
    r_pc,      \* where main() of raid0-test is
    r_i, r_j,  \* indices into units[] and ndisks[] of the outer loops
    r_k,       \* the inner loop counter k
    r_first    \* first_blk of the loop pass

mirrorVars == <<m_disks, m_data, m_failed, m_closes, m_spares, m_reported,
                m_ret, m_phase, m_crashed, m_latest, m_lastRead, m_call>>
raid0Vars == <<r_disks, r_data, r_failed, r_closes, r_ret, r_phase, r_latest,
               r_lastRead, r_touched>>
vars == <<mirrorVars, m_pc, m_k, m_first, raid0Vars, r_pc, r_i, r_j, r_k,
          r_first>>

Mir == INSTANCE Mirror
         WITH NBlks <- BlkNum, Vals <- {W}, Spares <- {NewDisk},
              WrongSize <- {}, MaxFail <- 1, MaxNum <- BlkNum,
              disks <- m_disks, data <- m_data, failed <- m_failed,
              closes <- m_closes, spares <- m_spares, reported <- m_reported,
              ret <- m_ret, phase <- m_phase, crashed <- m_crashed,
              latest <- m_latest, lastRead <- m_lastRead, call <- m_call

\* The (units[i], ndisks[j]) pairs of the outer loops.
Cfgs == (DOMAIN Units) \X (DOMAIN NDisks)

R0(c) == INSTANCE Raid0
           WITH N <- NDisks[c[2]], Unit <- Units[c[1]], DiskSize <- BlkNum,
                Vals <- {W}, MaxFail <- 1, MaxNum <- 2,
                disks <- r_disks, data <- r_data, failed <- r_failed,
                closes <- r_closes, ret <- r_ret, phase <- r_phase,
                latest <- r_latest, lastRead <- r_lastRead,
                touched <- r_touched

Ended == {"done", "exit", "abort"}

\* assert(ok), then go on at `next`.
Assert(pc, ok, next) == pc' = IF ok THEN next ELSE "abort"

\* create_new_image(path, blocks): a file of `blocks` zero bytes' blocks.
FreshImage(blocks) == [b \in 0..(blocks - 1) |-> Zero]

\* Mutation: first_blk = rand() % nblks, without the - 1.
FirstBlk_NoMinus(r) == r

\* first_blk = rand() % nblks - 1, for r = rand() % nblks.
FirstBlk(r) == r - 1

-----------------------------------------------------------------------------
(* mirror-test.c *)

\* blkdev_write / blkdev_read on the mirror, no image failing meanwhile.
MWrite(first, num, v) ==
    /\ Mir!mirror_write(first, num, v) /\ m_failed' = m_failed
    /\ m_call' = [op |-> "write", req |-> <<first, num>>]
MRead(first, num) ==
    /\ Mir!mirror_read(first, num) /\ m_failed' = m_failed
    /\ m_call' = [op |-> "read", req |-> <<first, num>>]

\* Lines 56-70: one block written and read back on the first mirror; a
\* failed call prints and exit(0)s, a mismatch is only printed.
MirrorSmoke ==
    \/ m_pc = "write1" /\ MWrite(0, 1, W)
       /\ m_pc' = IF m_ret' = SUCCESS THEN "read1" ELSE "exit"
    \/ m_pc = "read1" /\ MRead(0, 1)
       /\ m_pc' = IF m_ret' = SUCCESS THEN "recreate" ELSE "exit"

\* Line 85: blkdev_close(mirror) closes both sides of the first volume.
\* Lines 86-92: mirror_create over two fresh images (the ids Disk0 and
\* Disk1 stand for the new images, which no one has closed yet); the
\* assert of line 92 compares mdev->nblks, read from disk 0 at
\* homework.c:157, with the size of mirror_drives[0].
MirrorRecreate ==
    \/ /\ m_pc = "recreate" /\ Mir!mirror_close
       /\ m_call' = [op |-> "close", req |-> Mir!NoReq]
       /\ m_pc' = "reopen"
    \/ /\ m_pc = "reopen"
       /\ m_disks' = [s \in Mir!Sides |-> IF s = 0 THEN Disk0 ELSE Disk1]
       /\ m_data' = [d \in Mir!DiskIds |-> FreshImage(BlkNum)]
       /\ m_failed' = {} /\ m_closes' = [d \in Mir!DiskIds |-> 0]
       /\ m_spares' = {NewDisk} /\ m_reported' = {} /\ m_phase' = "open"
       /\ m_crashed' = FALSE /\ m_latest' = FreshImage(BlkNum)
       /\ m_lastRead' = Mir!Store!NoRead
       /\ m_ret' = SUCCESS /\ m_call' = [op |-> "none", req |-> Mir!NoReq]
       /\ Assert(m_pc, Mir!Blocks = DOMAIN m_data'[m_disks'[0]], "zero")

\* Lines 99-102: the whole volume is zeroed.
MirrorZero ==
    /\ m_pc = "zero" /\ MWrite(0, BlkNum, Zero)
    /\ Assert(m_pc, m_ret' = SUCCESS, "loop")

\* Lines 104-112: first_blk = rand() % nblks - 1; a negative one skips the
\* pass; else two blocks are written, read back, and the first compared.
MirrorLoop ==
    \/ m_pc = "loop" /\ m_k < TestsNum /\ \E r \in 0..(BlkNum - 1) :
          IF FirstBlk(r) < 0 THEN m_k' = m_k + 1 /\ UNCHANGED <<m_pc, m_first>>
          ELSE m_first' = FirstBlk(r) /\ m_pc' = "loop_write" /\ UNCHANGED m_k
    \/ m_pc = "loop" /\ m_k = TestsNum /\ m_pc' = "copy"
       /\ UNCHANGED <<m_k, m_first>>

\* Lines 114-116: the whole volume is read; assert(memcpy(...)) tests the
\* non-NULL pointer memcpy returns, so it compares nothing.
MirrorCopy ==
    /\ m_pc = "copy" /\ MRead(0, BlkNum)
    /\ Assert(m_pc, m_ret' = SUCCESS, "fail")

\* Line 119: image_fail(mirror_drives[0]).
MirrorFail ==
    /\ m_pc = "fail"
    /\ m_failed' = m_failed \cup {Disk0}
    /\ m_pc' = "deg_write" /\ m_first' = 0
    /\ UNCHANGED <<m_disks, m_data, m_closes, m_spares, m_reported, m_ret,
                   m_phase, m_crashed, m_latest, m_lastRead, m_call, m_k>>

\* The write, read and compare of lines 107-110, 120-122 and 129-131:
\* `at` the write, then the read; `next` after them.
MirrorWriteRead(at, read, next) ==
    \/ m_pc = at /\ MWrite(m_first, 2, W)
       /\ Assert(m_pc, m_ret' = SUCCESS, read)
    \/ m_pc = read /\ MRead(m_first, 2)
       /\ Assert(m_pc, m_ret' = SUCCESS /\ m_lastRead'[m_first] = W, next)

\* Lines 125-126: mirror_replace(mirror, 0, newdisk) must succeed; a NULL
\* dereference in it kills the test.
MirrorReplace ==
    /\ m_pc = "replace" /\ Mir!mirror_replace(0, NewDisk)
    /\ m_failed' = m_failed
    /\ m_call' = [op |-> "replace", req |-> Mir!NoReq]
    /\ Assert(m_pc, ~m_crashed' /\ m_ret' = SUCCESS, "new_write")

\* Line 133.
MirrorClose ==
    /\ m_pc = "close" /\ Mir!mirror_close
    /\ m_call' = [op |-> "close", req |-> Mir!NoReq]
    /\ m_pc' = "done"

MirrorTestStep ==
    \/ /\ \/ MirrorSmoke \/ MirrorRecreate \/ MirrorZero \/ MirrorCopy
          \/ MirrorReplace \/ MirrorClose
          \/ MirrorWriteRead("deg_write", "deg_read", "replace")
          \/ MirrorWriteRead("new_write", "new_read", "close")
       /\ UNCHANGED <<m_k, m_first>>
    \/ MirrorLoop /\ UNCHANGED mirrorVars
    \/ MirrorWriteRead("loop_write", "loop_read", "loop")
       /\ m_k' = (IF m_pc = "loop_read" THEN m_k + 1 ELSE m_k)
       /\ UNCHANGED m_first
    \/ MirrorFail

-----------------------------------------------------------------------------
(* raid0-test.c *)

\* The volume of the current pass of the outer loops.
AtCfg(c) == c = <<r_i, r_j>>

\* blkdev_write / blkdev_read on the RAID0 volume of configuration c, no
\* image failing meanwhile.
RWrite(c, first, num, v) ==
    /\ R0(c)!raid0_write(first, num, v) /\ r_failed' = r_failed
    /\ r_touched' = R0(c)!DisksOf(first, num)
RRead(c, first, num) ==
    /\ R0(c)!raid0_read(first, num) /\ r_failed' = r_failed
    /\ r_touched' = R0(c)!DisksOf(first, num)

\* Lines 83-85: the whole volume is zeroed.
Raid0Zero(c) ==
    /\ r_pc = "zero" /\ RWrite(c, 0, R0(c)!NBlks, Zero)
    /\ Assert(r_pc, r_ret' = SUCCESS, "loop")
    /\ UNCHANGED <<r_i, r_j, r_k, r_first>>

\* Lines 89-97: as in mirror-test, but both blocks are compared.
Raid0Loop(c) ==
    \/ r_pc = "loop" /\ r_k < TestsNum /\ UNCHANGED raid0Vars
       /\ \E r \in 0..(R0(c)!NBlks - 1) :
          IF FirstBlk(r) < 0 THEN r_k' = r_k + 1 /\ UNCHANGED <<r_pc, r_first>>
          ELSE r_first' = FirstBlk(r) /\ r_pc' = "loop_write" /\ UNCHANGED r_k
    \/ r_pc = "loop" /\ r_k = TestsNum /\ r_pc' = "copy"
       /\ UNCHANGED <<raid0Vars, r_k, r_first>>
    \/ r_pc = "loop_write" /\ RWrite(c, r_first, 2, W)
       /\ Assert(r_pc, r_ret' = SUCCESS, "loop_read")
       /\ UNCHANGED <<r_k, r_first>>
    \/ r_pc = "loop_read" /\ RRead(c, r_first, 2)
       /\ Assert(r_pc, /\ r_ret' = SUCCESS
                        /\ r_lastRead'[r_first] = W
                        /\ r_lastRead'[r_first + 1] = W, "loop")
       /\ r_k' = r_k + 1 /\ UNCHANGED r_first

\* Lines 99-106: read the volume (assert(memcpy(...)) compares nothing),
\* image_fail(disks[0]), then a write and a read of block 0 must fail.
Raid0Fail(c) ==
    \/ r_pc = "copy" /\ RRead(c, 0, R0(c)!NBlks)
       /\ Assert(r_pc, r_ret' = SUCCESS, "fail")
    \/ r_pc = "fail" /\ r_failed' = r_failed \cup {0} /\ r_pc' = "fail_write"
       /\ UNCHANGED <<r_disks, r_data, r_closes, r_ret, r_phase, r_latest,
                      r_lastRead, r_touched>>
    \/ r_pc = "fail_write" /\ RWrite(c, 0, 1, W)
       /\ Assert(r_pc, r_ret' # SUCCESS, "fail_read")
    \/ r_pc = "fail_read" /\ RRead(c, 0, 1)
       /\ Assert(r_pc, r_ret' # SUCCESS, "close")

\* Line 109: the volume is closed.
Raid0Close(c) ==
    /\ r_pc = "close" /\ R0(c)!raid0_close
    /\ UNCHANGED <<r_failed, r_touched, r_i, r_j, r_k, r_first>>
    /\ r_pc' = "create"
\* Lines 58-75: the next pass of the outer loops creates ndisk fresh
\* images and raid0_create(ndisk, disks, unit) over them (the assert of
\* line 75 recomputes nblks with raid0_create's own expression, NBlks), or
\* the loops end and main() returns.
Raid0Create ==
    /\ r_pc = "create"
    /\ \/ \E c \in Cfgs :
             /\ c = IF r_j < Len(NDisks) THEN <<r_i, r_j + 1>> ELSE <<r_i + 1, 1>>
             /\ r_i' = c[1] /\ r_j' = c[2]
             /\ r_disks' = [s \in R0(c)!Slots |-> s]
             /\ r_data' = [d \in R0(c)!Slots |-> FreshImage(BlkNum)]
             /\ r_failed' = {} /\ r_closes' = [d \in R0(c)!Slots |-> 0]
             /\ r_ret' = SUCCESS /\ r_phase' = "open"
             /\ r_latest' = FreshImage(R0(c)!NBlks)
             /\ r_lastRead' = R0(c)!Store!NoRead /\ r_touched' = {}
             /\ r_pc' = "zero" /\ r_k' = 0
       \/ <<r_i, r_j>> = <<Len(Units), Len(NDisks)>> /\ r_pc' = "done"
          /\ UNCHANGED <<raid0Vars, r_i, r_j, r_k>>
    /\ UNCHANGED r_first

Raid0TestStep ==
    \/ \E c \in Cfgs : AtCfg(c) /\
          \/ Raid0Zero(c)
          \/ Raid0Loop(c) /\ UNCHANGED <<r_i, r_j>>
          \/ Raid0Fail(c) /\ UNCHANGED <<r_i, r_j, r_k, r_first>>
          \/ Raid0Close(c)
    \/ Raid0Create

-----------------------------------------------------------------------------
Init ==
    /\ Mir!Init /\ m_pc = "write1" /\ m_k = 0 /\ m_first = 0
    /\ R0(<<1, 1>>)!Init /\ r_pc = "zero" /\ r_i = 1 /\ r_j = 1
    /\ r_k = 0 /\ r_first = 0

\* raid0-test starts once mirror-test has ended.
Next ==
    \/ m_pc \notin Ended /\ MirrorTestStep
       /\ UNCHANGED <<raid0Vars, r_pc, r_i, r_j, r_k, r_first>>
    \/ m_pc \in Ended /\ r_pc \notin Ended /\ Raid0TestStep
       /\ UNCHANGED <<mirrorVars, m_pc, m_k, m_first>>
    \/ m_pc \in Ended /\ r_pc \in Ended /\ UNCHANGED vars

Spec == Init /\ [][Next]_vars

-----------------------------------------------------------------------------
(* Properties *)

TypeOK ==
    /\ m_pc \in {"write1", "read1", "recreate", "reopen", "zero", "loop", "loop_write",
                 "loop_read", "copy", "fail", "deg_write", "deg_read",
                 "replace", "new_write", "new_read", "close"} \cup Ended
    /\ m_k \in 0..TestsNum /\ m_first \in 0..(BlkNum - 2)
    /\ r_pc \in {"zero", "loop", "loop_write", "loop_read", "copy", "fail",
                 "fail_write", "fail_read", "close", "create"} \cup Ended
    /\ <<r_i, r_j>> \in Cfgs /\ r_k \in 0..TestsNum

(***************************************************************************)
(* main() of mirror-test.c runs to its end for every value rand() returns: *)
(* no assert fails, mirror_replace does not crash, and the early exit(0)   *)
(* of a failed first write or read is not taken.  It needs mirror_read to  *)
(* fall over to the live side, mirror_write's val &= to report SUCCESS     *)
(* when one side is degraded, and mirror_replace to copy from the side     *)
(* that is still attached.                                                 *)
(***************************************************************************)
MirrorTestPasses == m_pc \notin {"abort", "exit"}

(***************************************************************************)
(* main() of raid0-test.c runs to its end for every unit and disk count of *)
(* its outer loops and every value rand() returns: whole-volume and        *)
(* two-block requests that cross unit and disk borders succeed and read    *)
(* back, and after image_fail(disks[0]) a write and a read of block 0 both *)
(* fail.                                                                   *)
(***************************************************************************)
Raid0TestPasses == r_pc # "abort"

=============================================================================
