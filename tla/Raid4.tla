-------------------------------- MODULE Raid4 --------------------------------
(***************************************************************************)
(* RAID-4 of src/hw3/homework.c: N-1 data disks and a parity disk in the   *)
(* last slot, with last_failed marking the one disk read around.           *)
(*                                                                         *)
(* A request is processed one block at a time, as the code's loop does,    *)
(* and image_fail may hit any image between two steps.  A read block is    *)
(* one step (r4_read_check and its recover_data only read).  A write block *)
(* is three: read the old data, read the old parity, and the two writes.   *)
(* The steps are cut where a failure between them changes what the code    *)
(* sees: every image is accessed at most once within a step.               *)
(*                                                                         *)
(* Block contents are small integers, so parity is real XOR (^^).          *)
(***************************************************************************)
EXTENDS BlkDev, FiniteSetsExt, Functions, Sequences, TLC

CONSTANTS
    N,         \* disks including the parity disk
    Unit,      \* stripe unit in blocks
    DiskSize,  \* num_blocks of every image
    Vals,      \* block contents the caller writes (non-zero integers)
    Spares,    \* fresh images the caller may pass to raid4_replace
    WrongSize, \* the spares whose size differs
    NULL,
    MaxFail,   \* images image_fail may fail in a run
    MaxDown,   \* slots that may be failed or NULL at the same time
    MaxNum     \* largest num_blks of a request

ASSUME N >= 2 /\ Unit \in Nat \ {0} /\ DiskSize \in Nat

DEFAULT == -1

Slots == 0..(N - 1)
DiskBlocks == 0..(DiskSize - 1)
P == N - 1                       \* the parity slot
Images == Slots \cup Spares       \* image s starts in slot s

\* r4_dev->nblks as raid4_create computes it.
NBlks == (DiskSize \div Unit) * Unit * (N - 1)

\* nth_disk and blk_num_in_disk of logical block i.
DiskOf(i) == (i \div Unit) % (N - 1)
BlkOf(i) == ((i \div Unit) \div (N - 1)) * Unit + (i % Unit)

VARIABLES
    disks,       \* r4_dev->disks[]
    data,        \* contents of each image
    failed,      \* images failed by image_fail
    closes,      \* close() calls each image has received
    last_failed, \* r4_dev->last_failed
    spares,      \* spares not yet installed
    ret,         \* return value of the last completed call
    pc,          \* the call in progress and its step, or "idle"
    req,         \* the request: first, num and the value written
    i,           \* the loop index of raid4_read / raid4_write
    d, pd,       \* the data disk of block i; the parity disk read at entry
    od, op,      \* old_data and old_parity of block i
    buf,         \* blocks read so far
    fault,       \* "none", or how the process died
    latest,      \* history: contents left by the writes, per volume block
    lastRead     \* history: blocks and contents of the last successful read

vars == <<disks, data, failed, closes, last_failed, spares, ret, pc, req, i,
          d, pd, od, op, buf, fault, latest, lastRead>>

Store == INSTANCE BlockStore WITH store <- latest, Zero <- 0

Requests == (0..(NBlks - 1)) \X (1..MaxNum)

\* A block's contents: words as wide as the widest value written.
Width == Min({w \in 0..8 : \A v \in Vals : v < 2 ^ w})
Word == 0..(2 ^ Width - 1)

-----------------------------------------------------------------------------
(***************************************************************************)
(* One leaf call on image x: a NULL or closed image kills the process,     *)
(* otherwise the image answers as BlkDev's leaf device does.  Results are  *)
(* records [fault, code, val].                                             *)
(***************************************************************************)
Fault(f) == [fault |-> f, code |-> SUCCESS, val |-> 0]

LeafAccess(x, blk) ==
    IF x = NULL THEN Fault("null")
    ELSE IF closes[x] > 0 THEN Fault("closed")
    ELSE LET c == LeafResult(x \in failed, blk, 1, DiskSize)
         IN [fault |-> "none", code |-> c,
             val |-> IF c = SUCCESS THEN data[x][blk] ELSE 0]

Served(a) == a.fault = "none" /\ a.code = SUCCESS

\* Mutation: the loop stops before the parity disk (i < ndisks - 1).
recover_data_NoParity(skip, blk) ==
    LET srcs == Slots \ {skip, P}
        bad  == {s \in srcs : ~Served(LeafAccess(disks[s], blk))}
    IN IF bad # {} THEN LeafAccess(disks[Min(bad)], blk)
       ELSE [fault |-> "none", code |-> SUCCESS,
             val |-> FoldFunctionOnSet(LAMBDA a, b : a ^^ b, 0,
                        [s \in srcs |-> data[disks[s]][blk]], srcs)]

\* recover_data: read block blk of every slot but `skip` in order, stop at
\* the first that does not answer SUCCESS, else XOR them together.
recover_data(skip, blk) ==
    LET srcs == Slots \ {skip}
        bad  == {s \in srcs : ~Served(LeafAccess(disks[s], blk))}
    IN IF bad # {} THEN LeafAccess(disks[Min(bad)], blk)
       ELSE [fault |-> "none", code |-> SUCCESS,
             val |-> FoldFunctionOnSet(LAMBDA a, b : a ^^ b, 0,
                        [s \in srcs |-> data[disks[s]][blk]], srcs)]

\* A leaf result extended with the last_failed it leaves and whether the
\* slot is closed and nulled.
Checked(a, lf, drop) ==
    [fault |-> a.fault, code |-> a.code, val |-> a.val, lf |-> lf, drop |-> drop]

\* A second distinct disk answering E_UNAVAIL is closed and nulled.
SecondFailure(lf, nth) == lf # DEFAULT /\ lf # nth

\* r4_read_check(x, nth, blk): an E_UNAVAIL marks nth degraded and
\* reconstructs the block, unless another disk is already degraded.
r4_read_check(x, nth, blk) ==
    LET a == LeafAccess(x, blk) IN
    IF a.fault # "none" \/ a.code # E_UNAVAIL THEN Checked(a, last_failed, FALSE)
    ELSE IF SecondFailure(last_failed, nth)
         THEN Checked([fault |-> "none", code |-> E_UNAVAIL, val |-> 0],
                      last_failed, TRUE)
    ELSE Checked(recover_data(nth, blk), nth, FALSE)

\* r4_write_check(x, nth, blk, ...) given the last_failed it starts from.
r4_write_check(x, nth, blk, lf) ==
    LET a == LeafAccess(x, blk) IN
    IF a.fault # "none" \/ a.code # E_UNAVAIL THEN Checked(a, lf, FALSE)
    ELSE IF SecondFailure(lf, nth)
         THEN Checked(a, lf, TRUE)
    ELSE Checked(a, nth, FALSE)

\* The state changes of a check on image x in slot nth.
ApplyCheck(r, x, nth) ==
    /\ last_failed' = r.lf
    /\ disks'  = IF r.drop THEN [disks EXCEPT ![nth] = NULL] ELSE disks
    /\ closes' = IF r.drop THEN [closes EXCEPT ![x] = @ + 1] ELSE closes

NoReq == [first |-> 0, num |-> 0, v |-> 0]

\* The call returns c; its locals are gone.
Return(c) ==
    /\ pc' = "idle" /\ ret' = c /\ req' = NoReq /\ i' = 0
    /\ d' = NULL /\ pd' = NULL /\ od' = 0 /\ op' = 0 /\ buf' = Store!NoRead
    /\ UNCHANGED fault

\* The process dies of fault f (a NULL or freed pointer dereferenced).
Die(f) == pc' = "dead" /\ fault' = f /\ UNCHANGED <<ret, req, i, d, pd, od, op, buf>>

\* The loop goes on with block i+1, or returns SUCCESS after the last.
Advance(next) ==
    IF i + 1 = req.first + req.num THEN Return(SUCCESS)
    ELSE pc' = next /\ i' = i + 1 /\ UNCHANGED <<ret, fault, req, d, pd, od, op>>

-----------------------------------------------------------------------------
\* raid4_read: start the loop over first..first+num-1.
raid4_read(first, num) ==
    /\ pc = "idle"
    /\ pc' = "read" /\ req' = [first |-> first, num |-> num, v |-> 0]
    /\ i' = first
    /\ UNCHANGED <<disks, data, failed, closes, last_failed, spares, ret, d, pd,
                   od, op, buf, fault, latest, lastRead>>

\* One pass of raid4_read's loop: r4_read_check on the block's data disk.
ReadBlock ==
    /\ pc = "read"
    /\ LET nth == DiskOf(i)
           x   == disks[nth]
           r   == r4_read_check(x, nth, BlkOf(i))
           got == buf @@ (i :> r.val)
       IN /\ ApplyCheck(r, x, nth)
          /\ CASE r.fault # "none" -> Die(r.fault) /\ UNCHANGED lastRead
               [] r.code # SUCCESS -> Return(r.code) /\ UNCHANGED lastRead
               [] i + 1 = req.first + req.num ->
                     Return(SUCCESS) /\ lastRead' = got
               [] OTHER -> /\ buf' = got /\ UNCHANGED lastRead
                           /\ Advance("read")
    /\ UNCHANGED <<data, failed, spares, latest>>

\* raid4_write: pd is read from the parity slot once, at entry.
raid4_write(first, num, v) ==
    /\ pc = "idle"
    /\ pc' = "wr_data" /\ req' = [first |-> first, num |-> num, v |-> v]
    /\ i' = first /\ pd' = disks[P]
    /\ UNCHANGED <<disks, data, failed, closes, last_failed, spares, ret, d,
                   od, op, buf, fault, latest, lastRead>>

\* Read the old data of block i (reconstructed if its disk has failed).
WriteReadData ==
    /\ pc = "wr_data"
    /\ LET nth == DiskOf(i)
           x   == disks[nth]
           r   == r4_read_check(x, nth, BlkOf(i))
       IN /\ ApplyCheck(r, x, nth)
          /\ CASE r.fault # "none" -> Die(r.fault)
               [] r.code # SUCCESS -> Return(r.code)
               [] OTHER -> /\ pc' = "wr_parity" /\ d' = x /\ od' = r.val
                           /\ UNCHANGED <<ret, fault, req, i, pd, op, buf>>
    /\ UNCHANGED <<data, failed, spares, latest, lastRead>>

\* Read the old parity through pd.
WriteReadParity ==
    /\ pc = "wr_parity"
    /\ LET r == r4_read_check(pd, P, BlkOf(i))
       IN /\ ApplyCheck(r, pd, P)
          /\ CASE r.fault # "none" -> Die(r.fault)
               [] r.code # SUCCESS -> Return(r.code)
               [] OTHER -> /\ pc' = "wr_commit" /\ op' = r.val
                           /\ UNCHANGED <<ret, fault, req, i, d, pd, od, buf>>
    /\ UNCHANGED <<data, failed, spares, latest, lastRead>>

\* Mutation: parity() adds the bytes instead of XORing them.
NewParity_Add(old, new, par) == old + new + par

\* Mutation: the old data is not XORed out of the parity.
NewParity_NoOldData(old, new, par) == new ^^ par

\* new_parity = old_data ^ new_data ^ old_parity, as the two parity() calls
\* compute it.
NewParity(old, new, par) == (old ^^ new) ^^ par

\* The writes of `done` (a sequence of [w, r]: what was written where and
\* the check's result) applied to block blk.
ApplyWrites(done, blk) ==
    LET wrote(x) == {k \in DOMAIN done : done[k].w.x = x /\ Served(done[k].r)}
        dropped  == {k \in DOMAIN done : done[k].r.drop}
    IN /\ data' = [x \in Images |->
                     IF wrote(x) = {} THEN data[x]
                     ELSE [data[x] EXCEPT
                             ![blk] = done[CHOOSE k \in wrote(x) : TRUE].w.val]]
       /\ disks' = [s \in Slots |->
                      IF \E k \in dropped : done[k].w.nth = s THEN NULL
                      ELSE disks[s]]
       /\ closes' = [x \in Images |->
                       closes[x] + Cardinality({k \in dropped : done[k].w.x = x})]
       /\ last_failed' = IF done = <<>> THEN last_failed
                         ELSE done[Len(done)].r.lf

(***************************************************************************)
(* val = r4_write_check(d, ...) & r4_write_check(pd, ...): C leaves the    *)
(* order of the two calls unspecified, and the second sees the            *)
(* last_failed the first left.  The block succeeds if the & is SUCCESS.    *)
(***************************************************************************)
WriteCommit ==
    /\ pc = "wr_commit"
    /\ \E dFirst \in BOOLEAN :
        LET blk  == BlkOf(i)
            dw   == [x |-> d, nth |-> DiskOf(i), val |-> req.v]
            pw   == [x |-> pd, nth |-> P, val |-> NewParity(od, req.v, op)]
            w1   == IF dFirst THEN dw ELSE pw
            w2   == IF dFirst THEN pw ELSE dw
            r1   == r4_write_check(w1.x, w1.nth, blk, last_failed)
            r2   == r4_write_check(w2.x, w2.nth, blk, r1.lf)
            done == IF r1.fault # "none" THEN <<>>
                    ELSE IF r2.fault # "none" THEN <<[w |-> w1, r |-> r1]>>
                    ELSE <<[w |-> w1, r |-> r1], [w |-> w2, r |-> r2]>>
            code == CAnd(r1.code, r2.code)
        IN /\ ApplyWrites(done, blk)
           /\ CASE r1.fault # "none" -> Die(r1.fault) /\ UNCHANGED latest
                [] r2.fault # "none" -> Die(r2.fault) /\ UNCHANGED latest
                [] code # SUCCESS -> Return(code) /\ UNCHANGED latest
                [] OTHER -> /\ latest' = [latest EXCEPT ![i] = req.v]
                            /\ UNCHANGED buf
                            /\ Advance("wr_data")
    /\ UNCHANGED <<failed, spares, lastRead>>

(***************************************************************************)
(* raid4_replace(i, newdisk): size check against disks[0], then for every  *)
(* block k < nblks/(ndisks-1) recover_data(k) around last_failed and write *)
(* it to newdisk; install newdisk and clear last_failed.  Nothing the loop *)
(* reads changes between its passes, so the first pass decides whether it *)
(* fails; a failed replace leaves newdisk half written, which no later     *)
(* step reads before writing it again.                                     *)
(***************************************************************************)
raid4_replace(slot, new) ==
    LET blkSize == NBlks \div (N - 1)
        rec     == [k \in 0..(blkSize - 1) |-> recover_data(last_failed, k)]
        wr      == LeafResult(new \in failed, 0, 1, DiskSize)
    IN /\ pc = "idle"
       /\ CASE disks[0] = NULL -> Die("null") /\ UNCHANGED <<data, disks, last_failed, spares>>
            [] new \in WrongSize ->
                  Return(E_SIZE) /\ UNCHANGED <<data, disks, last_failed, spares>>
            [] rec[0].fault # "none" ->
                  Die(rec[0].fault) /\ UNCHANGED <<data, disks, last_failed, spares>>
            [] rec[0].code # SUCCESS ->
                  Return(rec[0].code) /\ UNCHANGED <<data, disks, last_failed, spares>>
            [] wr # SUCCESS ->
                  Return(wr) /\ UNCHANGED <<data, disks, last_failed, spares>>
            [] OTHER ->
                  /\ data' = [data EXCEPT ![new] =
                                [b \in DiskBlocks |->
                                   IF b < blkSize THEN rec[b].val ELSE @[b]]]
                  /\ disks' = [disks EXCEPT ![slot] = new]
                  /\ last_failed' = DEFAULT
                  /\ spares' = spares \ {new}
                  /\ Return(SUCCESS)
       /\ UNCHANGED <<failed, closes, latest, lastRead>>

\* raid4_close: close every non-NULL slot.
raid4_close ==
    /\ pc = "idle"
    /\ closes' = [x \in Images |->
                    IF \E s \in Slots : disks[s] = x THEN closes[x] + 1
                    ELSE closes[x]]
    /\ disks' = [s \in Slots |-> NULL]
    /\ pc' = "closed"
    /\ UNCHANGED <<data, failed, last_failed, spares, ret, req, i, d, pd, od, op,
                   buf, fault, latest, lastRead>>

-----------------------------------------------------------------------------
\* Slots the volume cannot read directly.
Down(dsk, fl) == {s \in Slots : dsk[s] = NULL \/ dsk[s] \in fl}

\* image_fail(x): the test harness fails an image, between any two steps.
image_fail(x) ==
    /\ pc \notin {"closed", "dead"}
    /\ x \notin failed /\ Cardinality(failed) < MaxFail
    /\ Cardinality(Down(disks, failed \cup {x})) <= MaxDown
    /\ failed' = failed \cup {x}
    /\ UNCHANGED <<disks, data, closes, last_failed, spares, ret, pc, req, i, d,
                   pd, od, op, buf, fault, latest, lastRead>>

\* The caller replaces a slot that is down with a spare (test_raid4_3).
Replace ==
    \E s \in Slots, new \in spares :
        /\ s \in Down(disks, failed)
        /\ raid4_replace(s, new)

\* raid4_create over N fresh images with correct (all-zero) parity.
Init ==
    /\ disks = [s \in Slots |-> s]
    /\ data = [x \in Images |-> [b \in DiskBlocks |-> 0]]
    /\ failed = {} /\ closes = [x \in Images |-> 0]
    /\ last_failed = DEFAULT /\ spares = Spares
    /\ ret = SUCCESS /\ pc = "idle" /\ req = NoReq /\ i = 0
    /\ d = NULL /\ pd = NULL /\ od = 0 /\ op = 0 /\ buf = Store!NoRead
    /\ fault = "none"
    /\ latest = [b \in 0..(NBlks - 1) |-> 0]
    /\ lastRead = Store!NoRead

Next ==
    \/ \E r \in Requests : raid4_read(r[1], r[2])
    \/ \E r \in Requests, v \in Vals : raid4_write(r[1], r[2], v)
    \/ ReadBlock \/ WriteReadData \/ WriteReadParity \/ WriteCommit
    \/ Replace
    \/ raid4_close
    \/ \E x \in Images : image_fail(x)
    \/ pc \in {"closed", "dead"} /\ UNCHANGED vars

Spec == Init /\ [][Next]_vars

-----------------------------------------------------------------------------
(* Properties *)

TypeOK ==
    /\ disks \in [Slots -> Images \cup {NULL}]
    /\ data \in [Images -> [DiskBlocks -> Word]]
    /\ failed \subseteq Images /\ closes \in [Images -> Nat]
    /\ last_failed \in Slots \cup {DEFAULT} /\ spares \subseteq Spares
    /\ ret \in {SUCCESS, E_BADADDR, E_UNAVAIL, E_SIZE}
    /\ pc \in {"idle", "read", "wr_data", "wr_parity", "wr_commit", "closed", "dead"}
    /\ fault \in {"none", "null", "closed"}
    /\ latest \in [0..(NBlks - 1) -> Vals \cup {0}]

\* XOR of disk block b across all slots.
StripeXor(b) ==
    FoldFunctionOnSet(LAMBDA a, c : a ^^ c, 0,
                      [s \in Slots |-> data[disks[s]][b]], Slots)

(***************************************************************************)
(* Parity law (spec section 8): between calls, when every slot holds a     *)
(* healthy image, each stripe XORs to zero.  It has to survive the         *)
(* read-modify-write of raid4_write with either disk failing between its   *)
(* steps, degraded writes that skip one side, and the reconstruction of    *)
(* raid4_replace.                                                          *)
(***************************************************************************)
ParityLaw ==
    pc = "idle" /\ Down(disks, failed) = {} =>
        \A b \in DiskBlocks : StripeXor(b) = 0

(***************************************************************************)
(* While at most one slot is down, the volume behaves as one disk: every   *)
(* successful read, direct or reconstructed by recover_data, returns what  *)
(* the writes stored.                                                      *)
(***************************************************************************)
Raid4ImplementsBlockStore == Store!Spec

(***************************************************************************)
(* Spec section 9 reads raid4_write's `val = write(d) & write(pd)` as      *)
(* reporting success only when both writes succeed: a block the write      *)
(* completes successfully has its new data on d and its new parity on pd.  *)
(***************************************************************************)
BlockSuccessMeansBothWritten ==
    [][pc = "wr_commit" /\ (pc' = "wr_data" \/ (pc' = "idle" /\ ret' = SUCCESS))
         => /\ data'[d][BlkOf(i)] = req.v
            /\ data'[pd][BlkOf(i)] = NewParity(od, req.v, op)]_vars

(***************************************************************************)
(* After a second failure has nulled a slot, no call dereferences that     *)
(* NULL slot (spec 4.2.3: the volume is terminal and calls fail).          *)
(***************************************************************************)
NoNullDeref == fault # "null"

(***************************************************************************)
(* No leaf call goes to an image the volume has already closed: the parity *)
(* pointer raid4_write keeps from its entry must not outlive the close of  *)
(* the parity disk by a later block of the same write.                     *)
(***************************************************************************)
NoUseAfterClose == fault # "closed"

(***************************************************************************)
(* The comment of raid4_read: a drive that fails while the others work is  *)
(* closed and the volume continues degraded; so the slot last_failed names *)
(* no longer holds an open image.                                          *)
(***************************************************************************)
DegradedDiskClosed ==
    last_failed # DEFAULT => disks[last_failed] = NULL

====
