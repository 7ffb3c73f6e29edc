-------------------------------- MODULE Raid0 --------------------------------
(***************************************************************************)
(* The striped volume (RAID-0) of src/hw3/homework.c: raid0_read,          *)
(* raid0_write and raid0_close over N child images, any of which may fail  *)
(* (image_fail) at any moment.  A request is one action; it walks its      *)
(* blocks in order, one leaf call per block, and stops at the first error. *)
(* Which leaf call first meets a newly failed image is chosen by the       *)
(* action.  `latest` and `lastRead` are history variables as in Mirror.    *)
(***************************************************************************)
EXTENDS BlkDev, FiniteSets

CONSTANTS
    N,         \* number of disks
    Unit,      \* stripe unit in blocks
    DiskSize,  \* num_blocks of every child image
    Vals, Zero, NULL,
    MaxFail,   \* images image_fail may fail in a run
    MaxNum     \* largest num_blks of a request

ASSUME N \in Nat \ {0} /\ Unit \in Nat \ {0} /\ DiskSize \in Nat

Slots == 0..(N - 1)
DiskBlocks == 0..(DiskSize - 1)

\* r0_dev->nblks as raid0_create computes it.
NBlks == (DiskSize \div Unit) * Unit * N

(***************************************************************************)
(* Where logical block i lives: nth_disk = i / unit % ndisks and           *)
(* blk_num_in_disk = (i / unit / ndisks) * unit + i % unit.                *)
(***************************************************************************)
\* Mutation: the disk is chosen per block instead of per stripe unit.
DiskOf_PerBlock(i) == i % N
DiskOf(i) == (i \div Unit) % N
\* Mutation: the stripe number is not scaled by the unit.
BlkOf_NoUnit(i) == (i \div Unit) \div N + (i % Unit)
BlkOf(i) == ((i \div Unit) \div N) * Unit + (i % Unit)

VARIABLES
    disks,     \* r0_dev->disks[]: the image in each slot, or NULL
    data,      \* contents of each image
    failed,    \* images failed by image_fail
    closes,    \* close() calls each image has received
    ret,       \* return value of the last call
    phase,     \* "open" until raid0_close
    latest,    \* history: contents left by the blocks writes stored
    lastRead,  \* history: blocks and contents of the last successful read
    touched    \* history: the disks the blocks of the last request map to

vars == <<disks, data, failed, closes, ret, phase, latest, lastRead, touched>>

Store == INSTANCE BlockStore WITH store <- latest

Requests == (0..(NBlks - 1)) \X (1..MaxNum)

-----------------------------------------------------------------------------
(***************************************************************************)
(* The walk of blocks first..first+num-1 common to raid0_read and          *)
(* raid0_write: block first+j is served unless its slot is NULL, its image *)
(* has failed or the address is beyond the image.  `stop` is the index of  *)
(* the first block not served (num if all are), after the action has let  *)
(* the image of block first+k fail just before its leaf call, for some     *)
(* k < the first naturally bad block, or let no image fail (k = that       *)
(* block).                                                                 *)
(***************************************************************************)
Slot(i) == disks[DiskOf(i)]

Bad(i) == Slot(i) = NULL \/
          LeafResult(Slot(i) \in failed, BlkOf(i), 1, DiskSize) # SUCCESS

FirstBad(first, num) ==
    LET bad == {j \in 0..(num - 1) : Bad(first + j)}
    IN IF bad = {} THEN num ELSE CHOOSE j \in bad : \A j2 \in bad : j <= j2

\* The outcome of the walk: <<stop, code, image to close or NULL>>.
Outcome(first, stop, newFail) ==
    LET i == first + stop IN
    IF newFail THEN <<stop, E_UNAVAIL, Slot(i)>>
    ELSE IF Slot(i) = NULL THEN <<stop, E_UNAVAIL, NULL>>
    ELSE LET r == LeafResult(Slot(i) \in failed, BlkOf(i), 1, DiskSize)
         IN <<stop, r, IF r = E_UNAVAIL THEN Slot(i) ELSE NULL>>

\* Mutation: the image is closed but its slot keeps the pointer.
CloseFailed_NoNull(d) ==
    /\ UNCHANGED disks
    /\ closes' = IF d # NULL THEN [closes EXCEPT ![d] = @ + 1] ELSE closes

\* Close the image that answered E_UNAVAIL and null its slot.
CloseFailed(d) ==
    /\ disks' = [s \in Slots |-> IF d # NULL /\ disks[s] = d THEN NULL
                                 ELSE disks[s]]
    /\ closes' = IF d # NULL THEN [closes EXCEPT ![d] = @ + 1] ELSE closes

\* The points k at which the walk may stop: the first naturally bad block,
\* or an earlier block whose image fails just before its leaf call.
Walks(first, num) ==
    LET ns == FirstBad(first, num) IN
    {k \in 0..ns : k < ns =>
                      Cardinality(failed \cup {Slot(first + k)}) <= MaxFail}

\* <<stop, code, image to close or NULL>> of the walk stopping at k.
WalkOut(first, num, k) ==
    IF k = num THEN <<num, SUCCESS, NULL>>
    ELSE Outcome(first, k, k < FirstBad(first, num))

\* Mutation: success returns the number of blocks moved, as read(2) does.
WalkEffect_ReturnsCount(first, num, k) ==
    LET out == WalkOut(first, num, k) IN
    /\ failed' = IF k < FirstBad(first, num) THEN failed \cup {Slot(first + k)}
                 ELSE failed
    /\ CloseFailed(out[3])
    /\ ret' = IF out[2] = SUCCESS THEN num ELSE out[2]

\* Mutation: the loop has no early return, so only an error of the
\* request's last block reaches the caller.
WalkEffect_NoEarlyReturn(first, num, k) ==
    LET out == WalkOut(first, num, k) IN
    /\ failed' = IF k < FirstBad(first, num) THEN failed \cup {Slot(first + k)}
                 ELSE failed
    /\ CloseFailed(out[3])
    /\ ret' = IF out[1] = num - 1 THEN out[2] ELSE SUCCESS

\* The effect of the walk common to both calls: the image met failing is
\* failed, an image answering E_UNAVAIL is closed, the code is returned.
WalkEffect(first, num, k) ==
    LET out == WalkOut(first, num, k) IN
    /\ failed' = IF k < FirstBad(first, num) THEN failed \cup {Slot(first + k)}
                 ELSE failed
    /\ CloseFailed(out[3])
    /\ ret' = out[2]

\* raid0_read: blocks served before an error are in buf but the call fails.
raid0_read(first, num) ==
    /\ \E k \in Walks(first, num) :
          /\ WalkEffect(first, num, k)
          /\ lastRead' = IF WalkOut(first, num, k)[2] = SUCCESS
                          THEN [b \in ReqBlocks(first, num) |->
                                  data[Slot(b)][BlkOf(b)]]
                          ELSE lastRead
    /\ UNCHANGED <<data, latest, phase>>

\* Contents of the images after blocks first..first+stop-1 were written v.
Written(first, stop, v) ==
    [d \in DOMAIN data |->
        [b \in DiskBlocks |->
            IF \E j \in 0..(stop - 1) : /\ Slot(first + j) = d
                                        /\ BlkOf(first + j) = b
              THEN v ELSE data[d][b]]]

\* raid0_write: the blocks written before an error stay written.
raid0_write(first, num, v) ==
    /\ \E k \in Walks(first, num) :
          LET stop == WalkOut(first, num, k)[1] IN
          /\ WalkEffect(first, num, k)
          /\ data' = Written(first, stop, v)
          /\ latest' = [b \in DOMAIN latest |->
                          IF first <= b /\ b < first + stop THEN v
                          ELSE latest[b]]
    /\ UNCHANGED <<lastRead, phase>>

\* raid0_close: close every non-NULL slot.
raid0_close ==
    /\ disks' = [s \in Slots |-> NULL]
    /\ closes' = [d \in DOMAIN closes |->
                    IF \E s \in Slots : disks[s] = d THEN closes[d] + 1
                    ELSE closes[d]]
    /\ phase' = "closed"
    /\ UNCHANGED <<data, failed, ret, latest, lastRead>>

-----------------------------------------------------------------------------
\* raid0_create over N fresh images of equal size: image s sits in slot s.
Init ==
    /\ disks = [s \in Slots |-> s]
    /\ data = [d \in Slots |-> [b \in DiskBlocks |-> Zero]]
    /\ failed = {} /\ closes = [d \in Slots |-> 0]
    /\ ret = SUCCESS /\ phase = "open"
    /\ latest = [b \in 0..(NBlks - 1) |-> Zero]
    /\ lastRead = Store!NoRead
    /\ touched = {}

\* The disks that blocks first..first+num-1 map to.
DisksOf(first, num) == {DiskOf(b) : b \in ReqBlocks(first, num)}

Next ==
    \/ phase = "open" /\ \E r \in Requests :
          raid0_read(r[1], r[2]) /\ touched' = DisksOf(r[1], r[2])
    \/ phase = "open" /\ \E r \in Requests, v \in Vals :
          raid0_write(r[1], r[2], v) /\ touched' = DisksOf(r[1], r[2])
    \/ phase = "open" /\ raid0_close /\ touched' = {}
    \/ phase = "closed" /\ UNCHANGED vars

Spec == Init /\ [][Next]_vars

-----------------------------------------------------------------------------
(* Properties *)

TypeOK ==
    /\ disks \in [Slots -> Slots \cup {NULL}]
    /\ data \in [Slots -> [DiskBlocks -> Vals \cup {Zero}]]
    /\ failed \subseteq Slots /\ closes \in [Slots -> Nat]
    /\ ret \in {SUCCESS, E_BADADDR, E_UNAVAIL}
    /\ phase \in {"open", "closed"}
    /\ latest \in [0..(NBlks - 1) -> Vals \cup {Zero}]
    /\ touched \subseteq Slots

\* Reference placement: stripe unit u of the volume is unit u \div N of
\* disk u % N, and logical block i is block i % Unit of unit i \div Unit.
LogicalOf(d, b) == ((b \div Unit) * N + d) * Unit + (b % Unit)

(***************************************************************************)
(* The address arithmetic of raid0_read/raid0_write puts the volume on the *)
(* disks at the reference placement: every disk block that stands for a    *)
(* logical block holds what the writes left in that block, so no two       *)
(* logical blocks share a disk block and none is lost outside the disk.    *)
(***************************************************************************)
StripePlacement ==
    \A d \in Slots, b \in DiskBlocks :
        LogicalOf(d, b) < NBlks => data[d][b] = latest[LogicalOf(d, b)]

(***************************************************************************)
(* The striped volume behaves as one disk until a child fails: a           *)
(* successful read returns what the writes stored, a failed write leaves a *)
(* prefix of its blocks written, across image failures at any block.       *)
(***************************************************************************)
Raid0ImplementsBlockStore == Store!Spec

(***************************************************************************)
(* No image is closed twice and no slot keeps a closed image, through      *)
(* failures met by reads and writes and the final raid0_close.             *)
(***************************************************************************)
ChildrenClosedOnce ==
    /\ \A d \in Slots : closes[d] <= 1
    /\ \A s \in Slots : disks[s] # NULL => closes[disks[s]] = 0

(***************************************************************************)
(* A failed disk makes the volume fail for good (spec section 8, "Stripe0 *)
(* terminal", and what src/hw3/raid0-test.c asserts after image_fail):    *)
(* every later raid0_read or raid0_write whose blocks reach a disk that   *)
(* has failed returns E_UNAVAIL, whether the disk was closed and nulled   *)
(* by an earlier call or is met failing now, and whichever block of the   *)
(* request reaches it.                                                     *)
(***************************************************************************)
FailedDiskTerminal == [][touched' \cap failed # {} => ret' = E_UNAVAIL]_vars

(***************************************************************************)
(* What the comments of raid0_read and raid0_write (homework.c:222-227 and *)
(* 265-268) promise: once a failed device has been closed, "this and all   *)
(* subsequent read or write operations" return an error, whatever blocks   *)
(* they reach.  No later call returns SUCCESS once a slot is NULL.         *)
(***************************************************************************)
AllLaterCallsFail ==
    [][(\E s \in Slots : disks[s] = NULL) => ret' # SUCCESS \/ UNCHANGED ret]_vars

=============================================================================
