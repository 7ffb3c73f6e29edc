-------------------------------- MODULE Mirror --------------------------------
(***************************************************************************)
(* The mirrored volume (RAID-1) of src/hw3/homework.c: mirror_read,        *)
(* mirror_write, mirror_replace and mirror_close over two child image      *)
(* devices, each of which may fail (image_fail) at any moment.             *)
(*                                                                         *)
(* Each call is one action.  A child fails at some point of a call, so a   *)
(* call chooses the children that fail during it; what matters is which of *)
(* its accesses find the child failed.  Block contents are one value per   *)
(* write request.  `latest` and `lastRead` are history variables: the data *)
(* the writes that returned SUCCESS left in each block, and what the last  *)
(* successful read returned.                                               *)
(***************************************************************************)
EXTENDS BlkDev, FiniteSets

CONSTANTS
    NBlks,      \* blocks per disk (nblks of the mirror)
    Vals,       \* contents a write request carries
    Zero,       \* contents of a fresh image
    Disk0,      \* disks[0] given to mirror_create
    Disk1,      \* disks[1] given to mirror_create
    Spares,     \* new disks the caller may pass to mirror_replace
    WrongSize,  \* spares whose num_blocks differs from nblks
    NULL,
    MaxFail,    \* images that image_fail may fail in a run
    MaxNum      \* largest num_blks of a request

DiskIds == {Disk0, Disk1} \cup Spares
Sides == {0, 1}
Blocks == 0..(NBlks - 1)

ASSUME /\ Disk0 # Disk1 /\ {Disk0, Disk1} \cap Spares = {}
       /\ WrongSize \subseteq Spares /\ NULL \notin DiskIds
       /\ Zero \notin Vals

VARIABLES
    disks,     \* mdev->disks[2]
    data,      \* contents of each image
    failed,    \* images failed by image_fail
    closes,    \* close() calls each image has received
    spares,    \* spares the caller still holds
    reported,  \* images that have answered E_UNAVAIL to the mirror
    ret,       \* return value of the last call
    phase,     \* "open" until mirror_close
    crashed,   \* a NULL child pointer was dereferenced
    latest,    \* history: contents the successful writes left
    lastRead,  \* history: blocks and contents of the last successful read
    call       \* history: the mirror operation the last step called, and
               \* its <<first_blk, num_blks>>

vars == <<disks, data, failed, closes, spares, reported, ret, phase, crashed,
          latest, lastRead, call>>

Store == INSTANCE BlockStore WITH store <- latest

-----------------------------------------------------------------------------
\* The images that fail during a call that touches `touched`.
NewFailures(touched) ==
    {nf \in SUBSET (touched \ failed) :
        Cardinality(failed \cup nf) <= MaxFail}

\* Mutation: the image is closed but its slot keeps the pointer.
Drop_NoNull(drop) ==
    /\ UNCHANGED disks
    /\ closes' = [d \in DiskIds |->
                    IF \E s \in drop : disks[s] = d THEN closes[d] + 1
                    ELSE closes[d]]

\* The slots in `drop` are dropped: close() the image and set the slot to NULL.
Drop(drop) ==
    /\ disks' = [s \in Sides |-> IF s \in drop THEN NULL ELSE disks[s]]
    /\ closes' = [d \in DiskIds |->
                    IF \E s \in drop : disks[s] = d THEN closes[d] + 1
                    ELSE closes[d]]

Attached == {disks[s] : s \in Sides} \ {NULL}

Usable == phase = "open" /\ ~crashed

Requests == {<<f, n>> \in Blocks \X (1..MaxNum) : TRUE}
NoReq == <<0, 0>>

\* Mutation: side 1 is read only when side 0's slot is NULL, so a failed
\* side 0 ends the read with its E_UNAVAIL.
mirror_read_NoFallback(first, num) ==
    \E nf \in NewFailures(Attached) :
      LET F    == failed \cup nf
          s0   == disks[0]
          s1   == disks[1]
          r0   == LeafResult(s0 \in F, first, num, NBlks)
          r1   == LeafResult(s1 \in F, first, num, NBlks)
          ok0  == s0 # NULL /\ r0 = SUCCESS
          try1 == s0 = NULL /\ s1 # NULL
          val  == IF ok0 THEN SUCCESS ELSE IF try1 THEN r1
                  ELSE IF s0 # NULL THEN r0 ELSE E_UNAVAIL
          src  == IF ok0 THEN s0 ELSE s1
          drop == {s \in Sides : /\ disks[s] # NULL
                                 /\ s = 1 => try1
                                 /\ (IF s = 0 THEN r0 ELSE r1) = E_UNAVAIL}
      IN /\ failed' = F
         /\ Drop(drop)
         /\ reported' = reported \cup {disks[s] : s \in drop}
         /\ ret' = val
         /\ lastRead' = IF val = SUCCESS
                          THEN [b \in ReqBlocks(first, num) |-> data[src][b]]
                          ELSE lastRead
         /\ UNCHANGED <<data, spares, phase, crashed, latest>>

(***************************************************************************)
(* mirror_read: read side 0; on E_UNAVAIL close it and null its slot; on   *)
(* SUCCESS return.  Otherwise read side 1 (the pointer taken on entry),    *)
(* close it on E_UNAVAIL, and return its result.                           *)
(***************************************************************************)
mirror_read(first, num) ==
    \E nf \in NewFailures(Attached) :
      LET F    == failed \cup nf
          s0   == disks[0]
          s1   == disks[1]
          r0   == LeafResult(s0 \in F, first, num, NBlks)
          r1   == LeafResult(s1 \in F, first, num, NBlks)
          ok0  == s0 # NULL /\ r0 = SUCCESS
          try1 == ~ok0 /\ s1 # NULL
          val  == IF ok0 THEN SUCCESS ELSE IF try1 THEN r1
                  ELSE IF s0 # NULL THEN r0 ELSE E_UNAVAIL
          src  == IF ok0 THEN s0 ELSE s1
          drop == {s \in Sides : /\ disks[s] # NULL
                                 /\ s = 1 => try1
                                 /\ (IF s = 0 THEN r0 ELSE r1) = E_UNAVAIL}
      IN /\ failed' = F
         /\ Drop(drop)
         /\ reported' = reported \cup {disks[s] : s \in drop}
         /\ ret' = val
         /\ lastRead' = IF val = SUCCESS
                          THEN [b \in ReqBlocks(first, num) |-> data[src][b]]
                          ELSE lastRead
         /\ UNCHANGED <<data, spares, phase, crashed, latest>>

\* Mutation: like mirror_read, return as soon as side 0 has succeeded.
mirror_write_StopOnSuccess(first, num, v) ==
    \E nf \in NewFailures(Attached) :
      LET F    == failed \cup nf
          w(s) == LeafResult(disks[s] \in F, first, num, NBlks)
          val0 == IF disks[0] # NULL THEN CAnd(E_UNAVAIL, w(0)) ELSE E_UNAVAIL
          on1  == disks[1] # NULL /\ val0 # SUCCESS
          val1 == IF on1 THEN CAnd(val0, w(1)) ELSE val0
          drop == {s \in Sides : disks[s] # NULL /\ (s = 1 => on1) /\
                                 (IF s = 0 THEN val0 ELSE val1) = E_UNAVAIL}
          wrote == {disks[s] : s \in {s \in Sides : disks[s] # NULL /\ (s = 1 => on1) /\
                                                        w(s) = SUCCESS}}
          Put(f) == [b \in Blocks |-> IF b \in ReqBlocks(first, num) THEN v
                                      ELSE f[b]]
      IN /\ failed' = F
         /\ data' = [d \in DiskIds |-> IF d \in wrote THEN Put(data[d])
                                       ELSE data[d]]
         /\ latest' = IF wrote # {} THEN Put(latest) ELSE latest
         /\ Drop(drop)
         /\ reported' = reported \cup
                          {disks[s] : s \in {s \in Sides : disks[s] # NULL /\
                                                           w(s) = E_UNAVAIL}}
         /\ ret' = val1
         /\ UNCHANGED <<spares, phase, crashed, lastRead>>

(***************************************************************************)
(* mirror_write: val = E_UNAVAIL; for each non-NULL side in turn           *)
(* val &= write(side); if val == E_UNAVAIL close the side and null it.     *)
(***************************************************************************)
mirror_write(first, num, v) ==
    \E nf \in NewFailures(Attached) :
      LET F    == failed \cup nf
          w(s) == LeafResult(disks[s] \in F, first, num, NBlks)
          val0 == IF disks[0] # NULL THEN CAnd(E_UNAVAIL, w(0)) ELSE E_UNAVAIL
          val1 == IF disks[1] # NULL THEN CAnd(val0, w(1)) ELSE val0
          drop == {s \in Sides : disks[s] # NULL /\
                                 (IF s = 0 THEN val0 ELSE val1) = E_UNAVAIL}
          wrote == {disks[s] : s \in {s \in Sides : disks[s] # NULL /\ w(s) = SUCCESS}}
          Put(f) == [b \in Blocks |-> IF b \in ReqBlocks(first, num) THEN v
                                      ELSE f[b]]
      IN /\ failed' = F
         /\ data' = [d \in DiskIds |-> IF d \in wrote THEN Put(data[d])
                                       ELSE data[d]]
         /\ latest' = IF wrote # {} THEN Put(latest) ELSE latest
         /\ Drop(drop)
         /\ reported' = reported \cup
                          {disks[s] : s \in {s \in Sides : disks[s] # NULL /\
                                                           w(s) = E_UNAVAIL}}
         /\ ret' = val1
         /\ UNCHANGED <<spares, phase, crashed, lastRead>>

\* Mutation: the side to copy from is the one being replaced.
ReplaceSide_Same(i) == i

\* side = 1 - i: the side mirror_replace copies from.
ReplaceSide(i) == 1 - i

\* The contents of dst after the copy loop of mirror_replace ran `stop`
\* iterations, each reading block k of src and writing it to dst.
\* Mutation: the loop stops one block short.
CopyBlocks_SkipLast(src, dst, stop) ==
    [b \in Blocks |-> IF b < stop - 1 THEN data[src][b] ELSE data[dst][b]]

CopyBlocks(src, dst, stop) ==
    [b \in Blocks |-> IF b < stop THEN data[src][b] ELSE data[dst][b]]

(***************************************************************************)
(* mirror_replace(i, newdisk): E_SIZE if the sizes differ; otherwise copy  *)
(* block by block from disks[1-i] to newdisk.  A failed read returns its   *)
(* error; a write answering E_UNAVAIL closes newdisk; either ends the      *)
(* copy.  On success newdisk is installed in slot i.  The image failures   *)
(* of the call are the loop iterations kr (reading side) and kw (newdisk)  *)
(* at which they happen; NBlks stands for never.                           *)
(***************************************************************************)
mirror_replace(i, new) ==
    LET side == disks[ReplaceSide(i)] IN
    IF new \in WrongSize
      THEN /\ ret' = E_SIZE
           /\ UNCHANGED <<disks, data, failed, closes, spares, reported,
                          phase, crashed, latest, lastRead>>
    ELSE IF side = NULL
      THEN /\ crashed' = TRUE
           /\ UNCHANGED <<disks, data, failed, closes, spares, reported, ret,
                          phase, latest, lastRead>>
    ELSE
      \E fr \in 0..NBlks, kw \in 0..NBlks :
        LET kr     == IF side \in failed THEN 0 ELSE fr
            readFails == kr < NBlks /\ kr <= kw
            stop   == IF readFails THEN kr ELSE kw
            nf     == (IF readFails /\ side \notin failed THEN {side} ELSE {})
                      \cup (IF ~readFails /\ kw < NBlks THEN {new} ELSE {})
        IN /\ side \in failed => fr = 0
           /\ Cardinality(failed \cup nf) <= MaxFail
           /\ failed' = failed \cup nf
           /\ data' = [data EXCEPT ![new] = CopyBlocks(side, new, stop)]
           /\ IF readFails
                THEN /\ ret' = E_UNAVAIL
                     /\ reported' = reported \cup {side}
                     /\ UNCHANGED <<disks, closes, spares>>
              ELSE IF kw < NBlks
                THEN /\ ret' = E_UNAVAIL
                     /\ closes' = [closes EXCEPT ![new] = @ + 1]
                     /\ spares' = spares \ {new}
                     /\ UNCHANGED <<disks, reported>>
              ELSE /\ ret' = SUCCESS
                   /\ disks' = [disks EXCEPT ![i] = new]
                   /\ spares' = spares \ {new}
                   /\ UNCHANGED <<closes, reported>>
           /\ UNCHANGED <<phase, crashed, latest, lastRead>>

\* mirror_close: close every non-NULL side.
mirror_close ==
    /\ Drop({s \in Sides : disks[s] # NULL})
    /\ phase' = "closed"
    /\ UNCHANGED <<data, failed, spares, reported, ret, crashed, latest,
                   lastRead>>

-----------------------------------------------------------------------------
Init ==
    /\ disks = [s \in Sides |-> IF s = 0 THEN Disk0 ELSE Disk1]
    /\ data = [d \in DiskIds |-> [b \in Blocks |-> Zero]]
    /\ failed = {} /\ closes = [d \in DiskIds |-> 0]
    /\ spares = Spares /\ reported = {}
    /\ ret = SUCCESS /\ phase = "open" /\ crashed = FALSE
    /\ latest = [b \in Blocks |-> Zero]
    /\ lastRead = Store!NoRead
    /\ call = [op |-> "none", req |-> NoReq]

\* The caller replaces a side it knows has failed.
Replace ==
    \E i \in Sides, new \in spares :
        /\ disks[i] = NULL \/ disks[i] \in failed
        /\ mirror_replace(i, new)
        /\ call' = [op |-> "replace", req |-> NoReq]

Next ==
    \/ Usable /\ \E r \in Requests :
          mirror_read(r[1], r[2]) /\ call' = [op |-> "read", req |-> r]
    \/ Usable /\ \E r \in Requests, v \in Vals :
          mirror_write(r[1], r[2], v) /\ call' = [op |-> "write", req |-> r]
    \/ Usable /\ Replace
    \/ Usable /\ mirror_close /\ call' = [op |-> "close", req |-> NoReq]
    \/ ~Usable /\ UNCHANGED vars

Spec == Init /\ [][Next]_vars

-----------------------------------------------------------------------------
(* Properties *)

TypeOK ==
    /\ disks \in [Sides -> DiskIds \cup {NULL}]
    /\ data \in [DiskIds -> [Blocks -> Vals \cup {Zero}]]
    /\ failed \subseteq DiskIds /\ closes \in [DiskIds -> Nat]
    /\ spares \subseteq Spares /\ reported \subseteq DiskIds
    /\ ret \in {SUCCESS, E_BADADDR, E_UNAVAIL, E_SIZE}
    /\ phase \in {"open", "closed"} /\ crashed \in BOOLEAN
    /\ latest \in [Blocks -> Vals \cup {Zero}]
    /\ call \in [op : {"none", "read", "write", "replace", "close"},
                 req : Requests \cup {NoReq}]

(***************************************************************************)
(* The mirror behaves as one disk (spec section 7): a successful read      *)
(* returns what the successful writes left in each block, through any      *)
(* sequence of image failures, degraded reads and writes, and replacements *)
(* of a failed side, whichever side mirror_read ends up reading.           *)
(***************************************************************************)
MirrorImplementsBlockStore == Store!Spec

(***************************************************************************)
(* Every attached side that has not failed holds exactly the mirror's      *)
(* contents: mirror_write reaches every live side and mirror_replace       *)
(* copies every block before installing the new disk.                      *)
(***************************************************************************)
HealthySidesAgree ==
    \A s \in Sides :
        disks[s] \notin {NULL} \cup failed => data[disks[s]] = latest

(***************************************************************************)
(* No image is closed twice (image_close frees it) and no slot keeps a     *)
(* closed image: reads, writes, replace and close only reach open images.  *)
(***************************************************************************)
ChildrenClosedOnce ==
    /\ \A d \in DiskIds : closes[d] <= 1
    /\ \A d \in Attached : closes[d] = 0

(***************************************************************************)
(* Errors other than E_UNAVAIL leave the mirror unchanged (spec 4.2.4): an *)
(* image is only closed while the mirror is open when it has failed.       *)
(***************************************************************************)
HealthyNeverClosed ==
    phase = "open" => \A d \in DiskIds : closes[d] > 0 => d \in failed

(***************************************************************************)
(* A side that answered E_UNAVAIL is closed and its slot nulled (spec      *)
(* 4.2.1 and 4.2.4), so no slot holds an image known to have failed.       *)
(***************************************************************************)
FailedChildDetached == \A d \in Attached : d \notin reported

(***************************************************************************)
(* A degraded mirror keeps serving, as src/hw3/mirror-test.c asserts after *)
(* image_fail (spec section 8, "Mirror degraded"): an in-range           *)
(* mirror_read or mirror_write succeeds unless, at the end of the call, no *)
(* side is left that is attached and has not failed.  mirror_read must    *)
(* fall over to side 1 when side 0 fails during the call, and             *)
(* mirror_write's val &= must turn a failed side's E_UNAVAIL into the     *)
(* other side's SUCCESS.                                                   *)
(***************************************************************************)
DegradedServes ==
    [][/\ call'.op \in {"read", "write"}
       /\ call'.req[1] + call'.req[2] <= NBlks
       /\ \E s \in Sides : disks'[s] \notin {NULL} \cup failed'
       => ret' = SUCCESS]_vars

\* mirror_replace never dereferences a NULL side.
NoCrash == ~crashed

=============================================================================
