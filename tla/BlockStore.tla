------------------------------ MODULE BlockStore ------------------------------
(***************************************************************************)
(* What a RAID volume of src/hw3/homework.c promises its caller (spec      *)
(* section 7, "RAID - data integrity"): an array of NBlks blocks.  A write *)
(* that succeeds stores its data in every block it names; a write that     *)
(* fails may have stored it in a prefix of them (the devices write block   *)
(* by block and stop at the first error).  A read that succeeds returns    *)
(* the data of the last write to each block; any read or write may fail.   *)
(* Block contents are abstracted to one value per request.                 *)
(***************************************************************************)
EXTENDS Naturals

CONSTANTS NBlks, Vals, Zero

VARIABLES
    store,     \* block -> its contents
    lastRead   \* the blocks and contents the last successful read returned

vars == <<store, lastRead>>

NoRead == [b \in {} |-> Zero]

Init ==
    /\ store = [b \in 0..(NBlks - 1) |-> Zero]
    /\ lastRead = NoRead

\* write(first, num, v): blocks first..first+k-1 take v, for k = num when
\* the write succeeds and some k <= num when it fails.
Write(first, num, v) ==
    /\ \E k \in 0..num :
          store' = [b \in DOMAIN store |->
                      IF first <= b /\ b < first + k THEN v ELSE store[b]]
    /\ UNCHANGED lastRead

\* read(first, num) that succeeds returns the stored blocks.
Read(first, num) ==
    /\ first + num <= NBlks
    /\ lastRead' = [b \in first..(first + num - 1) |-> store[b]]
    /\ UNCHANGED store

Next ==
    \E first \in 0..(NBlks - 1), num \in 1..NBlks, v \in Vals :
        Write(first, num, v) \/ Read(first, num)

Spec == Init /\ [][Next]_vars

=============================================================================
