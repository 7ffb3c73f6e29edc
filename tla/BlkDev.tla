------------------------------- MODULE BlkDev -------------------------------
(***************************************************************************)
(* The block-device interface the RAID code of src/hw3/homework.c is       *)
(* written against (blkdev.h and the image-file leaf device, which are not *)
(* part of the repository; spec section 6, "Block-device trait").          *)
(*                                                                         *)
(* Return codes are C ints.  The RAID code combines them with the bitwise  *)
(* operator &, so they are kept as integers and & is computed on their     *)
(* two's-complement representation.  Eight bits suffice: the codes are    *)
(* small negatives and & of two of them only depends on their low bits.    *)
(***************************************************************************)
EXTENDS Integers, Bitwise

SUCCESS   == 0
E_BADADDR == -1
E_UNAVAIL == -2
E_SIZE    == -3

IntWidth == 8

\* x as an unsigned bit pattern of IntWidth bits, and back.
Bits(x)     == x % (2 ^ IntWidth)
Signed(u)   == IF u >= 2 ^ (IntWidth - 1) THEN u - 2 ^ IntWidth ELSE u

\* Mutation: & computed on the bit patterns, the result read as unsigned.
CAnd_Unsigned(a, b) == Bits(a) & Bits(b)

\* The C expression a & b on two ints.
CAnd(a, b) == Signed(Bits(a) & Bits(b))

(***************************************************************************)
(* A leaf read or write of blocks first..first+num-1 on a device of size   *)
(* nblks: a failed device (image_fail) answers E_UNAVAIL before anything   *)
(* else, an out-of-range request E_BADADDR, and otherwise all blocks are   *)
(* transferred.                                                            *)
(***************************************************************************)
LeafResult(isFailed, first, num, nblks) ==
    IF isFailed THEN E_UNAVAIL
    ELSE IF first < 0 \/ first + num > nblks THEN E_BADADDR
    ELSE SUCCESS

\* The blocks a request names.
ReqBlocks(first, num) == first..(first + num - 1)

=============================================================================
