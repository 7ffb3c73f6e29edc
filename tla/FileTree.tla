------------------------------- MODULE FileTree -------------------------------
(***************************************************************************)
(* What the file system of src/hw4/homework.c promises the FUSE host       *)
(* (spec section 4.3, "Operations"), at the level of the names it shows:   *)
(* which paths exist and whether each is a regular file or a directory.    *)
(* Any operation may fail with an error and change nothing; one that       *)
(* succeeds changes the tree as the contract says.  File contents, sizes   *)
(* and attributes are left out: writes, truncate, chmod and utime leave    *)
(* the tree as it is.                                                      *)
(***************************************************************************)
EXTENDS Sequences, SequencesExt

CONSTANTS Names

VARIABLE tree   \* path -> "none", "reg" or "dir"; the root is a directory

Paths == {<<>>} \cup {<<n>> : n \in Names} \cup {<<m, n>> : m, n \in Names}
NonRoot == Paths \ {<<>>}
Parent(p) == SubSeq(p, 1, Len(p) - 1)
Kinds == {"none", "reg", "dir"}

Init == tree = [p \in Paths |-> IF p = <<>> THEN "dir" ELSE "none"]

\* mknod and mkdir: the parent is a directory and the name is not taken.
Create(p, kind) ==
    /\ tree[Parent(p)] = "dir"
    /\ tree[p] = "none"
    /\ tree' = [tree EXCEPT ![p] = kind]

\* unlink removes a regular file (truncate, its first step, refuses a
\* directory with IsDir).
Unlink(p) ==
    /\ tree[p] = "reg"
    /\ tree' = [tree EXCEPT ![p] = "none"]

\* rmdir removes a directory none of whose entries is valid.
Rmdir(p) ==
    /\ tree[p] = "dir"
    /\ \A q \in NonRoot : Parent(q) = p => tree[q] = "none"
    /\ tree' = [tree EXCEPT ![p] = "none"]

\* rename within one directory: dst takes src's place, with what is under it.
Rename(src, dst) ==
    /\ Parent(src) = Parent(dst)
    /\ tree[src] # "none"
    /\ tree[dst] = "none"
    /\ tree' = [q \in Paths |->
                  IF IsPrefix(dst, q)
                  THEN tree[src \o SubSeq(q, Len(dst) + 1, Len(q))]
                  ELSE IF IsPrefix(src, q) THEN "none" ELSE tree[q]]

Next ==
    \/ \E p \in NonRoot : Create(p, "reg") \/ Create(p, "dir") \/ Unlink(p) \/ Rmdir(p)
    \/ \E src, dst \in NonRoot : Rename(src, dst)

Spec == Init /\ [][Next]_tree

=============================================================================
