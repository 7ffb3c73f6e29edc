------------------------------------ MODULE Fs ------------------------------------
(***************************************************************************)
(* The fsx600 file system of src/hw4/homework.c over its block device.     *)
(*                                                                         *)
(* The FUSE host calls one operation at a time (spec section 5), so every  *)
(* fs_* handler is one atomic action.  The state is the in-memory shadow   *)
(* that fs_init loads (inodes, inode_map, block_map) and the disk image:   *)
(* the inode table, the two bitmaps and the contents of every other block. *)
(* A handler's disk writes (update_inode, update_map, a directory or an    *)
(* index block) are applied to the disk variables in the step that makes   *)
(* them, and fs_getattr reloads the whole shadow from disk, as the code    *)
(* does by calling fs_init.                                                *)
(*                                                                         *)
(* Data abstraction: a block holds zero bytes, directory entries, block    *)
(* pointers, the superblock or another metadata block.  Names are a small  *)
(* set, every name is shorter than 28 bytes, and the buffers given to      *)
(* fs_write are zero-filled.  When the code reads one structure's bytes as *)
(* another's (a stale pointer to a block now used differently), the       *)
(* result depends on byte layout and user data that the model does not    *)
(* carry: the model records it in halt and stops there.                   *)
(***************************************************************************)
EXTENDS Integers, Sequences, FiniteSets, FiniteSetsExt

CONSTANTS
    Names,           \* path components (strings shorter than 28 bytes)
    NInodes,         \* n_inodes = sb.inode_region_sz * INODES_PER_BLK
    INODES_PER_BLK,
    NBlocks,         \* n_blocks = sb.num_blocks
    N_DIRECT,
    N_ENTRIES,       \* FS_BLOCK_SIZE / sizeof(struct fs_dirent)
    NUM_PER_BLK,     \* BLOCK_SIZE / sizeof(uint32_t)
    BLOCK_SIZE,      \* bytes per block, scaled down
    MaxWrite         \* largest len passed to fs_write

ASSUME NInodes % INODES_PER_BLK = 0 /\ N_DIRECT >= 1 /\ NUM_PER_BLK >= 1

Inodes == 0..(NInodes - 1)
Blocks == 0..(NBlocks - 1)

\* The layout fs_init reads from the superblock: one block per bitmap, the
\* inode table after them, the root directory's block after the table.
root_inode     == 1
inode_map_base == 1
block_map_base == 2
inode_base     == 3
RootBlk        == inode_base + NInodes \div INODES_PER_BLK

DIRECT_SIZE == N_DIRECT * BLOCK_SIZE
INDIR1_SIZE == NUM_PER_BLK * BLOCK_SIZE
INDIR2_SIZE == NUM_PER_BLK * NUM_PER_BLK * BLOCK_SIZE
MaxSize     == DIRECT_SIZE + INDIR1_SIZE + INDIR2_SIZE

ENOENT == -2
EEXIST == -17
ENOTDIR == -20
EISDIR == -21
EINVAL == -22
ENOSPC == -28
ENOTEMPTY == -39
\* Not an errno: lookup read a block that does not hold directory entries.
GARBLE == -1000

\* A lookup that failed with an errno of the code.
Failed(r) == r < 0 /\ r # GARBLE

\* Absolute paths of depth at most 2; <<>> is "/".
Paths == {<<>>} \cup {<<n>> : n \in Names} \cup {<<m, n>> : m, n \in Names}
NonRoot == Paths \ {<<>>}

\* The parent string cut at the last '/', and the name after it.
parent(p) == SubSeq(p, 1, Len(p) - 1)
last(p) == p[Len(p)]

Modes == {"none", "reg", "dir"}     \* S_IFMT of mode: 0, S_IFREG, S_IFDIR
DirectIdx == 0..(N_DIRECT - 1)
Inode == [mode: Modes, size: 0..MaxSize, direct: [DirectIdx -> Blocks],
          indir_1: Blocks, indir_2: Blocks]
ZeroInode == [mode |-> "none", size |-> 0, direct |-> [i \in DirectIdx |-> 0],
              indir_1 |-> 0, indir_2 |-> 0]

Slots == 0..(N_ENTRIES - 1)
PSlots == 0..(NUM_PER_BLK - 1)
Entry == [valid: BOOLEAN, isDir: BOOLEAN, inode: Inodes, name: Names \cup {""}]
NoEntry == [valid |-> FALSE, isDir |-> FALSE, inode |-> 0, name |-> ""]
EmptyEnts == [i \in Slots |-> NoEntry]
ZeroPtrs == [i \in PSlots |-> 0]

\* Block contents; "garbled" is a structure partly overwritten by data.
Kinds == {"zero", "dir", "ptr", "super", "meta", "garbled"}
Content == [t: Kinds, ents: [Slots -> Entry], ptrs: [PSlots -> Blocks]]
Blk(k) == [t |-> k, ents |-> EmptyEnts, ptrs |-> ZeroPtrs]
Zero == Blk("zero")
DirBlock(e) == IF e = EmptyEnts THEN Zero ELSE [Blk("dir") EXCEPT !.ents = e]
PtrBlock(p) == IF p = ZeroPtrs THEN Zero ELSE [Blk("ptr") EXCEPT !.ptrs = p]
AsDir(c) == c.t \in {"zero", "dir"}
AsPtr(c) == c.t \in {"zero", "ptr"}

\* memcpy of n zero bytes at off into a block read from disk.
WriteBytes(c, off, n) ==
    IF c = Zero \/ (off = 0 /\ n = BLOCK_SIZE) THEN Zero ELSE Blk("garbled")

VARIABLES
    inodes, inode_map, block_map,            \* the in-memory shadow
    disk_inodes, disk_inode_map, disk_block_map, disk_blk,
    halt     \* "none", or why the model stops: "layout" or "super"

mem == <<inodes, inode_map, block_map>>
disk == <<disk_inodes, disk_inode_map, disk_block_map, disk_blk>>
vars == <<mem, disk, halt>>

-----------------------------------------------------------------------------
(* Path translation and allocation *)

\* lookup: from the root, read each directory's direct[0] block from disk
\* through the in-memory inode, and take the first valid entry with the
\* name; an entry that is not a directory stops the walk with ENOTDIR.
RECURSIVE walk(_, _, _, _, _)
walk(ino, blk, idx, cur, toks) ==
    IF toks = <<>> THEN idx
    ELSE IF cur.valid /\ ~cur.isDir THEN ENOTDIR
    ELSE LET c == blk[ino[idx].direct[0]]
             hit == {i \in Slots : c.ents[i].valid /\ c.ents[i].name = Head(toks)}
         IN IF ~AsDir(c) THEN GARBLE
            ELSE IF hit = {} THEN ENOENT
            ELSE walk(ino, blk, c.ents[Min(hit)].inode, c.ents[Min(hit)], Tail(toks))

lookup(p) == walk(inodes, disk_blk, root_inode, NoEntry, p)

\* find_free_inode_index: the lowest clear bit from 2.
find_free_inode_index(imap) ==
    LET free == {i \in 2..(NInodes - 1) : i \notin imap}
    IN IF free = {} THEN ENOSPC ELSE Min(free)

\* find_free_blk_num: the lowest clear bit from 0; the caller zeroes it.
find_free_blk_num(bmap) ==
    LET free == {b \in Blocks : b \notin bmap}
    IN IF free = {} THEN ENOSPC ELSE Min(free)

\* update_inode: write the whole block of the table holding inode idx.
update_inode(dino, ino, idx) ==
    [i \in Inodes |-> IF i \div INODES_PER_BLK = idx \div INODES_PER_BLK
                      THEN ino[i] ELSE dino[i]]

\* The directory block of inode i, as the handlers read it from disk.
DirBlk(i) == disk_blk[inodes[i].direct[0]]

-----------------------------------------------------------------------------
(* fs_init and fs_getattr *)

Init ==
    /\ inodes = [i \in Inodes |->
                   IF i = root_inode
                   THEN [ZeroInode EXCEPT !.mode = "dir", !.direct[0] = RootBlk]
                   ELSE ZeroInode]
    /\ inode_map = {0, root_inode}
    /\ block_map = 0..RootBlk
    /\ disk_inodes = inodes
    /\ disk_inode_map = inode_map
    /\ disk_block_map = block_map
    /\ disk_blk = [b \in Blocks |-> IF b = 0 THEN Blk("super")
                                    ELSE IF b < RootBlk THEN Blk("meta")
                                    ELSE Zero]
    /\ halt = "none"

\* fs_init: read the superblock and load the bitmaps and the inode table.
\* A superblock overwritten by a zeroed block gives zero sizes: inodes is
\* malloc(0) and lookup indexes it, which is undefined behaviour.
fs_init ==
    \/ /\ disk_blk[0] = Blk("super")
       /\ inodes' = disk_inodes
       /\ inode_map' = disk_inode_map
       /\ block_map' = disk_block_map
       /\ UNCHANGED <<disk, halt>>
    \/ /\ disk_blk[0] # Blk("super")
       /\ halt' = "super"
       /\ UNCHANGED <<mem, disk>>

\* fs_getattr calls fs_init on every call; its lookup and setStat only read.
fs_getattr == fs_init

-----------------------------------------------------------------------------
(* fs_mknod and fs_mkdir *)

\* Mutation: the lookup of the new name is left out.
CanCreate_NoExistCheck(p) ==
    LET dir == lookup(parent(p)) IN
    /\ dir >= 0
    /\ inodes[dir].mode = "dir"
    /\ AsDir(DirBlk(dir))
    /\ \E i \in Slots : ~DirBlk(dir).ents[i].valid
    /\ find_free_inode_index(inode_map) >= 0

\* The checks both handlers make before they allocate: the parent resolves
\* to a directory, the name does not resolve, a slot of the parent's block
\* is free and find_free_inode_index finds an inode.
CanCreate(p) ==
    LET dir == lookup(parent(p)) IN
    /\ dir >= 0
    /\ Failed(lookup(p))
    /\ inodes[dir].mode = "dir"
    /\ AsDir(DirBlk(dir))
    /\ \E i \in Slots : ~DirBlk(dir).ents[i].valid
    /\ find_free_inode_index(inode_map) >= 0

ParentBlk(p) == inodes[lookup(parent(p))].direct[0]

\* The parent's entries with the first free slot filled in.
AddEntry(p, ino, isDir) ==
    LET ents == disk_blk[ParentBlk(p)].ents
        slot == Min({i \in Slots : ~ents[i].valid})
    IN DirBlock([ents EXCEPT ![slot] = [valid |-> TRUE, isDir |-> isDir,
                                         inode |-> ino, name |-> last(p)]])

\* fs_mknod: only mode, ctime, mtime, uid, gid and size of the new inode are
\* set; its block pointers keep whatever the in-memory table held.
fs_mknod(p) ==
    LET ino == find_free_inode_index(inode_map)
        new == [inodes EXCEPT ![ino] = [@ EXCEPT !.mode = "reg", !.size = 0]]
    IN /\ CanCreate(p)
       /\ inodes' = new
       /\ inode_map' = inode_map \cup {ino}
       /\ disk_inodes' = update_inode(disk_inodes, new, ino)
       /\ disk_inode_map' = inode_map'
       /\ disk_block_map' = block_map
       /\ disk_blk' = [disk_blk EXCEPT ![ParentBlk(p)] = AddEntry(p, ino, FALSE)]
       /\ UNCHANGED <<block_map, halt>>

\* Mutation: the ENOSPC check on the directory's block is dropped.
fs_mkdir_NoSpcCheck(p) ==
    LET ino == find_free_inode_index(inode_map)
        b == find_free_blk_num(block_map)
        new == [inodes EXCEPT ![ino] = [@ EXCEPT !.mode = "dir", !.size = 0,
                                                 !.direct[0] = b]]
    IN /\ CanCreate(p)
       /\ inodes' = new
       /\ inode_map' = inode_map \cup {ino}
       /\ block_map' = block_map \cup {b}
       /\ disk_inodes' = update_inode(disk_inodes, new, ino)
       /\ disk_inode_map' = inode_map'
       /\ disk_block_map' = block_map'
       /\ disk_blk' = [disk_blk EXCEPT ![b] = Zero,
                                       ![ParentBlk(p)] = AddEntry(p, ino, TRUE)]
       /\ UNCHANGED halt

\* fs_mkdir: as fs_mknod, then find_free_blk_num zeroes the lowest free
\* block for the directory's entries before the writes back.
fs_mkdir(p) ==
    LET ino == find_free_inode_index(inode_map)
        b == find_free_blk_num(block_map)
        new == [inodes EXCEPT ![ino] = [@ EXCEPT !.mode = "dir", !.size = 0,
                                                 !.direct[0] = b]]
    IN /\ CanCreate(p)
       /\ b >= 0
       /\ inodes' = new
       /\ inode_map' = inode_map \cup {ino}
       /\ block_map' = block_map \cup {b}
       /\ disk_inodes' = update_inode(disk_inodes, new, ino)
       /\ disk_inode_map' = inode_map'
       /\ disk_block_map' = block_map'
       /\ disk_blk' = [disk_blk EXCEPT ![b] = Zero,
                                       ![ParentBlk(p)] = AddEntry(p, ino, TRUE)]
       /\ UNCHANGED halt

\* fs_mkdir with no free block: the inode's bit and its mode are already set
\* in memory when it returns -ENOSPC, and nothing is written.
fs_mkdir_nospc(p) ==
    LET ino == find_free_inode_index(inode_map) IN
    /\ CanCreate(p)
    /\ find_free_blk_num(block_map) = ENOSPC
    /\ inodes' = [inodes EXCEPT ![ino] = [@ EXCEPT !.mode = "dir", !.size = 0]]
    /\ inode_map' = inode_map \cup {ino}
    /\ UNCHANGED <<block_map, disk, halt>>

-----------------------------------------------------------------------------
(* fs_truncate, fs_unlink, fs_rmdir *)

\* The pointers a block holds, without the zero ones the code skips.
PtrsIn(b) == {disk_blk[b].ptrs[k] : k \in PSlots} \ {0}

\* The index blocks truncate reads, and whether they all hold pointers.
TruncReadsOK(i) ==
    /\ inodes[i].indir_1 # 0 => AsPtr(disk_blk[inodes[i].indir_1])
    /\ inodes[i].indir_2 # 0 =>
          /\ AsPtr(disk_blk[inodes[i].indir_2])
          /\ \A q \in PtrsIn(inodes[i].indir_2) : AsPtr(disk_blk[q])

\* truncate_clear_indir1: FD_CLR every nonzero pointer and the block itself.
truncate_clear_indir1(b) == PtrsIn(b) \cup {b}

\* truncate_clear_indir2: truncate_clear_indir1 on every page, then itself.
truncate_clear_indir2(b) == UNION {truncate_clear_indir1(q) : q \in PtrsIn(b)} \cup {b}

\* The bits fs_truncate clears for inode i: its nonzero direct pointers
\* and, when indir_1 or indir_2 is nonzero, what the clear helpers clear.
TruncFreed(i) ==
    ({inodes[i].direct[k] : k \in DirectIdx} \ {0})
    \cup (IF inodes[i].indir_1 # 0 THEN truncate_clear_indir1(inodes[i].indir_1) ELSE {})
    \cup (IF inodes[i].indir_2 # 0 THEN truncate_clear_indir2(inodes[i].indir_2) ELSE {})

\* The in-memory table after fs_truncate(i, 0).
Truncated(i) ==
    [inodes EXCEPT ![i] = [@ EXCEPT !.size = 0, !.indir_1 = 0, !.indir_2 = 0,
                                    !.direct = [k \in DirectIdx |-> 0]]]

\* Mutation: update_inode is left out, so the cleared pointers and size
\* stay in memory only.
fs_truncate_NoInodeWrite(p) ==
    LET i == lookup(p) IN
    /\ i >= 0
    /\ inodes[i].mode # "dir"
    /\ TruncReadsOK(i)
    /\ inodes' = Truncated(i)
    /\ block_map' = block_map \ TruncFreed(i)
    /\ disk_inode_map' = inode_map
    /\ disk_block_map' = block_map'
    /\ UNCHANGED <<inode_map, disk_inodes, disk_blk, halt>>

\* fs_truncate with len 0 (any other len returns -EINVAL at once).
fs_truncate(p) ==
    LET i == lookup(p) IN
    /\ i >= 0
    /\ inodes[i].mode # "dir"
    /\ TruncReadsOK(i)
    /\ inodes' = Truncated(i)
    /\ block_map' = block_map \ TruncFreed(i)
    /\ disk_inodes' = update_inode(disk_inodes, inodes', i)
    /\ disk_inode_map' = inode_map
    /\ disk_block_map' = block_map'
    /\ UNCHANGED <<inode_map, disk_blk, halt>>

\* The entries of a block with every valid one named n zeroed.
RemoveName(ents, n) ==
    DirBlock([k \in Slots |-> IF ents[k].valid /\ ents[k].name = n
                              THEN NoEntry ELSE ents[k]])

\* Mutation: the parent's entries are not written back.
fs_unlink_NoDirWrite(p) ==
    LET i == lookup(p)
        T == Truncated(i)
        j == walk(T, disk_blk, root_inode, NoEntry, p)
        Z == [T EXCEPT ![j] = ZeroInode]
    IN /\ p # <<>>
       /\ i >= 0
       /\ inodes[i].mode # "dir"
       /\ TruncReadsOK(i)
       /\ inodes' = Z
       /\ inode_map' = inode_map \ {j}
       /\ block_map' = block_map \ TruncFreed(i)
       /\ disk_inodes' = update_inode(update_inode(disk_inodes, T, i), Z, j)
       /\ disk_inode_map' = inode_map'
       /\ disk_block_map' = block_map'
       /\ UNCHANGED <<disk_blk, halt>>

\* fs_unlink: fs_truncate, then look up the parent and the file again in
\* the truncated table, zero the parent's entries of the name, memset the
\* inode to 0, clear its bit, and write inode, maps and parent block.
fs_unlink(p) ==
    LET i == lookup(p)
        T == Truncated(i)
        pb == T[walk(T, disk_blk, root_inode, NoEntry, parent(p))].direct[0]
        j == walk(T, disk_blk, root_inode, NoEntry, p)
        Z == [T EXCEPT ![j] = ZeroInode]
    IN /\ p # <<>>
       /\ i >= 0
       /\ inodes[i].mode # "dir"
       /\ TruncReadsOK(i)
       /\ inodes' = Z
       /\ inode_map' = inode_map \ {j}
       /\ block_map' = block_map \ TruncFreed(i)
       /\ disk_inodes' = update_inode(update_inode(disk_inodes, T, i), Z, j)
       /\ disk_inode_map' = inode_map'
       /\ disk_block_map' = block_map'
       /\ disk_blk' = [disk_blk EXCEPT ![pb] = RemoveName(disk_blk[pb].ents, last(p))]
       /\ UNCHANGED halt

\* Whether rmdir's scan of inode i's direct[0] block finds a valid entry.
\* Bytes that are not entries (the superblock of an empty regular file,
\* pointers, data) may decode either way.
NonEmptyOutcomes(i) ==
    IF AsDir(DirBlk(i))
    THEN {\E k \in Slots : DirBlk(i).ents[k].valid}
    ELSE BOOLEAN

\* Mutation: the loop over the directory's entries (ENOTEMPTY) is dropped.
fs_rmdir_NoEmptyCheck(p) ==
    LET d == lookup(parent(p))
        i == lookup(p)
        pb == inodes[d].direct[0]
        M == [inodes EXCEPT ![i].mode = "none"]
    IN /\ p # <<>>
       /\ d >= 0
       /\ inodes[d].mode = "dir"
       /\ i >= 0
       /\ inodes' = M
       /\ inode_map' = inode_map \ {i}
       /\ block_map' = block_map \ {inodes[i].direct[0]}
       /\ disk_inodes' = update_inode(disk_inodes, M, i)
       /\ disk_inode_map' = inode_map'
       /\ disk_block_map' = block_map'
       /\ disk_blk' = [disk_blk EXCEPT ![pb] = RemoveName(disk_blk[pb].ents, last(p))]
       /\ UNCHANGED halt

\* fs_rmdir: the second mode test looks at the parent's inode again, so the
\* target may be a regular file; memset(inode, 0, sizeof(inode)) clears the
\* 8 bytes of uid, gid and mode only, and FD_CLR frees direct[0] whatever
\* it is.
fs_rmdir(p) ==
    LET d == lookup(parent(p))
        i == lookup(p)
        pb == inodes[d].direct[0]
        M == [inodes EXCEPT ![i].mode = "none"]
    IN /\ p # <<>>
       /\ d >= 0
       /\ inodes[d].mode = "dir"
       /\ i >= 0
       /\ FALSE \in NonEmptyOutcomes(i)
       /\ inodes' = M
       /\ inode_map' = inode_map \ {i}
       /\ block_map' = block_map \ {inodes[i].direct[0]}
       /\ disk_inodes' = update_inode(disk_inodes, M, i)
       /\ disk_inode_map' = inode_map'
       /\ disk_block_map' = block_map'
       /\ disk_blk' = [disk_blk EXCEPT ![pb] = RemoveName(disk_blk[pb].ents, last(p))]
       /\ UNCHANGED halt

-----------------------------------------------------------------------------
(* fs_rename, fs_chmod, fs_utime *)

\* fs_rename: within one directory, every valid entry named like the source
\* gets the destination name; only the directory block is written.
fs_rename(src, dst) ==
    LET pb == inodes[lookup(parent(src))].direct[0]
        ents == disk_blk[pb].ents
    IN /\ src # <<>>
       /\ lookup(src) >= 0
       /\ Failed(lookup(dst))
       /\ parent(src) = parent(dst)
       /\ disk_blk' = [disk_blk EXCEPT ![pb] = DirBlock(
                         [k \in Slots |-> IF ents[k].valid /\ ents[k].name = last(src)
                                          THEN [ents[k] EXCEPT !.name = last(dst)]
                                          ELSE ents[k]])]
       /\ UNCHANGED <<mem, disk_inodes, disk_inode_map, disk_block_map, halt>>

\* fs_chmod: the file type bits are S_IFDIR for a directory and S_IFREG
\* for anything else; the inode's block is written.
fs_chmod(p) ==
    LET i == lookup(p)
        C == [inodes EXCEPT ![i].mode = IF @ = "dir" THEN "dir" ELSE "reg"]
    IN /\ i >= 0
       /\ inodes' = C
       /\ disk_inodes' = update_inode(disk_inodes, C, i)
       /\ UNCHANGED <<inode_map, block_map, disk_inode_map, disk_block_map,
                      disk_blk, halt>>

\* fs_utime: sets mtime (not modelled) and writes the inode's block.
fs_utime(p) ==
    LET i == lookup(p) IN
    /\ i >= 0
    /\ disk_inodes' = update_inode(disk_inodes, inodes, i)
    /\ UNCHANGED <<mem, disk_inode_map, disk_block_map, disk_blk, halt>>

-----------------------------------------------------------------------------
(* fs_write *)

(* The write path works on a record of what it changes: the in-memory     *)
(* table (ino) and block map (bm), the disk blocks (blk) and disk inode    *)
(* table (di), and bad, set when it reads an index block that holds        *)
(* something else.                                                         *)

\* find_free_blk_num's zeroing write, the pointer's update and FD_SET.
AllocBlk(W, a) == [W EXCEPT !.blk[a] = Zero, !.bm = W.bm \cup {a}]

\* fs_write_direct: per block, allocate a missing one (update_inode at
\* once), then read, copy and write it.  On -ENOSPC it returns
\* len - len_t after len_t has already dropped by this block's length.
RECURSIVE fs_write_direct(_, _, _, _, _, _)
fs_write_direct(W, idx, blk_num, blk_offset, len, len_t) ==
    IF ~(blk_num < N_DIRECT /\ len_t > 0) THEN [w |-> W, n |-> len - len_t]
    ELSE LET len_write == IF blk_offset + len_t > BLOCK_SIZE
                          THEN BLOCK_SIZE - blk_offset ELSE len_t
             lt == len_t - len_write
             a == find_free_blk_num(W.bm)
             I == [W.ino EXCEPT ![idx].direct[blk_num] = a]
             W1 == IF W.ino[idx].direct[blk_num] # 0 THEN W
                   ELSE [AllocBlk(W, a) EXCEPT !.ino = I,
                                               !.di = update_inode(W.di, I, idx)]
             b == W1.ino[idx].direct[blk_num]
         IN IF W.ino[idx].direct[blk_num] = 0 /\ a < 0
            THEN [w |-> W, n |-> len - lt]
            ELSE fs_write_direct(
                    [W1 EXCEPT !.blk[b] = WriteBytes(W1.blk[b], blk_offset, len_write)],
                    idx, blk_num + 1, 0, len, lt)

\* The loop of fs_write_indir1 over the local copy bi of the index block;
\* each allocation writes the whole index block back at once.
RECURSIVE indir1_loop(_, _, _, _, _, _, _)
indir1_loop(W, blk, bi, blk_num, blk_offset, len, len_t) ==
    IF ~(blk_num < NUM_PER_BLK /\ len_t > 0) THEN [w |-> W, n |-> len - len_t]
    ELSE LET len_write == IF blk_offset + len_t > BLOCK_SIZE
                          THEN BLOCK_SIZE - blk_offset ELSE len_t
             lt == len_t - len_write
             a == find_free_blk_num(W.bm)
             bi1 == IF bi[blk_num] # 0 THEN bi ELSE [bi EXCEPT ![blk_num] = a]
             W1 == IF bi[blk_num] # 0 THEN W
                   ELSE [AllocBlk(W, a) EXCEPT !.blk[blk] = PtrBlock(bi1)]
             b == bi1[blk_num]
         IN IF bi[blk_num] = 0 /\ a < 0
            THEN [w |-> W, n |-> len - lt]
            ELSE indir1_loop(
                    [W1 EXCEPT !.blk[b] = WriteBytes(W1.blk[b], blk_offset, len_write)],
                    blk, bi1, blk_num + 1, 0, len, lt)

fs_write_indir1(W, blk, offset, len) ==
    IF ~AsPtr(W.blk[blk]) THEN [w |-> [W EXCEPT !.bad = TRUE], n |-> 0]
    ELSE indir1_loop(W, blk, W.blk[blk].ptrs, offset \div BLOCK_SIZE,
                     offset % BLOCK_SIZE, len, len)

\* fs_write_indir2: the page index is offset / BLOCK_SIZE and the offset
\* in the page offset % BLOCK_SIZE, while a page covers INDIR1_SIZE bytes.
RECURSIVE indir2_loop(_, _, _, _, _, _, _)
indir2_loop(W, blk, bi, blk_num, blk_offset, len, len_t) ==
    IF ~(blk_num < NUM_PER_BLK /\ len_t > 0) THEN [w |-> W, n |-> len - len_t]
    ELSE LET len_write == IF blk_offset + len_t > INDIR1_SIZE
                          THEN INDIR1_SIZE - blk_offset ELSE len_t
             lt == len_t - len_write
             a == find_free_blk_num(W.bm)
             bi1 == IF bi[blk_num] # 0 THEN bi ELSE [bi EXCEPT ![blk_num] = a]
             W1 == IF bi[blk_num] # 0 THEN W
                   ELSE [AllocBlk(W, a) EXCEPT !.blk[blk] = PtrBlock(bi1)]
             r == fs_write_indir1(W1, bi1[blk_num], blk_offset, len_write)
         IN IF bi[blk_num] = 0 /\ a < 0 THEN [w |-> W, n |-> len - lt]
            ELSE IF r.n = 0 THEN [w |-> r.w, n |-> len - lt]
            ELSE indir2_loop(r.w, blk, bi1, blk_num + 1, 0, len, lt)

fs_write_indir2(W, blk, offset, len) ==
    IF ~AsPtr(W.blk[blk]) THEN [w |-> [W EXCEPT !.bad = TRUE], n |-> 0]
    ELSE indir2_loop(W, blk, W.blk[blk].ptrs, offset \div BLOCK_SIZE,
                     offset % BLOCK_SIZE, len, len)

\* One indirect stage of fs_write for the field f ("indir_1" or "indir_2"):
\* allocate the index block if missing (on -ENOSPC the handler returns at
\* once: done, no update_map), then write through it.  S is the progress
\* [w, offset, len_t, done].
WriteStage(S, idx, f, lo, hi) ==
    IF S.done \/ S.w.bad \/ ~(S.len_t > 0 /\ S.offset < hi) THEN S
    ELSE LET a == find_free_blk_num(S.w.bm)
             I == [S.w.ino EXCEPT ![idx][f] = a]
             W1 == IF S.w.ino[idx][f] # 0 THEN S.w
                   ELSE [AllocBlk(S.w, a) EXCEPT !.ino = I,
                                                 !.di = update_inode(S.w.di, I, idx)]
             r == IF f = "indir_1"
                  THEN fs_write_indir1(W1, W1.ino[idx][f], S.offset - lo, S.len_t)
                  ELSE fs_write_indir2(W1, W1.ino[idx][f], S.offset - lo, S.len_t)
         IN IF S.w.ino[idx][f] = 0 /\ a < 0 THEN [S EXCEPT !.done = TRUE]
            ELSE [w |-> r.w, offset |-> S.offset + r.n, len_t |-> S.len_t - r.n,
                  done |-> FALSE]

\* fs_write(path, buf, len, offset) on a regular file with offset <= size:
\* the direct, indir_1 and indir_2 stages, then the size and update_map.
fs_write(p, offset, len) ==
    LET i == lookup(p)
        W0 == [ino |-> inodes, bm |-> block_map, blk |-> disk_blk,
               di |-> disk_inodes, bad |-> FALSE]
        r1 == fs_write_direct(W0, i, offset \div BLOCK_SIZE, offset % BLOCK_SIZE, len, len)
        S1 == IF offset < DIRECT_SIZE
              THEN [w |-> r1.w, offset |-> offset + r1.n, len_t |-> len - r1.n, done |-> FALSE]
              ELSE [w |-> W0, offset |-> offset, len_t |-> len, done |-> FALSE]
        S2 == WriteStage(S1, i, "indir_1", DIRECT_SIZE, DIRECT_SIZE + INDIR1_SIZE)
        S3 == WriteStage(S2, i, "indir_2", DIRECT_SIZE + INDIR1_SIZE, MaxSize)
        grow == ~S3.done /\ S3.offset > S3.w.ino[i].size
        I == [S3.w.ino EXCEPT ![i].size = S3.offset]
    IN /\ i >= 0
       /\ inodes[i].mode = "reg"
       /\ offset <= inodes[i].size
       /\ IF S3.w.bad
          THEN halt' = "layout" /\ UNCHANGED <<mem, disk>>
          ELSE /\ inodes' = IF grow THEN I ELSE S3.w.ino
               /\ disk_inodes' = IF grow THEN update_inode(S3.w.di, I, i) ELSE S3.w.di
               /\ block_map' = S3.w.bm
               /\ disk_blk' = S3.w.blk
               /\ disk_block_map' = IF S3.done THEN disk_block_map ELSE S3.w.bm
               /\ disk_inode_map' = IF S3.done THEN disk_inode_map ELSE inode_map
               /\ UNCHANGED <<inode_map, halt>>

-----------------------------------------------------------------------------
(* Reads the model does not follow, and the specification *)

\* A handler reads a block as entries or pointers while it holds something
\* else: a lookup through it, the directory block of a resolved directory,
\* or the index blocks fs_truncate and fs_unlink free.
ReadGarbled ==
    /\ \E p \in Paths :
          \/ lookup(p) = GARBLE
          \/ /\ lookup(p) >= 0
             /\ Len(p) < 2
             /\ inodes[lookup(p)].mode = "dir"
             /\ ~AsDir(DirBlk(lookup(p)))
          \/ /\ lookup(p) >= 0
             /\ inodes[lookup(p)].mode # "dir"
             /\ ~TruncReadsOK(lookup(p))
    /\ halt' = "layout"
    /\ UNCHANGED <<mem, disk>>

Offsets == 0..MaxSize
Lens == 1..MaxWrite

\* Handlers run until the model stops at a read it does not follow.
Running == halt = "none"

Next ==
    \/ Running /\ fs_getattr
    \/ Running /\ ReadGarbled
    \/ \E p \in NonRoot : Running /\ fs_mknod(p)
    \/ \E p \in NonRoot : Running /\ fs_mkdir(p)
    \/ \E p \in NonRoot : Running /\ fs_mkdir_nospc(p)
    \/ \E p \in NonRoot : Running /\ fs_truncate(p)
    \/ \E p \in NonRoot : Running /\ fs_unlink(p)
    \/ \E p \in NonRoot : Running /\ fs_rmdir(p)
    \/ \E p, q \in NonRoot : Running /\ fs_rename(p, q)
    \/ \E p \in Paths : Running /\ fs_chmod(p)
    \/ \E p \in Paths : Running /\ fs_utime(p)
    \/ \E p \in NonRoot, o \in Offsets, n \in Lens : Running /\ fs_write(p, o, n)

Spec == Init /\ [][Next]_vars

-----------------------------------------------------------------------------
(* Properties *)

TypeOK ==
    /\ inodes \in [Inodes -> Inode]
    /\ disk_inodes \in [Inodes -> Inode]
    /\ inode_map \subseteq Inodes /\ disk_inode_map \subseteq Inodes
    /\ block_map \subseteq Blocks /\ disk_block_map \subseteq Blocks
    /\ disk_blk \in [Blocks -> Content]
    /\ halt \in {"none", "layout", "super"}

\* Directories a lookup reaches in memory, and the entries their blocks hold.
LiveDirs == {lookup(p) : p \in {q \in Paths : lookup(q) >= 0}}
              \cap {i \in Inodes : inodes[i].mode = "dir"}
LiveEntries(d) == {DirBlk(d).ents[k] : k \in {k \in Slots : DirBlk(d).ents[k].valid}}

\* fs_mknod, fs_mkdir and fs_rename look the new name up before they write
\* an entry, and rename stays in one directory: no directory a lookup
\* reaches ever holds two valid entries with the same name.
NamesUniqueInDir ==
    \A d \in LiveDirs : AsDir(DirBlk(d)) =>
        \A k, l \in Slots :
            (k # l /\ DirBlk(d).ents[k].valid /\ DirBlk(d).ents[l].valid)
                => DirBlk(d).ents[k].name # DirBlk(d).ents[l].name

\* The entries fs_unlink and fs_rmdir clear and the bits they clear go
\* together, across reloads by fs_getattr: every valid entry of a reached
\* directory names an inode whose bit is set in memory and whose mode is
\* the kind the entry records.
EntriesNameLiveInodes ==
    \A d \in LiveDirs : AsDir(DirBlk(d)) =>
        \A e \in LiveEntries(d) :
            /\ e.inode \in inode_map
            /\ inodes[e.inode].mode = IF e.isDir THEN "dir" ELSE "reg"

\* The blocks inode i points to: nonzero direct pointers, the index blocks
\* and the pointers in them.
Owned(i) ==
    LET I == inodes[i]
        in1(b) == IF b # 0 /\ AsPtr(disk_blk[b]) THEN PtrsIn(b) \cup {b}
                  ELSE {b} \ {0}
    IN ({I.direct[k] : k \in DirectIdx} \ {0})
       \cup in1(I.indir_1)
       \cup (IF I.indir_2 # 0 /\ AsPtr(disk_blk[I.indir_2])
             THEN UNION {in1(q) : q \in PtrsIn(I.indir_2)} \cup {I.indir_2}
             ELSE {I.indir_2} \ {0})

LiveInodes == {i \in inode_map : inodes[i].mode # "none"}

\* Every block a live inode points to is marked used in block_map and
\* belongs to that inode alone, so find_free_blk_num never hands it out.
BlocksOwnedOnce ==
    \A i \in LiveInodes :
        /\ Owned(i) \subseteq block_map
        /\ \A j \in LiveInodes \ {i} : Owned(i) \cap Owned(j) = {}

\* The superblock, bitmaps, inode table and root directory block stay
\* marked used in block_map, so no allocation zeroes them.
MetadataStaysAllocated == 0..RootBlk \subseteq block_map

\* Every inode set in the disk's inode map, apart from 0 and the root, is
\* reached by a lookup over the disk image: none is leaked.
NoLeakedInodes ==
    \A i \in disk_inode_map \ {0, root_inode} :
        \E p \in NonRoot : walk(disk_inodes, disk_blk, root_inode, NoEntry, p) = i

\* The block holding byte off of inode I by the block-address arithmetic of
\* the specification, or 0 where a pointer on the way is 0.
SpecBlockOf(I, off) ==
    LET ptr(b, k) == IF b # 0 /\ AsPtr(disk_blk[b]) THEN disk_blk[b].ptrs[k] ELSE 0
        o2 == off - DIRECT_SIZE - INDIR1_SIZE
    IN IF off < DIRECT_SIZE THEN I.direct[off \div BLOCK_SIZE]
       ELSE IF off < DIRECT_SIZE + INDIR1_SIZE
       THEN ptr(I.indir_1, (off - DIRECT_SIZE) \div BLOCK_SIZE)
       ELSE ptr(ptr(I.indir_2, o2 \div INDIR1_SIZE), (o2 % INDIR1_SIZE) \div BLOCK_SIZE)

\* After fs_write, every byte below a regular file's size has a block:
\* size never counts bytes that were not written.
SizeCoveredByBlocks ==
    \A i \in LiveInodes : inodes[i].mode = "reg" =>
        \A off \in 0..(inodes[i].size - 1) : SpecBlockOf(inodes[i], off) # 0

\* fs_getattr reloads every inode from the table on disk, so each handler
\* must write through (update_inode) every inode it changes: the inode of
\* every path a lookup reaches is the same in memory and on disk, and a
\* reload never changes a file or directory the host can see.
ReachableInodesFlushed ==
    \A p \in Paths : LET i == lookup(p) IN i >= 0 => disk_inodes[i] = inodes[i]

-----------------------------------------------------------------------------
(* The abstract file tree *)

\* The kind of every path, as lookup finds it: the refinement mapping.
AbsTree == [p \in Paths |-> LET i == lookup(p) IN IF i >= 0 THEN inodes[i].mode ELSE "none"]

Tree == INSTANCE FileTree WITH tree <- AbsTree

\* Every handler changes the tree of names the host sees only as the
\* contract of spec section 4.3 allows: mknod, mkdir, unlink of a regular
\* file, rmdir of an empty directory, rename within one directory.
FsImplementsFileTree == Tree!Spec

=============================================================================
