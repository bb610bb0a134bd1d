----------------------------- MODULE DiskImage -----------------------------
(***************************************************************************)
(* The contents of the disk: tools/mkfs.c builds an image, and the kernel  *)
(* (kernel/fs.c: balloc, bfree, bmap, itrunc, readi, writei) goes on from  *)
(* it.  One inode operation at a time runs, inside a transaction; Log and  *)
(* FileSys model the interleavings.  A byte is the number of the operation *)
(* that wrote it; an indirect block is a block whose words are addresses.  *)
(***************************************************************************)
EXTENDS Integers, Sequences, FiniteSets, SequencesExt

CONSTANTS Inodes,              \* the inodes mkfs creates; the root is 1
          BSIZE,               \* bytes (and words of an indirect block) per block
          NDIRECT, NINDIRECT,
          usedblocks,          \* boot, super, inode and bitmap blocks
          nblocks, nlog,
          Lengths,             \* bytes per call
          MaxAppends, MaxOps   \* operations of mkfs, of mkfs and the kernel

VARIABLES disk,                \* [bit, blk, ino, freeblock]
          mounted,             \* mkfs has finished
          file,                \* what was written to each inode
          ops

vars == <<disk, mounted, file, ops>>

size == usedblocks + nblocks + nlog

MAXFILE == NDIRECT + NINDIRECT

zeroes == [i \in 1 .. BSIZE |-> 0]

-----------------------------------------------------------------------------
(* A free block, zeroed, or 0 for the panic "balloc: out of blocks". *)
balloc(d) ==
    LET free == {b \in 0 .. size - 1 : b \notin d.bit}
        b    == CHOOSE x \in free : \A y \in free : x <= y
    IN  IF free = {} THEN [d |-> d, a |-> 0]
        ELSE [d |-> [d EXCEPT !.bit = @ \cup {b},
                              !.blk = [x \in DOMAIN @ \cup {b} |-> IF x = b THEN zeroes ELSE @[x]]],
              a |-> b]

bfree(d, b) == [d EXCEPT !.bit = @ \ {b}]

(* mkfs takes the next block of the image, which is all zeroes. *)
Fresh(d) ==
    [d |-> [d EXCEPT !.freeblock = @ + 1, !.blk = [x \in DOMAIN @ \cup {d.freeblock} |->
                                  IF x = d.freeblock THEN zeroes ELSE @[x]]],
     a |-> d.freeblock]

Alloc(d, mk) == IF mk THEN Fresh(d) ELSE balloc(d)

(* bmap, and the same search in iappend: the address of block bn of an     *)
(* inode; a missing block, and a missing indirect block, are allocated.    *)
Direct(d, i, k, mk) ==
    LET r == Alloc(d, mk)
    IN  IF d.ino[i].addrs[k] # 0 THEN [d |-> d, a |-> d.ino[i].addrs[k]]
        ELSE [r EXCEPT !.d.ino[i].addrs[k] = r.a]

bmap(d, i, bn, mk) ==
    IF bn < NDIRECT THEN Direct(d, i, bn + 1, mk)
    ELSE LET ind == Direct(d, i, NDIRECT + 1, mk)
             w   == bn - NDIRECT + 1
             r   == Alloc(ind.d, mk)
         IN  IF ind.a = 0 \/ (ind.a # 0 /\ ind.d.blk[ind.a][w] # 0)
             THEN [d |-> ind.d, a |-> IF ind.a = 0 THEN 0 ELSE ind.d.blk[ind.a][w]]
             ELSE IF r.a = 0 THEN r
             ELSE [r EXCEPT !.d.blk[ind.a][w] = r.a]

(* The loops of writei and iappend, a byte at a time. *)
RECURSIVE Put(_, _, _, _, _, _)
Put(d, i, off, n, v, mk) ==
    LET b == bmap(d, i, off \div BSIZE, mk)
    IN  IF n = 0 THEN [d |-> d, ok |-> TRUE]
        ELSE IF b.a = 0 THEN [d |-> d, ok |-> FALSE]
        ELSE Put([b.d EXCEPT !.blk[b.a][(off % BSIZE) + 1] = v], i, off + 1, n - 1, v, mk)

iappend(d, i, n, v) ==
    LET r == Put(d, i, d.ino[i].size, n, v, TRUE)
    IN  [r EXCEPT !.d.ino[i].size = @ + n]

writei(d, i, off, n, v) ==
    LET r == Put(d, i, off, n, v, FALSE)
    IN  [r EXCEPT !.d.ino[i].size = IF off + n > @ THEN off + n ELSE @]

(* readi, over a whole file: the disk after it, since bmap allocates, and  *)
(* the bytes.                                                              *)
RECURSIVE Get(_, _, _)
Get(d, i, n) ==
    LET g == Get(d, i, n - 1)
        b == bmap(g.d, i, (n - 1) \div BSIZE, FALSE)
    IN  IF n = 0 THEN [d |-> d, ok |-> TRUE, bytes |-> <<>>]
        ELSE IF ~g.ok \/ b.a = 0 THEN [g EXCEPT !.ok = FALSE]
        ELSE [d |-> b.d, ok |-> TRUE, bytes |-> Append(g.bytes, b.d.blk[b.a][((n - 1) % BSIZE) + 1])]

readi(d, i) == Get(d, i, d.ino[i].size)

Blocks(d, i) ==
    LET a   == d.ino[i].addrs
        ind == IF a[NDIRECT + 1] = 0 THEN <<>> ELSE d.blk[a[NDIRECT + 1]]
    IN  SelectSeq(a \o ind, LAMBDA b : b # 0)

(* The contents of freed blocks are forgotten: balloc zeroes them. *)

(* Wrong: the blocks the indirect block names are not freed. *)
itruncShallow(d, i) ==
    LET e == FoldLeft(bfree, d, SelectSeq(d.ino[i].addrs, LAMBDA b : b # 0))
    IN  [e EXCEPT !.ino[i] = [size |-> 0, addrs |-> [k \in 1 .. NDIRECT + 1 |-> 0]],
                  !.blk = [b \in DOMAIN @ \cap e.bit |-> @[b]]]

itrunc(d, i) ==
    LET e == FoldLeft(bfree, d, Blocks(d, i))
    IN  [e EXCEPT !.ino[i] = [size |-> 0, addrs |-> [k \in 1 .. NDIRECT + 1 |-> 0]],
                  !.blk = [b \in DOMAIN @ \cap e.bit |-> @[b]]]

-----------------------------------------------------------------------------
(* mkfs: the empty inodes, the appends, and the end of main: the size of   *)
(* the root is rounded up to the next block and the bitmap is written.     *)
ialloc == [i \in Inodes |-> [size |-> 0, addrs |-> [k \in 1 .. NDIRECT + 1 |-> 0]]]

Init ==
    /\ disk = [bit |-> {}, blk |-> <<>>, ino |-> ialloc, freeblock |-> usedblocks]
    /\ mounted = FALSE
    /\ file = [i \in Inodes |-> <<>>]
    /\ ops = 0

mkfs_append ==
    /\ ~mounted /\ ops < MaxAppends
    /\ \E i \in Inodes, n \in Lengths :
        LET r == iappend(disk, i, n, ops + 1)
        IN  /\ disk.ino[i].size + n <= MAXFILE * BSIZE      \* assert(fbn < MAXFILE)
            /\ r.d.freeblock <= usedblocks + nblocks
            /\ disk' = r.d
            /\ file' = [file EXCEPT ![i] = @ \o [k \in 1 .. n |-> ops + 1]]
    /\ ops' = ops + 1
    /\ UNCHANGED mounted

mkfs_balloc(d) == [d EXCEPT !.bit = 0 .. d.freeblock - 1]

mkfs_main ==
    LET off == ((disk.ino[1].size \div BSIZE) + 1) * BSIZE
    IN  /\ ~mounted
        /\ off <= MAXFILE * BSIZE
        /\ disk' = mkfs_balloc([disk EXCEPT !.ino[1].size = off])
        /\ file' = [file EXCEPT ![1] = @ \o [k \in 1 .. off - Len(@) |-> 0]]
        /\ mounted' = TRUE
        /\ UNCHANGED ops

-----------------------------------------------------------------------------
(* The kernel: a panic stops the machine, so it is not a step. *)
Write ==
    /\ mounted /\ ops < MaxOps
    /\ \E i \in Inodes, n \in Lengths : \E off \in 0 .. disk.ino[i].size :
        LET r == writei(disk, i, off, n, ops + 1)
        IN  /\ off + n <= MAXFILE * BSIZE
            /\ r.ok
            /\ disk' = r.d
            /\ file' = [file EXCEPT ![i] = SubSeq(@, 1, off) \o [k \in 1 .. n |-> ops + 1]
                                           \o SubSeq(@, off + n + 1, Len(@))]
    /\ ops' = ops + 1
    /\ UNCHANGED mounted

Truncate ==
    /\ mounted /\ ops < MaxOps
    /\ \E i \in Inodes :
        /\ disk' = itrunc(disk, i)
        /\ file' = [file EXCEPT ![i] = <<>>]
    /\ ops' = ops + 1
    /\ UNCHANGED mounted

Read ==
    /\ mounted
    /\ \E i \in Inodes : readi(disk, i).ok /\ disk' = readi(disk, i).d
    /\ UNCHANGED <<mounted, file, ops>>

Next == mkfs_append \/ mkfs_main \/ Write \/ Truncate \/ Read

Spec == Init /\ [][Next]_vars

-----------------------------------------------------------------------------
(* What the kernel reads from an inode is what mkfs and the kernel wrote   *)
(* to it, and zeroes in the part of the root that nobody wrote.            *)
FilesKept ==
    mounted => \A i \in Inodes :
        /\ disk.ino[i].size = Len(file[i])
        /\ readi(disk, i).ok => readi(disk, i).bytes = file[i]

(* The bitmap marks the metadata and the blocks of the files, and no block *)
(* belongs to two places.                                                  *)
BitmapExact ==
    mounted =>
        LET owned == [i \in Inodes |-> Blocks(disk, i)]
        IN  /\ disk.bit = (0 .. usedblocks - 1) \cup UNION {Range(owned[i]) : i \in Inodes}
            /\ \A i \in Inodes : /\ IsInjective(owned[i])
                                 /\ Range(owned[i]) \cap (0 .. usedblocks - 1) = {}
                                 /\ \A j \in Inodes \ {i} : Range(owned[i]) \cap Range(owned[j]) = {}

(* The layout include/fs.h describes: the blocks of the files are data     *)
(* blocks, not blocks of the log.                                          *)
InDataArea ==
    \A i \in Inodes : \A k \in DOMAIN Blocks(disk, i) :
        Blocks(disk, i)[k] \in usedblocks .. usedblocks + nblocks - 1
=============================================================================
