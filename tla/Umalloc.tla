------------------------------ MODULE Umalloc ------------------------------
(***************************************************************************)
(* ulib/libc/stdlib/umalloc.c: the allocator of user programs.  Addresses  *)
(* and sizes are in units of a Header; address 0 is the static base, the   *)
(* heap starts at First.  A block's contents are left out; the caller is   *)
(* the set of blocks it holds.                                             *)
(***************************************************************************)
EXTENDS Integers, FiniteSets, Functions, TLC

CONSTANTS Sizes,      \* the unit counts (nunits) callers ask for
          More,       \* the least morecore asks the kernel for (4096)
          Ceiling     \* where sbrk fails

VARIABLES ptr,        \* the list: the successor of base and of every free block
          size,       \* the size of base and of every block
          freep,      \* where the next search starts; None before the first malloc
          brk,        \* the end of the heap
          held,       \* the blocks the caller holds
          failed      \* the size the last malloc could not serve, or 0

vars == <<ptr, size, freep, brk, held, failed>>

None == -1
base == 0
First == 2

Init ==
    /\ ptr = base :> base /\ size = base :> 0
    /\ freep = None /\ brk = First /\ held = {} /\ failed = 0

-----------------------------------------------------------------------------
(* free, as a function of the header fields: <<ptr, size, freep>>. *)
RECURSIVE Before(_, _, _)
Before(pt, bp, p) ==
    IF (bp > p /\ bp < pt[p]) \/ (p >= pt[p] /\ (bp > p \/ bp < pt[p])) THEN p
    ELSE Before(pt, bp, pt[p])

Drop(f, a) == Restrict(f, DOMAIN f \ {a})

JoinUp(pt, sz, p, bp) ==
    IF bp + sz[bp] = pt[p]
    THEN <<Drop((bp :> pt[pt[p]]) @@ pt, pt[p]), Drop([sz EXCEPT ![bp] = @ + sz[pt[p]]], pt[p])>>
    ELSE <<(bp :> pt[p]) @@ pt, sz>>

(* Wrong: a freed block is not joined to the free block below it. *)
JoinDownNot(pt, sz, p, bp) == <<[pt EXCEPT ![p] = bp], sz>>

JoinDown(pt, sz, p, bp) ==
    IF p + sz[p] = bp
    THEN <<Drop([pt EXCEPT ![p] = pt[bp]], bp), Drop([sz EXCEPT ![p] = @ + sz[bp]], bp)>>
    ELSE <<[pt EXCEPT ![p] = bp], sz>>

free(pt, sz, from, bp) ==
    LET p == Before(pt, bp, from)
        u == JoinUp(pt, sz, p, bp)
        d == JoinDown(u[1], u[2], p, bp)
    IN  <<d[1], d[2], p>>

(* malloc's walk: the block before the one to take, or None after a full turn. *)
RECURSIVE Fit(_, _, _, _, _)
Fit(pt, sz, start, prevp, n) ==
    LET p == pt[prevp]
    IN  IF sz[p] >= n THEN prevp
        ELSE IF p = start THEN None
        ELSE Fit(pt, sz, start, p, n)

(* Unlink the block when it is exactly n units, else cut n units off its end. *)
Take(pt, sz, prevp, n) ==
    LET p == pt[prevp]
        q == p + sz[p] - n
    IN  /\ held' = held \cup {q}
        /\ freep' = prevp
        /\ failed' = 0
        /\ \/ /\ sz[p] = n
              /\ ptr' = Drop([pt EXCEPT ![prevp] = pt[p]], p)
              /\ size' = sz
           \/ /\ sz[p] > n
              /\ ptr' = pt
              /\ size' = (q :> n) @@ [sz EXCEPT ![p] = @ - n]

(* morecore asks sbrk for at least More units and frees what it gets. *)
Grab(n) == IF n < More THEN More ELSE n

morecore(start, n) == free(ptr, (brk :> Grab(n)) @@ size, start, brk)

malloc(n) ==
    LET start == IF freep = None THEN base ELSE freep
        prevp == Fit(ptr, size, start, start, n)
        m     == morecore(start, n)
    IN  \/ /\ prevp # None
           /\ Take(ptr, size, prevp, n)
           /\ UNCHANGED brk
        \/ /\ prevp = None /\ brk + Grab(n) > Ceiling
           /\ freep' = start /\ failed' = n
           /\ UNCHANGED <<ptr, size, brk, held>>
        \/ /\ prevp = None /\ brk + Grab(n) <= Ceiling
           /\ brk' = brk + Grab(n)
           /\ Take(m[1], m[2], Fit(m[1], m[2], m[3], m[3], n), n)

Malloc == \E n \in Sizes : malloc(n)

Free ==
    \E bp \in held :
        LET r == free(ptr, size, freep, bp)
        IN  /\ ptr' = r[1] /\ size' = r[2] /\ freep' = r[3]
            /\ held' = held \ {bp} /\ failed' = 0
            /\ UNCHANGED brk

Next == Malloc \/ Free

-----------------------------------------------------------------------------
FreeBlocks == DOMAIN ptr \ {base}

Units(b) == b .. b + size[b] - 1

(* Every unit between the start of the heap and brk is in exactly one      *)
(* block, held or free.                                                    *)
HeapPartition ==
    /\ UNION {Units(b) : b \in FreeBlocks \cup held} = First .. brk - 1
    /\ \A b, c \in FreeBlocks \cup held : b # c => Units(b) \cap Units(c) = {}
    /\ FreeBlocks \cap held = {}

(* No two free blocks touch, and the list visits them all in the order of  *)
(* their addresses.                                                        *)
Coalesced ==
    /\ \A b \in FreeBlocks : b + size[b] \notin FreeBlocks
    /\ \A b \in DOMAIN ptr :
        LET above == {c \in FreeBlocks : c > b}
        IN  ptr[b] = IF above = {} THEN base ELSE CHOOSE c \in above : \A d \in above : c <= d

(* malloc returns 0 only when no free block is large enough. *)
FailsWhenFull == failed # 0 => \A b \in FreeBlocks : size[b] < failed
=============================================================================
