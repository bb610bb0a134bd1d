------------------------- MODULE BufferCacheProofs --------------------------
(***************************************************************************)
(* The buffer cache keeps one buffer per sector and one owner per buffer,  *)
(* and nobody waits in it for nothing, for any number of processes,        *)
(* sectors and buffers.  There is one lemma per action.  From the same     *)
(* invariant: bget finds a buffer as long as the log pins no more than it  *)
(* may, and the cache implements BlockStore, step by step.                 *)
(***************************************************************************)
EXTENDS BufferCache, FiniteSetTheorems, WellFoundedInduction, TLAPS

USE Zenon

-----------------------------------------------------------------------------
(* The last position of the list with a recyclable buffer exists. *)
LEMMA OldestRecyclable ==
  ASSUME TypeOK, PlaceInv, Recyclable # {}
  PROVE  Oldest \in Recyclable
<1> DEFINE K == {k \in Buf : lru[k] \in Recyclable}
           M == {NBUF - k : k \in K}
<1>1. NBUF \in Nat
  BY CacheAssumption
<1>2. M \subseteq Nat /\ M # {}
  BY <1>1, SMT DEF PlaceInv, Recyclable, Buf
<1>3. PICK x \in M : \A y \in M : ~ (<<y, x>> \in OpToRel(<, Nat))
  <2> HIDE DEF M
  <2> QED
    BY <1>2, NatLessThanWellFounded, WFMin
<1>4. \A y \in M : ~ (y < x)
  <2> HIDE DEF M
  <2> QED
    BY <1>2, <1>3 DEF OpToRel
<1>5. PICK k \in K : x = NBUF - k
  OBVIOUS
<1>6. \A j \in k + 1 .. NBUF : lru[j] \notin Recyclable
  <2> SUFFICES ASSUME NEW j \in k + 1 .. NBUF, lru[j] \in Recyclable PROVE FALSE
    OBVIOUS
  <2>1. j \in Buf /\ j \in Nat /\ k \in Nat /\ k < j
    BY <1>1, SMT DEF Buf
  <2>2. NBUF - j \in M
    BY <2>1
  <2>3. ~ (NBUF - j < x)
    <3> HIDE DEF M
    <3> QED
      BY <1>4, <2>2
  <2> QED
    BY <1>1, <1>5, <2>1, <2>3, SMT
<1>7. \E l \in Buf : lru[l] \in Recyclable /\ \A j \in l + 1 .. NBUF : lru[j] \notin Recyclable
  BY <1>6
<1> QED
  BY <1>7 DEF Oldest

(* Moving a buffer to the front loses none. *)
LEMMA FrontKeepsAll ==
  ASSUME TypeOK, PlaceInv, NEW b \in Buf
  PROVE  /\ MoveToFront(b) \in [Buf -> Buf]
         /\ \A x \in Buf : \E k \in Buf : MoveToFront(b)[k] = x
<1> DEFINE k0 == CHOOSE k \in Buf : lru[k] = b
<1>1. k0 \in Buf /\ lru[k0] = b
  BY DEF PlaceInv
<1> HIDE DEF k0
<1>2. MoveToFront(b) = [j \in Buf |-> IF j = 1 THEN b ELSE IF j <= k0 THEN lru[j - 1] ELSE lru[j]]
  BY DEF MoveToFront, k0
<1>3. NBUF \in Nat /\ 1 \in Buf
  BY CacheAssumption, SMT DEF Buf
<1>4. \A j \in Buf : j # 1 => j - 1 \in Buf
  BY <1>3, SMT DEF Buf
<1>5. MoveToFront(b) \in [Buf -> Buf]
  BY <1>1, <1>2, <1>4, SMT DEF TypeOK
<1>6. ASSUME NEW x \in Buf PROVE \E k \in Buf : MoveToFront(b)[k] = x
  <2>1. PICK j \in Buf : lru[j] = x
    BY DEF PlaceInv
  <2>2. CASE j = k0
    BY <1>1, <1>2, <1>3, <2>1, <2>2
  <2>3. CASE j < k0
    <3>1. j + 1 \in Buf /\ j + 1 # 1 /\ j + 1 <= k0 /\ (j + 1) - 1 = j
      BY <1>1, <1>3, <2>3, SMT DEF Buf
    <3> QED
      BY <1>2, <2>1, <3>1
  <2>4. CASE j > k0
    <3>1. j # 1 /\ ~(j <= k0)
      BY <1>1, <1>3, <2>4, SMT DEF Buf
    <3> QED
      BY <1>2, <2>1, <3>1
  <2> QED
    BY <1>1, <2>2, <2>3, <2>4, SMT DEF Buf
<1> QED
  BY <1>5, <1>6

(* What wakeup(b) does to the places. *)
LEMMA WakeupPlaces ==
  ASSUME TypeOK, NEW b
  PROVE  /\ Wakeup(b) \in [Proc -> Places]
         /\ \A q \in Proc :
              \/ buf[q] = b /\ pc[q] = "bwait" /\ Wakeup(b)[q] = "bget"
              \/ buf[q] = b /\ pc[q] = "iowait" /\ Wakeup(b)[q] = "iotest"
              \/ ~(buf[q] = b /\ pc[q] \in {"bwait", "iowait"}) /\ Wakeup(b)[q] = pc[q]
<1>1. \A q \in Proc :
        \/ buf[q] = b /\ pc[q] = "bwait" /\ Wakeup(b)[q] = "bget"
        \/ buf[q] = b /\ pc[q] = "iowait" /\ Wakeup(b)[q] = "iotest"
        \/ ~(buf[q] = b /\ pc[q] \in {"bwait", "iowait"}) /\ Wakeup(b)[q] = pc[q]
  BY DEF Wakeup
<1>2. \A q \in Proc : pc[q] \in Places
  BY DEF TypeOK
<1>3. Wakeup(b) = [q \in Proc |-> Wakeup(b)[q]]
  BY DEF Wakeup
<1> QED
  BY <1>1, <1>2, <1>3 DEF Places, Owning
-----------------------------------------------------------------------------
(* bread is called. *)
LEMMA BreadInv ==
  ASSUME CacheInv, NEW p \in Proc, NEW s \in Sector, Bread(p, s)
  PROVE  CacheInv'
<1>1. /\ pc[p] = "idle" /\ pc' = [pc EXCEPT ![p] = "bget"]
      /\ want' = [want EXCEPT ![p] = s]
      /\ UNCHANGED <<sector, busy, valid, dirty, data, lru, idequeue, active, disk, buf, changed>>
  BY DEF Bread, Goto, flags
<1> USE DEF CacheInv
<1>2. TypeOK'
  BY <1>1 DEF TypeOK, Places
<1>3. PlaceInv'
  BY <1>1 DEF TypeOK, PlaceInv, Owning
<1>4. OneOwner'
  <2>1. \A q \in Proc : pc'[q] \in Owning <=> pc[q] \in Owning
    BY <1>1 DEF TypeOK, Owning
  <2>2. \A q \in Proc : pc[q] \in Owning => want'[q] = want[q] /\ pc'[q] = pc[q]
    BY <1>1 DEF TypeOK, Owning
  <2>3. "have" \in Owning
    BY DEF Owning
  <2> QED
    BY <1>1, <2>1, <2>2, <2>3, SMT DEF OneOwner
<1>5. WaitsForSomething'
  BY <1>1 DEF TypeOK, WaitsForSomething
<1>6. QueueInv'
  BY <1>1, SMT DEF TypeOK, QueueInv
<1>7. ContentInv'
  BY <1>1 DEF TypeOK, ContentInv
<1> QED
  BY <1>2, <1>3, <1>4, <1>5, <1>6, <1>7

(* bget finds the sector's buffer and marks it B_BUSY. *)
LEMMA BgetHitInv ==
  ASSUME CacheInv, NEW p \in Proc, BgetHit(p)
  PROVE  CacheInv'
<1>1. PICK b \in Cached(want[p]) : /\ ~busy[b]
                                   /\ busy' = [busy EXCEPT ![b] = TRUE]
                                   /\ buf' = [buf EXCEPT ![p] = b]
  BY DEF BgetHit
<1>2. /\ pc[p] = "bget" /\ pc' = [pc EXCEPT ![p] = "bread"]
      /\ UNCHANGED <<sector, valid, dirty, data, lru, idequeue, active, disk, want, changed>>
  BY DEF BgetHit, Goto
<1>3. b \in Buf /\ sector[b] = want[p]
  BY DEF Cached
<1> USE DEF CacheInv
<1>4. TypeOK'
  BY <1>1, <1>2, <1>3 DEF TypeOK, Places, Owning
<1>5. PlaceInv'
  BY <1>1, <1>2, <1>3 DEF TypeOK, PlaceInv, Owning
<1>6. OneOwner'
  BY <1>1, <1>2, <1>3, SMT DEF TypeOK, OneOwner, Owning
<1>7. WaitsForSomething'
  BY <1>1, <1>2, <1>3, SMT DEF TypeOK, WaitsForSomething
<1>8. QueueInv'
  BY <1>1, <1>2, <1>3, SMT DEF TypeOK, QueueInv
<1>9. ContentInv'
  BY <1>1, <1>2, <1>3 DEF TypeOK, ContentInv
<1> QED
  BY <1>4, <1>5, <1>6, <1>7, <1>8, <1>9

(* bget goes to sleep for a buffer that another process has. *)
LEMMA BgetSleepInv ==
  ASSUME CacheInv, NEW p \in Proc, BgetSleep(p)
  PROVE  CacheInv'
<1>1. PICK b \in Cached(want[p]) : busy[b] /\ buf' = [buf EXCEPT ![p] = b]
  BY DEF BgetSleep
<1>2. /\ pc[p] = "bget" /\ pc' = [pc EXCEPT ![p] = "bwait"]
      /\ UNCHANGED <<sector, busy, valid, dirty, data, lru, idequeue, active, disk, want, changed>>
  BY DEF BgetSleep, Goto, flags
<1>3. b \in Buf
  BY DEF Cached
<1> USE DEF CacheInv
<1>4. TypeOK'
  BY <1>1, <1>2, <1>3 DEF TypeOK, Places
<1>5. PlaceInv'
  BY <1>1, <1>2, <1>3 DEF TypeOK, PlaceInv, Owning
<1>6. OneOwner'
  BY <1>1, <1>2, <1>3, SMT DEF TypeOK, OneOwner, Owning
<1>7. WaitsForSomething'
  BY <1>1, <1>2, <1>3, SMT DEF TypeOK, WaitsForSomething
<1>8. QueueInv'
  BY <1>1, <1>2, <1>3, ZenonT(30) DEF TypeOK, QueueInv
<1>9. ContentInv'
  BY <1>1, <1>2, <1>3 DEF TypeOK, ContentInv
<1> QED
  BY <1>4, <1>5, <1>6, <1>7, <1>8, <1>9

(* bget takes the least recently used free buffer for an uncached sector. *)
LEMMA BgetRecycleInv ==
  ASSUME CacheInv, NEW p \in Proc, BgetRecycle(p)
  PROVE  CacheInv'
<1> DEFINE b == Oldest
<1>1. b \in Buf /\ ~busy[b] /\ ~dirty[b]
  BY OldestRecyclable DEF CacheInv, BgetRecycle, Recyclable
<1>2. /\ pc[p] = "bget" /\ pc' = [pc EXCEPT ![p] = "bread"]
      /\ \A c \in Buf : sector[c] # want[p]
      /\ sector' = [sector EXCEPT ![b] = want[p]]
      /\ busy' = [busy EXCEPT ![b] = TRUE]
      /\ valid' = [valid EXCEPT ![b] = FALSE]
      /\ buf' = [buf EXCEPT ![p] = b]
      /\ UNCHANGED <<dirty, data, lru, idequeue, active, disk, want, changed>>
  BY DEF BgetRecycle, Goto, Cached
<1> HIDE DEF b
<1> USE DEF CacheInv
<1>4. TypeOK'
  BY <1>1, <1>2 DEF TypeOK, Places, Owning
<1>5. PlaceInv'
  BY <1>1, <1>2 DEF TypeOK, PlaceInv, Owning
<1>6. OneOwner'
  BY <1>1, <1>2, SMT DEF TypeOK, OneOwner, Owning
<1>7. WaitsForSomething'
  BY <1>1, <1>2, SMT DEF TypeOK, WaitsForSomething, OneOwner, Owning
<1>8. QueueInv'
  BY <1>1, <1>2, SMT DEF TypeOK, QueueInv, OneOwner, Owning
<1>9. ContentInv'
  BY <1>1, <1>2, SMT DEF TypeOK, ContentInv
<1> QED
  BY <1>4, <1>5, <1>6, <1>7, <1>8, <1>9

(* bread looks at B_VALID. *)
LEMMA BreadValidInv ==
  ASSUME CacheInv, NEW p \in Proc, BreadValid(p)
  PROVE  CacheInv'
<1>1. /\ pc[p] = "bread" /\ pc' = [pc EXCEPT ![p] = IF valid[buf[p]] THEN "have" ELSE "iderw"]
      /\ UNCHANGED <<sector, busy, valid, dirty, data, lru, idequeue, active, disk, want, buf,
                     changed>>
  BY DEF BreadValid, Goto, flags
<1> USE DEF CacheInv
<1>2. TypeOK'
  BY <1>1 DEF TypeOK, Places, Owning
<1>3. PlaceInv'
  BY <1>1 DEF TypeOK, PlaceInv, Owning
<1>4. OneOwner'
  BY <1>1, SMT DEF TypeOK, OneOwner, Owning
<1>5. WaitsForSomething'
  BY <1>1 DEF TypeOK, WaitsForSomething
<1>6. QueueInv'
  BY <1>1, SMT DEF TypeOK, QueueInv
<1>7. ContentInv'
  BY <1>1 DEF TypeOK, ContentInv
<1> QED
  BY <1>2, <1>3, <1>4, <1>5, <1>6, <1>7

(* The holder of a buffer changes its data. *)
LEMMA ModifyInv ==
  ASSUME CacheInv, NEW p \in Proc, NEW v \in Val, Modify(p, v)
  PROVE  CacheInv'
<1>1. /\ pc[p] = "have"
      /\ data' = [data EXCEPT ![buf[p]] = v]
      /\ changed' = [changed EXCEPT ![p] = TRUE]
      /\ UNCHANGED <<sector, busy, valid, dirty, lru, idequeue, active, disk, pc, want, buf>>
  BY DEF Modify, flags
<1> USE DEF CacheInv
<1>2. TypeOK'
  BY <1>1, ZenonT(30) DEF TypeOK
<1>3. PlaceInv' /\ OneOwner' /\ WaitsForSomething' /\ QueueInv'
  BY <1>1, SMT DEF PlaceInv, OneOwner, WaitsForSomething, QueueInv
<1>4. ContentInv'
  BY <1>1, ZenonT(30) DEF TypeOK, ContentInv
<1> QED
  BY <1>2, <1>3, <1>4

(* bwrite marks the buffer B_DIRTY and calls iderw. *)
LEMMA BwriteInv ==
  ASSUME CacheInv, NEW p \in Proc, Bwrite(p)
  PROVE  CacheInv'
<1>1. /\ pc[p] = "have" /\ pc' = [pc EXCEPT ![p] = "iderw"]
      /\ dirty' = [dirty EXCEPT ![buf[p]] = TRUE]
      /\ changed' = [changed EXCEPT ![p] = FALSE]
      /\ UNCHANGED <<sector, busy, valid, data, lru, idequeue, active, disk, want, buf>>
  BY DEF Bwrite, Goto
<1> USE DEF CacheInv
<1>0. buf[p] \in Buf /\ valid[buf[p]]
  BY <1>1 DEF PlaceInv, OneOwner, Owning
<1>2. TypeOK'
  BY <1>1 DEF TypeOK, Places, Owning
<1>3. PlaceInv'
  BY <1>1 DEF TypeOK, PlaceInv, Owning
<1>4. OneOwner'
  BY <1>1, SMT DEF TypeOK, OneOwner, Owning
<1>5. WaitsForSomething'
  BY <1>0, <1>1, SMT DEF TypeOK, WaitsForSomething
<1>6. QueueInv'
  BY <1>0, <1>1, SMT DEF TypeOK, QueueInv, OneOwner, Owning
<1>7. ContentInv'
  BY <1>0, <1>1, SMT DEF TypeOK, ContentInv, OneOwner, Owning
<1> QED
  BY <1>2, <1>3, <1>4, <1>5, <1>6, <1>7

(* log_write marks the buffer B_DIRTY. *)
LEMMA PinInv ==
  ASSUME CacheInv, NEW p \in Proc, Pin(p)
  PROVE  CacheInv'
<1>1. /\ pc[p] = "have"
      /\ dirty' = [dirty EXCEPT ![buf[p]] = TRUE]
      /\ changed' = [changed EXCEPT ![p] = FALSE]
      /\ UNCHANGED <<sector, busy, valid, data, lru, idequeue, active, disk, pc, want, buf>>
  BY DEF Pin
<1> USE DEF CacheInv
<1>0. buf[p] \in Buf /\ valid[buf[p]]
  BY <1>1 DEF PlaceInv, OneOwner, Owning
<1>2. TypeOK'
  BY <1>1 DEF TypeOK
<1>3. PlaceInv' /\ OneOwner'
  BY <1>1 DEF PlaceInv, OneOwner
<1>5. WaitsForSomething'
  BY <1>0, <1>1, SMT DEF TypeOK, WaitsForSomething
<1>6. QueueInv'
  BY <1>0, <1>1, SMT DEF TypeOK, QueueInv, OneOwner, Owning
<1>7. ContentInv'
  BY <1>0, <1>1, SMT DEF TypeOK, ContentInv, OneOwner, Owning
<1> QED
  BY <1>2, <1>3, <1>5, <1>6, <1>7

(* brelse moves the buffer to the front of the list, clears B_BUSY and wakes
   the processes that sleep on the buffer. *)
LEMMA BrelseInv ==
  ASSUME CacheInv, NEW p \in Proc, Brelse(p)
  PROVE  CacheInv'
<1> DEFINE b == buf[p]
<1>1. /\ pc[p] = "have" /\ (~changed[p] \/ dirty[b])
      /\ lru' = MoveToFront(b)
      /\ busy' = [busy EXCEPT ![b] = FALSE]
      /\ pc' = [Wakeup(b) EXCEPT ![p] = "idle"]
      /\ want' = [want EXCEPT ![p] = NoSector]
      /\ buf' = [buf EXCEPT ![p] = NoBuf]
      /\ changed' = [changed EXCEPT ![p] = FALSE]
      /\ UNCHANGED <<sector, valid, dirty, data, idequeue, active, disk>>
  BY DEF Brelse
<1>2. b \in Buf
  BY <1>1 DEF CacheInv, PlaceInv, Owning
<1>3. /\ Wakeup(b) \in [Proc -> Places]
      /\ \A q \in Proc :
           \/ buf[q] = b /\ pc[q] = "bwait" /\ Wakeup(b)[q] = "bget"
           \/ buf[q] = b /\ pc[q] = "iowait" /\ Wakeup(b)[q] = "iotest"
           \/ ~(buf[q] = b /\ pc[q] \in {"bwait", "iowait"}) /\ Wakeup(b)[q] = pc[q]
  BY WakeupPlaces DEF CacheInv
<1>4. \A q \in Proc : q # p /\ buf[q] = b => pc[q] \notin Owning
  BY <1>1 DEF CacheInv, OneOwner, Owning
<1>5. \A q \in Proc \ {p} :
        /\ want'[q] = want[q] /\ buf'[q] = buf[q] /\ changed'[q] = changed[q]
        /\ \/ buf[q] = b /\ pc[q] = "bwait" /\ pc'[q] = "bget"
           \/ ~(buf[q] = b /\ pc[q] = "bwait") /\ pc'[q] = pc[q]
  BY <1>1, <1>3, <1>4 DEF CacheInv, TypeOK, Owning
<1>6. /\ pc'[p] = "idle" /\ want'[p] = NoSector /\ buf'[p] = NoBuf /\ changed'[p] = FALSE
      /\ NoBuf \notin Buf
  BY <1>1, <1>3, CacheAssumption, SMT DEF CacheInv, TypeOK, NoBuf, Buf
<1> HIDE DEF b
<1> USE DEF CacheInv
<1>7. TypeOK'
  BY <1>1, <1>2, <1>3, FrontKeepsAll, ZenonT(30) DEF TypeOK, Places
<1>8. PlaceInv'
  <2>1. \A x \in Buf : \E k \in Buf : lru'[k] = x
    BY <1>1, <1>2, FrontKeepsAll, ZenonT(30)
  <2> QED
    BY <1>5, <1>6, <2>1 DEF PlaceInv, Owning
<1>9. OneOwner'
  <2>1. \A q \in Proc : pc'[q] \in Owning <=> (q # p /\ pc[q] \in Owning)
    BY <1>5, <1>6 DEF Owning
  <2>2. \A q \in Proc : pc'[q] \in Owning =>
          want'[q] = want[q] /\ buf'[q] = buf[q] /\ pc'[q] = pc[q] /\ buf[q] # b
    BY <1>4, <1>5, <1>6 DEF Owning
  <2>3. \A c \in Buf : busy'[c] <=> (busy[c] /\ c # b)
    BY <1>1, <1>2 DEF TypeOK
  <2>4. \A c \in Buf : busy'[c] <=> \E q \in Proc : pc'[q] \in Owning /\ buf'[q] = c
    BY <2>1, <2>2, <2>3, SMT DEF OneOwner, b
  <2>5. "have" \in Owning
    BY DEF Owning
  <2> QED
    BY <1>1, <2>1, <2>2, <2>4, <2>5, SMT DEF OneOwner
<1>10. WaitsForSomething'
  <2>1. \A q \in Proc : pc'[q] = "bwait" => busy'[buf'[q]]
    BY <1>1, <1>2, <1>5, <1>6, SMTT(30) DEF TypeOK, PlaceInv, WaitsForSomething
  <2> QED
    BY <1>1, <1>5, <1>6, <2>1, SMTT(30) DEF WaitsForSomething
<1>11. QueueInv'
  <2>1. \A q \in Proc : pc'[q] \in {"iowait", "iotest"} => pc[q] = pc'[q] /\ buf'[q] = buf[q]
    BY <1>5, <1>6
  <2>2. \A q \in Proc : pc[q] = "iowait" => pc'[q] = "iowait" /\ buf'[q] = buf[q]
    BY <1>1, <1>5, ZenonT(30)
  <2> QED
    BY <1>1, <2>1, <2>2, SMTT(30) DEF QueueInv
<1>12. ContentInv'
  <2>1. \A c \in Buf : valid[c] /\ ~dirty[c] =>
          data[c] = disk[sector[c]] \/ \E q \in Proc \ {p} : buf[q] = c /\ changed[q]
    BY <1>1, ZenonT(30) DEF ContentInv, b
  <2> QED
    BY <1>1, <1>5, <1>6, <2>1, SMTT(30) DEF ContentInv
<1> QED
  BY <1>7, <1>8, <1>9, <1>10, <1>11, <1>12

(* iderw appends the buffer to the queue. *)
LEMMA IderwInv ==
  ASSUME CacheInv, NEW p \in Proc, Iderw(p)
  PROVE  CacheInv'
<1> DEFINE b == buf[p]
           q == idequeue
<1>1. /\ pc[p] = "iderw" /\ pc' = [pc EXCEPT ![p] = "iowait"]
      /\ idequeue' = Append(q, b)
      /\ active' = IF q = <<>> THEN b ELSE active
      /\ UNCHANGED <<sector, busy, valid, dirty, data, lru, disk, want, buf, changed>>
  BY DEF Iderw, Goto, flags
<1>2. b \in Buf
  BY <1>1 DEF CacheInv, PlaceInv, Owning
<1>3. /\ q \in Seq(Buf) /\ Len(q) \in Nat /\ idequeue' \in Seq(Buf)
      /\ Len(idequeue') = Len(q) + 1 /\ idequeue'[Len(q) + 1] = b
      /\ \A k \in 1 .. Len(q) : idequeue'[k] = q[k]
  BY <1>1, <1>2, SMT DEF CacheInv, TypeOK
<1>4. \A k \in 1 .. Len(q) : q[k] # b
  BY <1>1, <1>3, SMT DEF CacheInv, QueueInv, OneOwner, Owning
<1>5. \A r \in Proc \ {p} : pc'[r] = pc[r]
  BY <1>1 DEF CacheInv, TypeOK
<1>6. pc'[p] = "iowait" /\ buf' = buf
  BY <1>1 DEF CacheInv, TypeOK
<1> USE DEF CacheInv
<1>7. TypeOK'
  BY <1>1, <1>3 DEF TypeOK, Places, Owning
<1> HIDE DEF b, q
<1>8. PlaceInv'
  BY <1>1, <1>5, <1>6 DEF PlaceInv, Owning
<1>9. OneOwner'
  BY <1>1, <1>5, <1>6, SMT DEF OneOwner, Owning
<1>10. WaitsForSomething'
  <2>1. \A r \in Proc : pc'[r] = "iowait" => \E k \in 1 .. Len(idequeue') : idequeue'[k] = buf'[r]
    <3> SUFFICES ASSUME NEW r \in Proc, pc'[r] = "iowait"
                 PROVE  \E k \in 1 .. Len(idequeue') : idequeue'[k] = buf'[r]
      OBVIOUS
    <3>1. CASE r = p
      <4>1. Len(q) + 1 \in 1 .. Len(idequeue')
        BY <1>3, SMT
      <4> QED
        BY <1>3, <1>6, <3>1, <4>1 DEF b
    <3>2. CASE r # p
      <4>1. PICK k \in 1 .. Len(q) : q[k] = buf[r]
        BY <1>5, <3>2 DEF WaitsForSomething, q
      <4>2. k \in 1 .. Len(idequeue')
        BY <1>3, SMT
      <4> QED
        BY <1>3, <1>6, <4>1, <4>2
    <3> QED
      BY <3>1, <3>2
  <2>2. active' = IF idequeue' = <<>> THEN NoBuf ELSE Head(idequeue')
    <3>1. idequeue' # <<>> /\ Head(idequeue') = idequeue'[1]
      BY <1>3, SMT
    <3>2. CASE q = <<>>
      BY <1>1, <1>3, <3>1, <3>2, SMT
    <3>3. CASE q # <<>>
      <4>1. 1 \in 1 .. Len(q) /\ Head(q) = q[1]
        BY <1>3, <3>3, SMTT(30)
      <4> QED
        BY <1>1, <1>3, <3>1, <3>3, <4>1 DEF WaitsForSomething, q
    <3> QED
      BY <3>2, <3>3
  <2> QED
    BY <1>1, <1>5, <1>6, <2>1, <2>2 DEF WaitsForSomething
<1>11. QueueInv'
  <2>1. \A k \in 1 .. Len(idequeue') : k = Len(q) + 1 \/ k \in 1 .. Len(q)
    BY <1>3, SMTT(30)
  <2>2. ~valid[b] \/ dirty[b]
    BY <1>1 DEF WaitsForSomething, b
  <2>3. \A k \in 1 .. Len(idequeue') : \E r \in Proc : pc'[r] = "iowait" /\ buf'[r] = idequeue'[k]
    <3> SUFFICES ASSUME NEW k \in 1 .. Len(idequeue')
                 PROVE  \E r \in Proc : pc'[r] = "iowait" /\ buf'[r] = idequeue'[k]
      OBVIOUS
    <3>1. CASE k = Len(q) + 1
      BY <1>3, <1>6, <3>1 DEF b
    <3>2. CASE k \in 1 .. Len(q)
      BY <1>1, <1>3, <1>5, <1>6, <3>2, SMTT(30) DEF QueueInv, q
    <3> QED
      BY <2>1, <3>1, <3>2
  <2>4. \A j, k \in 1 .. Len(idequeue') : idequeue'[j] = idequeue'[k] => j = k
    BY <1>3, <1>4, <2>1, SMTT(30) DEF QueueInv, q
  <2> QED
    BY <1>1, <1>5, <1>6, <2>2, <2>3, <2>4, SMT DEF QueueInv, b
<1>12. ContentInv'
  BY <1>1, <1>5, <1>6, SMTT(30) DEF ContentInv
<1> QED
  BY <1>7, <1>8, <1>9, <1>10, <1>11, <1>12

(* iderw tests the flags after its sleep. *)
LEMMA IoTestInv ==
  ASSUME CacheInv, NEW p \in Proc, IoTest(p)
  PROVE  CacheInv'
<1>1. /\ pc[p] = "iotest" /\ valid[buf[p]] /\ ~dirty[buf[p]]
      /\ pc' = [pc EXCEPT ![p] = "have"]
      /\ UNCHANGED <<sector, busy, valid, dirty, data, lru, idequeue, active, disk, want, buf,
                     changed>>
  BY DEF IoTest, Goto, flags, CacheInv, QueueInv
<1> USE DEF CacheInv
<1>2. TypeOK'
  BY <1>1 DEF TypeOK, Places, Owning
<1>3. PlaceInv'
  BY <1>1 DEF TypeOK, PlaceInv, Owning
<1>4. OneOwner'
  BY <1>1, SMT DEF TypeOK, OneOwner, Owning
<1>5. WaitsForSomething'
  BY <1>1 DEF TypeOK, WaitsForSomething
<1>6. QueueInv'
  BY <1>1, SMT DEF TypeOK, QueueInv
<1>7. ContentInv'
  BY <1>1 DEF TypeOK, ContentInv
<1> QED
  BY <1>2, <1>3, <1>4, <1>5, <1>6, <1>7

(* ideintr finishes the first request: the buffer becomes B_VALID and clean,
   its owner wakes up, and the disk starts the next request.  The disk or the
   buffer has been given the content of the other. *)
(* What ideintr does for the request b of process p, which is asleep in iderw. *)
Completed(b, p, d, x) ==
  /\ idequeue' = Tail(idequeue) /\ disk' = d /\ UNCHANGED <<sector, busy, lru, want, buf, changed>>
  /\ active' = IF Tail(idequeue) = <<>> THEN NoBuf ELSE Head(Tail(idequeue))
  /\ Len(idequeue) \in Nat /\ Len(idequeue) > 0 /\ b = idequeue[1]
  /\ Tail(idequeue) \in Seq(Buf) /\ Len(Tail(idequeue)) = Len(idequeue) - 1
  /\ \A k \in 1 .. Len(Tail(idequeue)) : Tail(idequeue)[k] = idequeue[k + 1]
  /\ pc[p] = "iowait" /\ buf[p] = b
  /\ \A r \in Proc : pc[r] \in Owning /\ buf[r] = b => r = p
  /\ pc' \in [Proc -> Places] /\ pc'[p] = "iotest"
  /\ \A r \in Proc \ {p} :
       \/ buf[r] = b /\ pc[r] = "bwait" /\ pc'[r] = "bget"
       \/ ~(buf[r] = b /\ pc[r] = "bwait") /\ pc'[r] = pc[r]
  /\ sector[b] \in Sector
  /\ \/ dirty[b] /\ d = [disk EXCEPT ![sector[b]] = data[b]] /\ x = data[b]
     \/ ~dirty[b] /\ d = disk /\ x = disk[sector[b]]
  /\ \A r \in Proc : changed[r] => buf[r] # b
  /\ \A c \in Buf \ {b} : /\ valid'[c] = valid[c] /\ dirty'[c] = dirty[c]
                          /\ data'[c] = data[c]
  /\ valid'[b] /\ ~dirty'[b] /\ data'[b] = x

LEMMA CompleteOwners ==
  ASSUME CacheInv, NEW b \in Buf, NEW p \in Proc, NEW d, NEW x, Completed(b, p, d, x)
  PROVE  PlaceInv' /\ OneOwner'
<1>0. PlaceInv /\ OneOwner
  BY DEF CacheInv
<1>v. UNCHANGED <<sector, busy, lru, want, buf>>
  BY DEF Completed
<1>p. /\ pc[p] = "iowait" /\ pc'[p] = "iotest"
      /\ \A r \in Proc \ {p} : pc'[r] = pc[r] \/ (pc[r] = "bwait" /\ pc'[r] = "bget")
  BY DEF Completed
<1>f. valid'[b] /\ \A c \in Buf \ {b} : valid'[c] = valid[c]
  BY DEF Completed
<1>1. PlaceInv'
  BY <1>0, <1>v, <1>p DEF PlaceInv, Owning
<1>2. \A r \in Proc : pc'[r] \in Owning <=> pc[r] \in Owning
  BY <1>p DEF Owning
<1>3. \A r \in Proc : pc'[r] = "have" => pc[r] = "have" /\ buf[r] \in Buf
  BY <1>0, <1>p DEF PlaceInv, Owning
<1>4. \A r \in Proc : pc'[r] = "have" => valid'[buf'[r]]
  BY <1>0, <1>v, <1>f, <1>3, SMT DEF OneOwner
<1> QED
  BY <1>0, <1>v, <1>1, <1>2, <1>4 DEF OneOwner

LEMMA CompleteWaits ==
  ASSUME CacheInv, NEW b \in Buf, NEW p \in Proc, NEW d, NEW x, Completed(b, p, d, x)
  PROVE  WaitsForSomething'
<1>0. WaitsForSomething /\ PlaceInv
  BY DEF CacheInv
<1>v. /\ idequeue' = Tail(idequeue) /\ disk' = d /\ UNCHANGED <<sector, busy, lru, want, buf, changed>>
      /\ active' = IF Tail(idequeue) = <<>> THEN NoBuf ELSE Head(Tail(idequeue))
  BY DEF Completed
<1>t. /\ Len(idequeue) \in Nat /\ Len(idequeue) > 0 /\ b = idequeue[1]
      /\ Tail(idequeue) \in Seq(Buf) /\ Len(Tail(idequeue)) = Len(idequeue) - 1
      /\ \A k \in 1 .. Len(Tail(idequeue)) : Tail(idequeue)[k] = idequeue[k + 1]
  BY DEF Completed
<1>o. \A r \in Proc : pc[r] \in Owning /\ buf[r] = b => r = p
  BY DEF Completed
<1>p. /\ pc'[p] = "iotest"
      /\ \A r \in Proc \ {p} :
           \/ buf[r] = b /\ pc[r] = "bwait" /\ pc'[r] = "bget"
           \/ ~(buf[r] = b /\ pc[r] = "bwait") /\ pc'[r] = pc[r]
  BY DEF Completed
<1>f. /\ \A c \in Buf \ {b} : /\ valid'[c] = valid[c] /\ dirty'[c] = dirty[c]
                              /\ data'[c] = data[c]
      /\ valid'[b] /\ ~dirty'[b] /\ data'[b] = x
  BY ZenonT(30) DEF Completed
<1>1. \A r \in Proc : pc'[r] = "bwait" => busy'[buf'[r]]
  BY <1>0, <1>v, <1>p DEF WaitsForSomething
<1>2. ASSUME NEW r \in Proc, pc'[r] = "iowait"
      PROVE  \E k \in 1 .. Len(idequeue') : idequeue'[k] = buf'[r]
  <2>1. r # p /\ pc[r] = "iowait" /\ buf[r] # b
    BY <1>o, <1>p, <1>2 DEF Owning
  <2>2. PICK k \in 1 .. Len(idequeue) : idequeue[k] = buf[r]
    BY <1>0, <2>1 DEF WaitsForSomething
  <2>3. k # 1
    BY <1>t, <2>1, <2>2
  <2>4. k - 1 \in 1 .. Len(Tail(idequeue)) /\ (k - 1) + 1 = k
    BY <1>t, <2>3, SMT
  <2>5. Tail(idequeue)[k - 1] = idequeue[k]
    BY <1>t, <2>4
  <2> QED
    BY <1>v, <2>2, <2>4, <2>5
<1>3. ASSUME NEW r \in Proc, pc'[r] = "iderw"
      PROVE  ~valid'[buf'[r]] \/ dirty'[buf'[r]]
  <2>1. r # p /\ pc[r] = "iderw" /\ buf[r] # b /\ buf[r] \in Buf
    BY <1>0, <1>o, <1>p, <1>3 DEF Owning, PlaceInv
  <2> QED
    BY <1>0, <1>v, <1>f, <2>1 DEF WaitsForSomething
<1> QED
  BY <1>0, <1>v, <1>1, <1>2, <1>3 DEF WaitsForSomething

LEMMA CompleteQueue ==
  ASSUME CacheInv, NEW b \in Buf, NEW p \in Proc, NEW d, NEW x, Completed(b, p, d, x)
  PROVE  QueueInv'
<1>0. QueueInv /\ PlaceInv
  BY DEF CacheInv
<1>v. /\ idequeue' = Tail(idequeue) /\ disk' = d /\ UNCHANGED <<sector, busy, lru, want, buf, changed>>
      /\ active' = IF Tail(idequeue) = <<>> THEN NoBuf ELSE Head(Tail(idequeue))
  BY DEF Completed
<1>t. /\ Len(idequeue) \in Nat /\ Len(idequeue) > 0 /\ b = idequeue[1]
      /\ Tail(idequeue) \in Seq(Buf) /\ Len(Tail(idequeue)) = Len(idequeue) - 1
      /\ \A k \in 1 .. Len(Tail(idequeue)) : Tail(idequeue)[k] = idequeue[k + 1]
  BY DEF Completed
<1>i. pc[p] = "iowait" /\ buf[p] = b
  BY DEF Completed
<1>o. \A r \in Proc : pc[r] \in Owning /\ buf[r] = b => r = p
  BY DEF Completed
<1>p. /\ pc'[p] = "iotest"
      /\ \A r \in Proc \ {p} :
           \/ buf[r] = b /\ pc[r] = "bwait" /\ pc'[r] = "bget"
           \/ ~(buf[r] = b /\ pc[r] = "bwait") /\ pc'[r] = pc[r]
  BY DEF Completed
<1>f. /\ \A c \in Buf \ {b} : /\ valid'[c] = valid[c] /\ dirty'[c] = dirty[c]
                              /\ data'[c] = data[c]
      /\ valid'[b] /\ ~dirty'[b] /\ data'[b] = x
  BY DEF Completed
<1>1. ASSUME NEW k \in 1 .. Len(idequeue')
      PROVE  \E r \in Proc : pc'[r] = "iowait" /\ buf'[r] = idequeue'[k]
  <2>1. k + 1 \in 1 .. Len(idequeue) /\ k + 1 # 1 /\ 1 \in 1 .. Len(idequeue) /\ idequeue'[k] = idequeue[k + 1]
    BY <1>v, <1>t, SMT
  <2>2. PICK r \in Proc : pc[r] = "iowait" /\ buf[r] = idequeue[k + 1]
    BY <1>0, <2>1 DEF QueueInv
  <2>3. idequeue[k + 1] # b
    BY <1>0, <1>t, <2>1 DEF QueueInv
  <2>4. r # p /\ pc'[r] = "iowait"
    BY <1>i, <1>p, <2>2, <2>3
  <2> QED
    BY <1>v, <2>1, <2>2, <2>4, ZenonT(30)
<1>2. ASSUME NEW j \in 1 .. Len(idequeue'), NEW k \in 1 .. Len(idequeue'),
             idequeue'[j] = idequeue'[k]
      PROVE  j = k
  <2>1. /\ j + 1 \in 1 .. Len(idequeue) /\ k + 1 \in 1 .. Len(idequeue)
        /\ idequeue'[j] = idequeue[j + 1] /\ idequeue'[k] = idequeue[k + 1]
    BY <1>v, <1>t, SMT
  <2>2. \A m, n \in 1 .. Len(idequeue) : idequeue[m] = idequeue[n] => m = n
    BY <1>0 DEF QueueInv
  <2>3. j + 1 = k + 1
    BY <1>2, <2>1, <2>2
  <2> QED
    BY <1>t, <2>3, SMT
<1>3. ASSUME NEW r \in Proc, pc'[r] = "iowait"
      PROVE  ~valid'[buf'[r]] \/ dirty'[buf'[r]]
  <2>1. r # p /\ pc[r] = "iowait" /\ buf[r] # b /\ buf[r] \in Buf
    BY <1>0, <1>o, <1>p, <1>3 DEF Owning, PlaceInv
  <2> QED
    BY <1>0, <1>v, <1>f, <2>1 DEF QueueInv
<1>4. ASSUME NEW r \in Proc, pc'[r] = "iotest"
      PROVE  valid'[buf'[r]] /\ ~dirty'[buf'[r]]
  <2>1. CASE r = p
    BY <1>v, <1>i, <1>f, <2>1
  <2>2. CASE r # p
    <3>1. pc[r] = "iotest" /\ buf[r] # b /\ buf[r] \in Buf
      BY <1>0, <1>o, <1>p, <1>4, <2>2 DEF Owning, PlaceInv
    <3> QED
      BY <1>0, <1>v, <1>f, <3>1 DEF QueueInv
  <2> QED
    BY <2>1, <2>2
<1> QED
  BY <1>0, <1>1, <1>2, <1>3, <1>4 DEF QueueInv

LEMMA CompleteContent ==
  ASSUME CacheInv, NEW b \in Buf, NEW p \in Proc, NEW d, NEW x, Completed(b, p, d, x)
  PROVE  ContentInv'
<1>0. ContentInv /\ OneOwner /\ TypeOK
  BY DEF CacheInv
<1>v. /\ idequeue' = Tail(idequeue) /\ disk' = d /\ UNCHANGED <<sector, busy, lru, want, buf, changed>>
      /\ active' = IF Tail(idequeue) = <<>> THEN NoBuf ELSE Head(Tail(idequeue))
  BY DEF Completed
<1>i. pc[p] = "iowait" /\ buf[p] = b
  BY DEF Completed
<1>p. /\ pc'[p] = "iotest"
      /\ \A r \in Proc \ {p} :
           \/ buf[r] = b /\ pc[r] = "bwait" /\ pc'[r] = "bget"
           \/ ~(buf[r] = b /\ pc[r] = "bwait") /\ pc'[r] = pc[r]
  BY DEF Completed
<1>s. sector[b] \in Sector
  BY DEF Completed
<1>d. \/ dirty[b] /\ d = [disk EXCEPT ![sector[b]] = data[b]] /\ x = data[b]
      \/ ~dirty[b] /\ d = disk /\ x = disk[sector[b]]
  BY DEF Completed
<1>c. \A r \in Proc : changed[r] => buf[r] # b
  BY DEF Completed
<1>f. /\ \A c \in Buf \ {b} : /\ valid'[c] = valid[c] /\ dirty'[c] = dirty[c]
                              /\ data'[c] = data[c]
      /\ valid'[b] /\ ~dirty'[b] /\ data'[b] = x
  BY DEF Completed
<1>1. \A c \in Buf : valid'[c] => sector'[c] \in Sector
  BY <1>0, <1>v, <1>s, <1>f DEF ContentInv
<1>2. \A c \in Buf : dirty'[c] => valid'[c]
  BY <1>0, <1>f DEF ContentInv
<1>3. x = d[sector[b]]
  BY <1>0, <1>s, <1>d DEF TypeOK
<1>4. \A c \in Buf \ {b} : valid[c] => d[sector[c]] = disk[sector[c]]
  <2> SUFFICES ASSUME NEW c \in Buf \ {b}, valid[c]
               PROVE  d[sector[c]] = disk[sector[c]]
    OBVIOUS
  <2>1. sector[c] \in Sector /\ sector[c] # sector[b]
    BY <1>0, <1>s, CacheAssumption, ZenonT(30) DEF ContentInv, OneOwner
  <2> QED
    BY <1>0, <1>s, <1>d, <2>1 DEF TypeOK
<1>5. ASSUME NEW c \in Buf, valid'[c], ~dirty'[c]
      PROVE  data'[c] = disk'[sector'[c]] \/ \E r \in Proc : buf'[r] = c /\ changed'[r]
  <2>1. CASE c = b
    BY <1>v, <1>f, <1>3, <2>1
  <2>2. CASE c # b
    BY <1>0, <1>v, <1>f, <1>4, <1>5, <2>2, SMT DEF ContentInv
  <2> QED
    BY <2>1, <2>2
<1>6. \A r \in Proc : changed'[r] => pc'[r] = "have"
  BY <1>0, <1>v, <1>p, <1>c, <1>i DEF ContentInv
<1> QED
  BY <1>0, <1>1, <1>2, <1>5, <1>6, ZenonT(30) DEF ContentInv

LEMMA CompleteInv ==
  ASSUME CacheInv, NEW b \in Buf, NEW d, NEW x, Complete(b, d, x),
         \/ dirty[b] /\ d = [disk EXCEPT ![sector[b]] = data[b]] /\ x = data[b]
         \/ ~dirty[b] /\ d = disk /\ x = disk[sector[b]]
  PROVE  CacheInv'
<1> DEFINE q == idequeue
<1>1. /\ active # NoBuf /\ b = Head(q)
      /\ idequeue' = Tail(q)
      /\ active' = IF Tail(q) = <<>> THEN NoBuf ELSE Head(Tail(q))
      /\ disk' = d
      /\ data' = [data EXCEPT ![b] = x]
      /\ valid' = [valid EXCEPT ![b] = TRUE]
      /\ dirty' = [dirty EXCEPT ![b] = FALSE]
      /\ pc' = Wakeup(b)
      /\ UNCHANGED <<sector, busy, lru, want, buf, changed>>
  BY DEF Complete
<1>2. q \in Seq(Buf) /\ q # <<>>
  BY <1>1 DEF CacheInv, TypeOK, WaitsForSomething
<1>3. /\ Len(q) \in Nat /\ Len(q) > 0 /\ b = q[1]
      /\ Tail(q) \in Seq(Buf) /\ Len(Tail(q)) = Len(q) - 1
      /\ \A k \in 1 .. Len(Tail(q)) : Tail(q)[k] = q[k + 1]
  BY <1>1, <1>2, SMT
<1>4. PICK p \in Proc : pc[p] = "iowait" /\ buf[p] = b
  <2>1. 1 \in 1 .. Len(q)
    BY <1>3, SMT
  <2> QED
    BY <1>3, <2>1 DEF CacheInv, QueueInv
<1>5. \A r \in Proc : pc[r] \in Owning /\ buf[r] = b => r = p
  BY <1>4, ZenonT(30) DEF CacheInv, OneOwner, Owning
<1>6. /\ pc' \in [Proc -> Places] /\ pc'[p] = "iotest"
      /\ \A r \in Proc \ {p} :
           \/ buf[r] = b /\ pc[r] = "bwait" /\ pc'[r] = "bget"
           \/ ~(buf[r] = b /\ pc[r] = "bwait") /\ pc'[r] = pc[r]
  BY <1>1, <1>4, <1>5, WakeupPlaces, SMTT(30) DEF CacheInv, Owning
<1>7. sector[b] = want[p] /\ sector[b] \in Sector
  BY <1>4 DEF CacheInv, OneOwner, PlaceInv, Owning
<1>8. d \in [Sector -> Val] /\ x \in Val
  BY <1>7, SMT DEF CacheInv, TypeOK
<1>9. \A r \in Proc : changed[r] => buf[r] # b
  <2>1. \A r \in Proc : changed[r] => pc[r] = "have"
    BY DEF CacheInv, ContentInv
  <2> QED
    BY <1>4, <1>5, <2>1, ZenonT(30) DEF Owning
<1>10. TypeOK'
  BY <1>1, <1>3, <1>6, <1>8, ZenonT(30) DEF CacheInv, TypeOK
<1>11. /\ \A c \in Buf \ {b} : /\ valid'[c] = valid[c] /\ dirty'[c] = dirty[c]
                               /\ data'[c] = data[c]
       /\ valid'[b] /\ ~dirty'[b] /\ data'[b] = x
  BY <1>1, ZenonT(30) DEF CacheInv, TypeOK
<1> HIDE DEF q
<1>12. Completed(b, p, d, x)
  BY <1>1, <1>3, <1>4, <1>5, <1>6, <1>7, <1>9, <1>11 DEF Completed, q
<1>13. PlaceInv' /\ OneOwner' /\ WaitsForSomething' /\ QueueInv' /\ ContentInv'
  BY <1>12, CompleteOwners, CompleteWaits, CompleteQueue, CompleteContent
<1> QED
  BY <1>10, <1>13 DEF CacheInv

LEMMA IdeintrInv ==
  ASSUME CacheInv, Ideintr
  PROVE  CacheInv'
<1>1. PICK b \in Buf :
        IF dirty[b] THEN Complete(b, [disk EXCEPT ![sector[b]] = data[b]], data[b])
                    ELSE Complete(b, disk, disk[sector[b]])
  BY DEF Ideintr
<1>2. CASE dirty[b]
  BY <1>1, <1>2, CompleteInv
<1>3. CASE ~dirty[b]
  BY <1>1, <1>3, CompleteInv
<1> QED
  BY <1>2, <1>3

(* A step that changes none of the variables the invariant speaks of. *)
LEMMA StutterInv ==
  ASSUME CacheInv,
         UNCHANGED <<sector, busy, valid, dirty, data, lru, idequeue, active, disk, pc, want,
                     buf, changed>>
  PROVE  CacheInv'
<1>1. TypeOK'
  BY DEF CacheInv, TypeOK
<1>2. PlaceInv'
  BY DEF CacheInv, PlaceInv
<1>4. OneOwner'
  BY ZenonT(30) DEF CacheInv, OneOwner
<1>3. WaitsForSomething' /\ QueueInv' /\ ContentInv'
  BY SMT DEF CacheInv, WaitsForSomething, QueueInv, ContentInv
<1> QED
  BY <1>1, <1>2, <1>3, <1>4 DEF CacheInv

(* binit and ideinit establish the invariant. *)
LEMMA InitInv == Init => CacheInv
<1> SUFFICES ASSUME Init PROVE CacheInv
  OBVIOUS
<1>1. TypeOK
  <2>1. lru \in [Buf -> Buf]
    BY CacheAssumption, SMT DEF Init, Buf
  <2> QED
    BY <2>1, SMT DEF Init, TypeOK, Places, Owning
<1>2. PlaceInv
  <2>1. \A b \in Buf : NBUF + 1 - b \in Buf /\ NBUF + 1 - (NBUF + 1 - b) = b
    BY CacheAssumption, SMT DEF Buf
  <2>2. \A b \in Buf : \E k \in Buf : lru[k] = b
    BY <2>1 DEF Init
  <2> QED
    BY <2>2 DEF Init, PlaceInv, Owning
<1>3. OneOwner
  BY DEF Init, OneOwner, Owning
<1>4. WaitsForSomething
  BY DEF Init, WaitsForSomething
<1>5. QueueInv
  BY SMT DEF Init, QueueInv
<1>6. ContentInv
  BY DEF Init, ContentInv
<1> QED
  BY <1>1, <1>2, <1>3, <1>4, <1>5, <1>6 DEF CacheInv

(* Every step of bget, bread, bwrite, brelse, iderw and ideintr preserves it. *)
LEMMA NextInv == CacheInv /\ [Next]_vars => CacheInv'
<1> SUFFICES ASSUME CacheInv, [Next]_vars PROVE CacheInv'
  OBVIOUS
<1>1. CASE Ideintr
  BY <1>1, IdeintrInv
<1>2. CASE \E p \in Proc : Step(p)
  <2>1. PICK p \in Proc : Step(p)
    BY <1>2
  <2>2. CASE BgetPanic(p)
    <3>1. UNCHANGED <<sector, busy, valid, dirty, data, lru, idequeue, active, disk, pc, want,
                      buf, changed>>
      BY <2>2 DEF BgetPanic, flags
    <3> QED
      BY <3>1, StutterInv, SMTT(30)
  <2> QED
    BY <2>1, <2>2, BgetHitInv, BgetSleepInv, BgetRecycleInv, BreadValidInv, IderwInv,
       IoTestInv, BwriteInv, PinInv, BrelseInv, BreadInv, ModifyInv
       DEF Step, Continue
<1>3. CASE UNCHANGED vars
  BY <1>3, StutterInv DEF vars, flags
<1> QED
  BY <1>1, <1>2, <1>3 DEF Next

(* The inductive invariant of bio.c and ide.c. *)
THEOREM CacheInvariant == Spec => []CacheInv
BY InitInv, NextInv, PTL DEF Spec

(* A sector has one buffer, a B_BUSY buffer one owner, and bread returns the
   block that was asked for. *)
THEOREM OneOwnerHolds == Spec => []OneOwner
<1>1. CacheInv => OneOwner
  BY DEF CacheInv
<1> QED
  BY <1>1, CacheInvariant, PTL

(* Whoever sleeps in bget or iderw sleeps on something that will happen. *)
THEOREM WaitsForSomethingHolds == Spec => []WaitsForSomething
<1>1. CacheInv => WaitsForSomething
  BY DEF CacheInv
<1> QED
  BY <1>1, CacheInvariant, PTL

-----------------------------------------------------------------------------
(* The buffers somebody writes. *)
Writing(q) == pc[q] \in {"iderw", "iowait"}

LEMMA PinnedFinite == IsFiniteSet(Buf) /\ Cardinality(Buf) = NBUF /\ IsFiniteSet(Pinned)
<1>1. 1 \in Int /\ NBUF \in Int /\ NBUF \in Nat /\ NBUF > 0
  BY CacheAssumption, SMT
<1>2. IsFiniteSet(Buf) /\ Cardinality(Buf) = NBUF
  <2>1. /\ IsFiniteSet(1 .. NBUF)
        /\ Cardinality(1 .. NBUF) = IF 1 > NBUF THEN 0 ELSE NBUF - 1 + 1
    BY <1>1, FS_Interval
  <2> QED
    BY <1>1, <2>1, SMT DEF Buf
<1>3. Pinned \in SUBSET Buf
  BY SMTT(30) DEF Pinned
<1> QED
  BY <1>2, <1>3, FS_Subset

(* A step that makes no buffer B_DIRTY but one it writes, and ends no write
   but by completing it, pins no buffer. *)
LEMMA NoNewPin ==
  ASSUME PinBound,
         \A b \in Buf : dirty'[b] => dirty[b] \/ \E q \in Proc : Writing(q)' /\ buf'[q] = b,
         \A q \in Proc, b \in Buf : Writing(q) /\ buf[q] = b /\ dirty'[b]
                                      => Writing(q)' /\ buf'[q] = b
  PROVE  PinBound'
<1>1. Pinned' \in SUBSET Pinned
  <2> SUFFICES ASSUME NEW b \in Pinned' PROVE b \in Pinned
    OBVIOUS
  <2>1. b \in Buf /\ dirty'[b] /\ \A q \in Proc : Writing(q)' => buf'[q] # b
    BY DEF Pinned, Writing
  <2>2. dirty[b] /\ \A q \in Proc : Writing(q) => buf[q] # b
    BY <2>1
  <2> QED
    BY <2>1, <2>2, SMTT(30) DEF Pinned, Writing
<1>2. IsFiniteSet(Pinned)
  BY PinnedFinite
<1>3. Cardinality(Pinned') <= Cardinality(Pinned) /\ IsFiniteSet(Pinned')
  BY <1>1, <1>2, FS_Subset
<1>4. Cardinality(Pinned') \in Nat /\ Cardinality(Pinned) \in Nat
  BY <1>2, <1>3, FS_CardinalityType
<1> QED
  BY <1>3, <1>4, CacheAssumption, SMTT(30) DEF PinBound

(* log_write pins one more, if there are fewer than MaxPin. *)
LEMMA PinPins ==
  ASSUME CacheInv, NEW p \in Proc, Pin(p)
  PROVE  PinBound'
<1> DEFINE D == {b \in Buf : dirty[b]}
<1>1. Cardinality(D) < MaxPin /\ dirty' = [dirty EXCEPT ![buf[p]] = TRUE]
  BY SMTT(30) DEF Pin
<1>2. Pinned' \in SUBSET (D \cup {buf[p]})
  BY <1>1 DEF Pinned, CacheInv, TypeOK
<1>3. D \in SUBSET Buf
  OBVIOUS
<1> HIDE DEF D
<1>4. IsFiniteSet(D)
  BY <1>3, PinnedFinite, FS_Subset
<1>5. /\ IsFiniteSet(D \cup {buf[p]})
      /\ Cardinality(D \cup {buf[p]}) = IF buf[p] \in D THEN Cardinality(D) ELSE Cardinality(D) + 1
  BY <1>4, FS_AddElement
<1>6. Cardinality(Pinned') <= Cardinality(D \cup {buf[p]}) /\ IsFiniteSet(Pinned')
  BY <1>2, <1>5, FS_Subset
<1>7. Cardinality(Pinned') \in Nat /\ Cardinality(D) \in Nat
  BY <1>4, <1>6, FS_CardinalityType
<1> QED
  BY <1>1, <1>5, <1>6, <1>7, CacheAssumption, SMT DEF PinBound

(* ideintr ends the write of the buffer it cleans. *)
LEMMA CompletePins ==
  ASSUME CacheInv, PinBound, NEW b \in Buf, NEW d, NEW x, Complete(b, d, x)
  PROVE  PinBound'
<1>1. dirty' = [dirty EXCEPT ![b] = FALSE] /\ pc' = Wakeup(b) /\ buf' = buf
  BY DEF Complete
<1>2. \A c \in Buf : dirty'[c] => dirty[c] /\ c # b
  BY <1>1, SMTT(30) DEF CacheInv, TypeOK
<1>3. \A q \in Proc : buf[q] # b => pc'[q] = pc[q]
  BY <1>1, WakeupPlaces DEF CacheInv
<1> QED
  BY <1>1, <1>2, <1>3, NoNewPin DEF Writing

LEMMA StepPins ==
  ASSUME CacheInv, PinBound, NEW p \in Proc, Step(p)
  PROVE  PinBound'
<1> USE DEF CacheInv
<1>1. CASE Pin(p)
  BY <1>1, PinPins
<1>2. CASE Bwrite(p)
  <2>1. /\ pc[p] = "have" /\ pc' = [pc EXCEPT ![p] = "iderw"]
        /\ dirty' = [dirty EXCEPT ![buf[p]] = TRUE] /\ buf' = buf
    BY <1>2 DEF Bwrite, Goto
  <2>2. \A c \in Buf : dirty'[c] => dirty[c] \/ \E q \in Proc : Writing(q)' /\ buf'[q] = c
    BY <2>1 DEF Writing, TypeOK
  <2>3. \A q \in Proc : Writing(q) => Writing(q)'
    BY <2>1 DEF Writing, TypeOK
  <2> QED
    BY <2>1, <2>2, <2>3, NoNewPin
<1>3. CASE Brelse(p)
  <2>1. /\ pc[p] = "have" /\ pc' = [Wakeup(buf[p]) EXCEPT ![p] = "idle"]
        /\ dirty' = dirty /\ buf' = [buf EXCEPT ![p] = NoBuf]
    BY <1>3 DEF Brelse
  <2>2. \A q \in Proc : Writing(q) => q # p /\ (buf[q] = buf[p] => FALSE)
    BY <2>1 DEF Writing, OneOwner, Owning
  <2>3. \A q \in Proc : Writing(q) => Writing(q)' /\ buf'[q] = buf[q]
    BY <2>1, <2>2, WakeupPlaces DEF Writing, TypeOK
  <2> QED
    BY <2>1, <2>3, NoNewPin
<1>4. ASSUME dirty' = dirty, \A q \in Proc : Writing(q) => Writing(q)' /\ buf'[q] = buf[q]
      PROVE  PinBound'
  BY <1>4, NoNewPin, ZenonT(30)
<1>5. CASE Iderw(p) \/ IoTest(p) \/ BreadValid(p)
  BY <1>4, <1>5, SMTT(30) DEF Iderw, IoTest, BreadValid, Goto, flags, Writing, TypeOK
<1>6. CASE BgetHit(p) \/ BgetSleep(p) \/ BgetRecycle(p)
  BY <1>4, <1>6, ZenonT(30) DEF BgetHit, BgetSleep, BgetRecycle, Goto, flags, Writing, TypeOK
<1>7. CASE BgetPanic(p) \/ (\E s \in Sector : Bread(p, s)) \/ (\E v \in Val : Modify(p, v))
  BY <1>4, <1>7 DEF BgetPanic, Bread, Modify, Goto, flags, Writing, TypeOK
<1> QED
  BY <1>1, <1>2, <1>3, <1>5, <1>6, <1>7 DEF Step, Continue

(* The log never pins more buffers than it may. *)
LEMMA PinInvariant == Spec => []PinBound
<1>1. Init => PinBound
  <2> SUFFICES ASSUME Init PROVE PinBound
    OBVIOUS
  <2>1. Pinned = {}
    BY DEF Init, Pinned
  <2> QED
    BY <2>1, FS_EmptySet, CacheAssumption, SMT DEF PinBound
<1>2. CacheInv /\ PinBound /\ [Next]_vars => PinBound'
  <2> SUFFICES ASSUME CacheInv, PinBound, [Next]_vars PROVE PinBound'
    OBVIOUS
  <2>1. CASE Ideintr
    BY <2>1, CompletePins DEF Ideintr
  <2>2. CASE \E p \in Proc : Step(p)
    BY <2>2, StepPins, SMTT(30)
  <2>3. CASE UNCHANGED vars
    BY <2>3 DEF vars, flags, PinBound, Pinned
  <2> QED
    BY <2>1, <2>2, <2>3 DEF Next
<1> QED
  BY <1>1, <1>2, CacheInvariant, PTL DEF Spec

(* A process in bget owns no buffer, so with MaxPin buffers pinned and every
   other process owning one there is a buffer left. *)
LEMMA SomeFree ==
  ASSUME CacheInv, PinBound, NEW p \in Proc, pc[p] = "bget",
         MaxPin + Cardinality(Proc) <= NBUF
  PROVE  Recyclable # {}
<1> SUFFICES ASSUME Recyclable = {} PROVE FALSE
  BY SMTT(30)
<1> DEFINE Others == Proc \ {p}
           Owners == {q \in Proc : pc[q] \in Owning}
           Taken  == {b \in Buf : busy[b]}
           f      == [q \in Owners |-> buf[q]]
<1>1. /\ IsFiniteSet(Proc) /\ Cardinality(Proc) \in Nat
      /\ IsFiniteSet(Others) /\ Cardinality(Others) = Cardinality(Proc) - 1
  BY CacheAssumption, FS_CardinalityType, FS_RemoveElement
<1>2. Owners \in SUBSET Others
  BY DEF Owning
<1>3. f \in Surjection(Owners, Taken)
  BY DEF Surjection, CacheInv, OneOwner, PlaceInv
<1>4. Buf \subseteq Taken \cup Pinned
  <2> SUFFICES ASSUME NEW b \in Buf, ~busy[b] PROVE b \in Pinned
    OBVIOUS
  <2>1. dirty[b]
    BY DEF Recyclable
  <2>2. \A q \in Proc : pc[q] \in {"iderw", "iowait"} => buf[q] # b
    BY DEF CacheInv, OneOwner, Owning
  <2> QED
    BY <2>1, <2>2 DEF Pinned
<1> HIDE DEF Others, Owners, Taken, f
<1>5. IsFiniteSet(Owners) /\ Cardinality(Owners) <= Cardinality(Others)
  BY <1>1, <1>2, FS_Subset
<1>6. IsFiniteSet(Taken) /\ Cardinality(Taken) <= Cardinality(Owners)
  BY <1>3, <1>5, FS_Surjection
<1>7. IsFiniteSet(Pinned) /\ IsFiniteSet(Buf) /\ Cardinality(Buf) = NBUF
  BY PinnedFinite
<1>8. /\ IsFiniteSet(Taken \cup Pinned)
      /\ Cardinality(Taken \cup Pinned)
           = Cardinality(Taken) + Cardinality(Pinned) - Cardinality(Taken \cap Pinned)
  BY <1>6, <1>7, FS_Union
<1>9. Cardinality(Buf) <= Cardinality(Taken \cup Pinned)
  BY <1>4, <1>8, FS_Subset
<1>10. IsFiniteSet(Taken \cap Pinned)
  <2>1. Taken \cap Pinned \in SUBSET Taken
    OBVIOUS
  <2> QED
    BY <1>6, <2>1, FS_Subset
<1>11. /\ Cardinality(Owners) \in Nat /\ Cardinality(Taken) \in Nat
       /\ Cardinality(Pinned) \in Nat /\ Cardinality(Taken \cap Pinned) \in Nat
  BY <1>5, <1>6, <1>7, <1>10, FS_CardinalityType
<1> QED
  BY <1>1, <1>5, <1>6, <1>7, <1>8, <1>9, <1>11, CacheAssumption, SMT DEF PinBound

(* With a buffer for every process beside the log's, bget does not panic. *)
THEOREM BuffersSufficeHolds == Spec => []BuffersSuffice
<1>1. CacheInv /\ PinBound => BuffersSuffice
  BY SomeFree DEF BuffersSuffice
<1> QED
  BY <1>1, CacheInvariant, PinInvariant, PTL

-----------------------------------------------------------------------------
(* How BlockStore's view of a sector follows from the buffers. *)
Seen ==
  /\ \A p \in Proc : pc[p] \in Owning => HolderOf(want[p]) = p
  /\ \A s \in Sector : (\A p \in Proc : pc[p] \in Owning => want[p] # s) => HolderOf(s) = NoProc
  /\ \A b \in Buf : valid[b] => ContentOf(sector[b]) = data[b]
  /\ \A s \in Sector : (\A b \in Buf : sector[b] = s => ~valid[b]) => ContentOf(s) = disk[s]

SameContent == \A s \in Sector : ContentOf(s)' = ContentOf(s)
SameHolder  == \A s \in Sector : HolderOf(s)' = HolderOf(s)

LEMMA SeenHolds == CacheInv => Seen
<1> SUFFICES ASSUME CacheInv PROVE Seen
  OBVIOUS
<1> DEFINE hs(s) == {p \in Proc : pc[p] \in Owning /\ want[p] = s}
<1>1. ASSUME NEW p \in Proc, pc[p] \in Owning PROVE HolderOf(want[p]) = p
  <2>1. \A q \in Proc : pc[q] \in Owning /\ want[q] = want[p] => q = p
    BY <1>1, CacheAssumption, SMT DEF CacheInv, OneOwner, PlaceInv, Owning
  <2>2. hs(want[p]) = {p}
    BY <1>1, <2>1
  <2> QED
    BY <2>2 DEF HolderOf
<1>2. ASSUME NEW s \in Sector, \A p \in Proc : pc[p] \in Owning => want[p] # s
      PROVE  HolderOf(s) = NoProc
  <2>1. hs(s) = {}
    BY <1>2
  <2> QED
    BY <2>1 DEF HolderOf
<1>3. ASSUME NEW b \in Buf, valid[b] PROVE ContentOf(sector[b]) = data[b]
  <2>1. b \in Cached(sector[b])
    BY DEF Cached
  <2>2. \A c \in Cached(sector[b]) : c = b
    BY <1>3, CacheAssumption, SMT DEF Cached, CacheInv, OneOwner, ContentInv
  <2>3. (CHOOSE c \in Cached(sector[b]) : valid[c]) = b
    BY <1>3, <2>1, <2>2
  <2> QED
    BY <1>3, <2>1, <2>3 DEF ContentOf
<1>4. \A s \in Sector : (\A b \in Buf : sector[b] = s => ~valid[b]) => ContentOf(s) = disk[s]
  BY DEF ContentOf, Cached
<1> QED
  BY <1>1, <1>2, <1>3, <1>4 DEF Seen

LEMMA SeenNext == CacheInv' => Seen'
BY SeenHolds, PTL

LEMMA HolderKeeps ==
  ASSUME CacheInv, CacheInv',
         \A q \in Proc : pc'[q] \in Owning <=> pc[q] \in Owning,
         \A q \in Proc : pc[q] \in Owning => want'[q] = want[q]
  PROVE  SameHolder
<1>1. Seen /\ Seen'
  BY SeenHolds, SeenNext
<1> SUFFICES ASSUME NEW s \in Sector PROVE HolderOf(s)' = HolderOf(s)
  BY DEF SameHolder
<1>2. CASE \E q \in Proc : pc[q] \in Owning /\ want[q] = s
  BY <1>1, <1>2, SMT DEF Seen
<1>3. CASE \A q \in Proc : pc[q] \in Owning => want[q] # s
  BY <1>1, <1>3 DEF Seen
<1> QED
  BY <1>2, <1>3

LEMMA ContentKeeps ==
  ASSUME UNCHANGED <<sector, valid, data, disk>>
  PROVE  SameContent
BY DEF SameContent, ContentOf, Cached

LEMMA Stays ==
  ASSUME SameContent, SameHolder
  PROVE  [BS!BNext]_<<[s \in Sector |-> ContentOf(s)], [s \in Sector |-> HolderOf(s)]>>
BY DEF SameContent, SameHolder

(* A process that gets a buffer for a free sector takes the sector. *)
LEMMA Takes ==
  ASSUME CacheInv, CacheInv', SameContent, NEW p \in Proc, want' = want,
         pc[p] \notin Owning, pc'[p] \in Owning,
         \A q \in Proc \ {p} : pc'[q] = pc[q],
         \A q \in Proc : pc[q] \in Owning => want[q] # want[p],
         want[p] \in Sector
  PROVE  BS!BNext
<1> DEFINE s == want[p]
<1>1. Seen /\ Seen'
  BY SeenHolds, SeenNext
<1>2. HolderOf(s) = NoProc /\ HolderOf(s)' = p
  BY <1>1 DEF Seen
<1>3. \A t \in Sector \ {s} : HolderOf(t)' = HolderOf(t)
  <2> SUFFICES ASSUME NEW t \in Sector \ {s} PROVE HolderOf(t)' = HolderOf(t)
    OBVIOUS
  <2>1. CASE \E q \in Proc : pc[q] \in Owning /\ want[q] = t
    BY <1>1, <2>1, SMT DEF Seen
  <2>2. CASE \A q \in Proc : pc[q] \in Owning => want[q] # t
    BY <1>1, <2>2 DEF Seen
  <2> QED
    BY <2>1, <2>2
<1> DEFINE h == [t \in Sector |-> HolderOf(t)]
<1>a. h[s] = NoProc /\ h' = [h EXCEPT ![s] = p]
  BY <1>2, <1>3
<1>b. UNCHANGED [t \in Sector |-> ContentOf(t)]
  BY DEF SameContent
<1>4. BS!Take(p, s)
  BY <1>a, <1>b DEF BS!Take
<1> QED
  BY <1>4 DEF BS!BNext

BSvars == <<[s \in Sector |-> ContentOf(s)], [s \in Sector |-> HolderOf(s)]>>

(* bget takes the sector it was asked for. *)
LEMMA BgetTakes ==
  ASSUME CacheInv, CacheInv', NEW p \in Proc, BgetHit(p) \/ BgetRecycle(p)
  PROVE  BS!BNext
<1>1. /\ pc[p] = "bget" /\ pc' = [pc EXCEPT ![p] = "bread"] /\ want' = want
      /\ data' = data /\ disk' = disk
  BY DEF BgetHit, BgetRecycle, Goto
<1>2. /\ pc[p] \notin Owning /\ pc'[p] \in Owning
      /\ \A q \in Proc \ {p} : pc'[q] = pc[q]
      /\ want[p] \in Sector
  BY <1>1 DEF CacheInv, TypeOK, PlaceInv, Owning
<1>3. \A q \in Proc : pc[q] \in Owning => want[q] # want[p]
  <2>1. CASE BgetHit(p)
    <3>1. PICK b \in Buf : sector[b] = want[p] /\ ~busy[b]
      BY <2>1 DEF BgetHit, Cached
    <3>2. \A q \in Proc : pc[q] \in Owning =>
            buf[q] \in Buf /\ sector[buf[q]] = want[q] /\ busy[buf[q]]
      BY ZenonT(30) DEF CacheInv, OneOwner, PlaceInv
    <3>3. \A c \in Buf : sector[c] = sector[b] => c = b
      BY <1>2, <3>1, CacheAssumption, SMT DEF CacheInv, OneOwner
    <3>4. ASSUME NEW q \in Proc, pc[q] \in Owning, want[q] = want[p] PROVE FALSE
      <4>0. buf[q] \in Buf /\ sector[buf[q]] = sector[b]
        BY <3>1, <3>2, <3>4
      <4>1. buf[q] = b
        BY <3>3, <4>0
      <4> QED
        BY <3>1, <3>2, <3>4, <4>1
    <3> QED
      BY <3>4
  <2>2. CASE BgetRecycle(p)
    <3>1. \A b \in Buf : sector[b] # want[p]
      BY <2>2 DEF BgetRecycle, Cached
    <3>2. \A q \in Proc : pc[q] \in Owning => buf[q] \in Buf /\ sector[buf[q]] = want[q]
      BY ZenonT(30) DEF CacheInv, OneOwner, PlaceInv
    <3> QED
      BY <3>1, <3>2
  <2> QED
    BY <2>1, <2>2
<1>4. SameContent
  <2>1. CASE BgetHit(p)
    BY <2>1, ContentKeeps DEF BgetHit
  <2>2. CASE BgetRecycle(p)
    <3> DEFINE b == Oldest
    <3>1. b \in Buf /\ ~busy[b] /\ ~dirty[b]
      BY <2>2, OldestRecyclable DEF CacheInv, BgetRecycle, Recyclable
    <3>2. /\ \A c \in Buf : sector[c] # want[p]
          /\ sector' = [sector EXCEPT ![b] = want[p]]
          /\ valid' = [valid EXCEPT ![b] = FALSE]
      BY <2>2 DEF BgetRecycle, Cached
    <3> HIDE DEF b
    <3>3. ~valid'[b] /\ \A c \in Buf \ {b} : sector'[c] = sector[c] /\ valid'[c] = valid[c]
      BY <3>1, <3>2, ZenonT(30) DEF CacheInv, TypeOK
    <3>4. valid[b] => data[b] = disk[sector[b]]
      BY <3>1, SMT DEF CacheInv, ContentInv, OneOwner, Owning
    <3>5. Seen /\ Seen'
      BY SeenHolds, SeenNext
    <3> SUFFICES ASSUME NEW s \in Sector PROVE ContentOf(s)' = ContentOf(s)
      BY DEF SameContent
    <3>6. CASE \E c \in Buf \ {b} : sector[c] = s /\ valid[c]
      <4>1. PICK c \in Buf \ {b} : sector[c] = s /\ valid[c]
        BY <3>6
      <4>2. ContentOf(s) = data[c]
        BY <3>5, <4>1 DEF Seen
      <4>3. ContentOf(s)' = data'[c]
        BY <3>3, <3>5, <4>1 DEF Seen
      <4> QED
        BY <1>1, <4>2, <4>3
    <3>7. CASE \A c \in Buf \ {b} : sector[c] = s => ~valid[c]
      <4>1. ContentOf(s)' = disk[s]
        BY <1>1, <3>3, <3>5, <3>7 DEF Seen
      <4>2. ContentOf(s) = disk[s]
        BY <3>4, <3>5, <3>7 DEF Seen
      <4> QED
        BY <4>1, <4>2
    <3> QED
      BY <3>6, <3>7
  <2> QED
    BY <2>1, <2>2
<1> QED
  BY <1>1, <1>2, <1>3, <1>4, Takes

(* What the holder of a sector writes into b->data is its content. *)
LEMMA ModifyChanges ==
  ASSUME CacheInv, CacheInv', NEW p \in Proc, NEW v \in Val, Modify(p, v)
  PROVE  BS!BNext
<1> DEFINE c == [t \in Sector |-> ContentOf(t)]
<1>0. PICK s \in Sector : s = want[p]
  BY DEF Modify, CacheInv, PlaceInv
<1>1. /\ pc[p] = "have" /\ data' = [data EXCEPT ![buf[p]] = v]
      /\ UNCHANGED <<sector, valid, disk, pc, want>>
  BY DEF Modify, flags
<1>2. /\ pc[p] \in Owning /\ buf[p] \in Buf
      /\ sector[buf[p]] = s /\ valid[buf[p]]
  BY <1>0, <1>1, ZenonT(30) DEF CacheInv, PlaceInv, OneOwner, Owning
<1>3. /\ data'[buf[p]] = v
      /\ \A b \in Buf : sector[b] # s => data'[b] = data[b]
  BY <1>1, <1>2 DEF CacheInv, TypeOK
<1>4. Seen /\ Seen'
  BY SeenHolds, SeenNext, ZenonT(30)
<1>5. ContentOf(s)' = v /\ HolderOf(s) = p
  <2>1. ContentOf(s)' = v
    BY <1>1, <1>2, <1>3, <1>4, ZenonT(30) DEF Seen
  <2>2. HolderOf(s) = p
    BY <1>0, <1>2, <1>4 DEF Seen
  <2> QED
    BY <2>1, <2>2
<1>6. ASSUME NEW t \in Sector, t # s PROVE ContentOf(t)' = ContentOf(t)
  <2>1. CASE \E b \in Buf : sector[b] = t /\ valid[b]
    <3>1. PICK b \in Buf : sector[b] = t /\ valid[b]
      BY <2>1
    <3>2. ContentOf(t) = data[b]
      BY <1>4, <3>1 DEF Seen
    <3>3. ContentOf(t)' = data'[b]
      BY <1>1, <1>4, <3>1 DEF Seen
    <3> QED
      BY <1>3, <1>6, <3>1, <3>2, <3>3
  <2>2. CASE \A b \in Buf : sector[b] = t => ~valid[b]
    BY <1>1, <1>4, <2>2 DEF Seen
  <2> QED
    BY <2>1, <2>2
<1>7. SameHolder
  BY <1>1, HolderKeeps
<1>8. c' = [c EXCEPT ![s] = v] /\ UNCHANGED [t \in Sector |-> HolderOf(t)]
  BY <1>5, <1>6, <1>7 DEF SameHolder
<1>9. [t \in Sector |-> HolderOf(t)][s] # NoProc
  BY <1>2, <1>5, CacheAssumption
<1>10. BS!Change(s, v)
  BY <1>8, <1>9 DEF BS!Change
<1> QED
  BY <1>2, <1>10, ZenonT(30) DEF BS!BNext

(* brelse gives the sector up. *)
LEMMA BrelseReleases ==
  ASSUME CacheInv, CacheInv', NEW p \in Proc, Brelse(p)
  PROVE  BS!BNext
<1> DEFINE h == [t \in Sector |-> HolderOf(t)]
<1>0. PICK s \in Sector : s = want[p]
  BY DEF Brelse, CacheInv, PlaceInv
<1>1. /\ pc[p] = "have" /\ pc' = [Wakeup(buf[p]) EXCEPT ![p] = "idle"]
      /\ want' = [want EXCEPT ![p] = NoSector]
      /\ UNCHANGED <<sector, valid, data, disk>>
  BY DEF Brelse
<1>2. pc[p] \in Owning
  BY <1>1 DEF Owning
<1>3. /\ pc'[p] \notin Owning
      /\ \A q \in Proc \ {p} : want'[q] = want[q] /\ (pc'[q] \in Owning <=> pc[q] \in Owning)
  BY <1>1, WakeupPlaces, SMT DEF CacheInv, TypeOK, Owning
<1>4. Seen /\ Seen'
  BY SeenHolds, SeenNext
<1>5. HolderOf(s) = p
  BY <1>0, <1>2, <1>4 DEF Seen
<1>6. \A q \in Proc \ {p} : pc[q] \in Owning => want[q] # s
  BY <1>4, <1>5 DEF Seen
<1>7. HolderOf(s)' = NoProc
  BY <1>2, <1>3, <1>4, <1>6 DEF Seen
<1>8. ASSUME NEW t \in Sector, t # s PROVE HolderOf(t)' = HolderOf(t)
  <2>1. CASE \E q \in Proc : pc[q] \in Owning /\ want[q] = t
    <3>1. PICK q \in Proc : pc[q] \in Owning /\ want[q] = t
      BY <2>1
    <3>2. q # p /\ HolderOf(t) = q
      BY <1>0, <1>4, <1>8, <3>1 DEF Seen
    <3>3. HolderOf(t)' = q
      BY <1>3, <1>4, <3>1, <3>2 DEF Seen
    <3> QED
      BY <3>2, <3>3
  <2>2. CASE \A q \in Proc : pc[q] \in Owning => want[q] # t
    BY <1>3, <1>4, <2>2 DEF Seen
  <2> QED
    BY <2>1, <2>2, ZenonT(30)
<1>9. h[s] # NoProc /\ h' = [h EXCEPT ![s] = NoProc]
  BY <1>2, <1>5, <1>7, <1>8, CacheAssumption
<1>10. UNCHANGED [t \in Sector |-> ContentOf(t)]
  BY <1>1, ContentKeeps DEF SameContent
<1>11. BS!Release(s)
  BY <1>9, <1>10 DEF BS!Release
<1> QED
  BY <1>2, <1>11 DEF BS!BNext

(* The disk's answer changes no content: a write puts the buffer's content on
   the disk, a read fills a buffer that was not B_VALID with the disk's. *)
LEMMA CompleteStays ==
  ASSUME CacheInv, CacheInv', Ideintr
  PROVE  SameContent /\ SameHolder
<1>1. PICK b \in Buf :
        /\ idequeue # <<>> /\ b = Head(idequeue)
        /\ IF dirty[b]
           THEN disk' = [disk EXCEPT ![sector[b]] = data[b]] /\ data' = [data EXCEPT ![b] = data[b]]
           ELSE disk' = disk /\ data' = [data EXCEPT ![b] = disk[sector[b]]]
        /\ valid' = [valid EXCEPT ![b] = TRUE]
        /\ pc' = Wakeup(b)
        /\ UNCHANGED <<sector, want>>
  BY DEF Ideintr, Complete, CacheInv, WaitsForSomething
<1>t. valid \in [Buf -> BOOLEAN] /\ data \in [Buf -> Val] /\ disk \in [Sector -> Val]
  BY ZenonT(30) DEF CacheInv, TypeOK
<1>2. PICK p \in Proc : pc[p] = "iowait" /\ buf[p] = b
  BY <1>1, SMTT(30) DEF CacheInv, QueueInv, TypeOK
<1>3. sector[b] \in Sector /\ (dirty[b] \/ ~valid[b])
  BY <1>2, ZenonT(30) DEF CacheInv, OneOwner, PlaceInv, QueueInv, Owning
<1>4. Seen /\ Seen'
  BY SeenHolds, SeenNext
<1>5. \A q \in Proc : pc'[q] \in Owning <=> pc[q] \in Owning
  BY <1>1, WakeupPlaces, SMT DEF CacheInv, TypeOK, Owning
<1>6. SameHolder
  BY <1>1, <1>5, HolderKeeps
<1>7. \A c \in Buf : c # b => valid'[c] = valid[c] /\ data'[c] = data[c] /\ sector[c] # sector[b]
  <2>0. \A c, e \in Buf : sector[c] = sector[e] /\ sector[c] # NoSector => c = e
    BY DEF CacheInv, OneOwner
  <2>1. \A c \in Buf : c # b => sector[c] # sector[b]
    BY <1>3, <2>0, CacheAssumption
  <2>2. \A c \in Buf : c # b => valid'[c] = valid[c] /\ data'[c] = data[c]
    BY <1>1, <1>t
  <2> QED
    BY <2>1, <2>2
<1>8. \A t \in Sector : t # sector[b] => disk'[t] = disk[t]
  BY <1>1, <1>3, <1>t
<1>9. ContentOf(sector[b])' = data'[b]
  BY <1>1, <1>4, ZenonT(30) DEF Seen, CacheInv, TypeOK
<1>10. data'[b] = ContentOf(sector[b])
  <2>1. CASE valid[b]
    <3>1. ContentOf(sector[b]) = data[b]
      BY <1>3, <1>4, <2>1 DEF Seen
    <3>2. data'[b] = data[b]
      BY <1>1, <1>3, <1>t, <2>1
    <3> QED
      BY <3>1, <3>2
  <2>2. CASE ~valid[b]
    <3>1. ~dirty[b]
      BY <1>2, <2>2 DEF CacheInv, ContentInv
    <3>2. \A c \in Buf : sector[c] = sector[b] => ~valid[c]
      BY <1>7, <2>2
    <3>3. ContentOf(sector[b]) = disk[sector[b]]
      BY <1>3, <1>4, <3>2 DEF Seen
    <3> QED
      BY <1>1, <3>1, <3>3, ZenonT(30) DEF CacheInv, TypeOK
  <2> QED
    BY <2>1, <2>2, SMTT(30)
<1>11. SameContent
  <2> SUFFICES ASSUME NEW t \in Sector PROVE ContentOf(t)' = ContentOf(t)
    BY DEF SameContent
  <2>1. CASE t = sector[b]
    BY <1>1, <1>9, <1>10, <2>1
  <2>2. CASE t # sector[b] /\ \E c \in Buf : sector[c] = t /\ valid[c]
    <3>1. PICK c \in Buf : sector[c] = t /\ valid[c]
      BY <2>2
    <3>2. c # b /\ sector'[c] = t /\ valid'[c] /\ data'[c] = data[c]
      BY <1>1, <1>7, <2>2, <3>1
    <3> QED
      BY <1>4, <3>1, <3>2 DEF Seen
  <2>3. CASE t # sector[b] /\ \A c \in Buf : sector[c] = t => ~valid[c]
    <3>1. \A c \in Buf : sector'[c] = t => ~valid'[c]
      BY <1>1, <1>7, <2>3
    <3> QED
      BY <1>4, <1>8, <2>3, <3>1 DEF Seen
  <2> QED
    BY <2>1, <2>2, <2>3
<1> QED
  BY <1>6, <1>11

(* No other step is seen through BlockStore. *)
LEMMA OthersStay ==
  ASSUME CacheInv, CacheInv', NEW p \in Proc,
         \/ BgetSleep(p) \/ BgetPanic(p) \/ BreadValid(p) \/ Iderw(p) \/ IoTest(p)
         \/ Bwrite(p) \/ Pin(p) \/ \E s \in Sector : Bread(p, s)
  PROVE  SameContent /\ SameHolder
<1>1. UNCHANGED <<sector, valid, data, disk>>
  BY ZenonT(30) DEF BgetSleep, BgetPanic, BreadValid, Iderw, IoTest, Bwrite, Pin, Bread, flags
<1>2. \A q \in Proc : pc'[q] \in Owning <=> pc[q] \in Owning
  <2>1. pc \in [Proc -> Places]
    BY ZenonT(30) DEF CacheInv, TypeOK
  <2> QED
    BY <2>1 DEF BgetSleep, BgetPanic, BreadValid, Iderw, IoTest, Bwrite, Pin, Bread, Goto, Owning
<1>3. \A q \in Proc : pc[q] \in Owning => want'[q] = want[q]
  <2>1. want \in [Proc -> Sector \cup {NoSector}]
    BY DEF CacheInv, TypeOK
  <2> QED
    BY <2>1 DEF BgetSleep, BgetPanic, BreadValid, Iderw, IoTest, Bwrite, Pin, Bread, Owning
<1> QED
  BY <1>1, <1>2, <1>3, ContentKeeps, HolderKeeps

(* The cache implements BlockStore: whatever is recycled, queued or written
   back, a sector has one content, which only the process that holds it changes. *)
THEOREM CacheIsTransparent == Spec => Transparent
<1>1. Init => BS!BInit
  <2> SUFFICES ASSUME Init PROVE BS!BInit
    OBVIOUS
  <2>1. CacheInv
    BY InitInv
  <2>2. Seen
    BY <2>1, SeenHolds
  <2>3. \A s \in Sector : ContentOf(s) \in Val /\ HolderOf(s) = NoProc
    <3>1. \A q \in Proc : pc[q] \notin Owning
      BY DEF Init, Owning
    <3>2. \A b \in Buf : ~valid[b]
      BY DEF Init
    <3>3. disk \in [Sector -> Val]
      BY <2>1 DEF CacheInv, TypeOK
    <3> QED
      BY <2>2, <3>1, <3>2, <3>3 DEF Seen
  <2> QED
    BY <2>3 DEF BS!BInit
<1>2. ASSUME CacheInv, CacheInv', [Next]_vars
      PROVE  BS!BNext \/ (SameContent /\ SameHolder)
  <2>1. CASE Ideintr
    BY <1>2, <2>1, CompleteStays
  <2>2. ASSUME NEW p \in Proc, Step(p) PROVE BS!BNext \/ (SameContent /\ SameHolder)
    BY <1>2, <2>2, BgetTakes, ModifyChanges, BrelseReleases, OthersStay DEF Step, Continue
  <2>3. CASE UNCHANGED vars
    <3>1. UNCHANGED <<sector, valid, data, disk, pc, want>>
      BY <2>3 DEF vars, flags
    <3> QED
      BY <1>2, <3>1, ContentKeeps, HolderKeeps
  <2> QED
    BY <1>2, <2>1, <2>2, <2>3 DEF Next
<1>3. CacheInv /\ CacheInv' /\ [Next]_vars => [BS!BNext]_BSvars
  BY <1>2, Stays DEF BSvars
<1> QED
  BY <1>1, <1>3, CacheInvariant, PTL DEF Spec, Transparent, BS!BSpec, BSvars
=============================================================================
