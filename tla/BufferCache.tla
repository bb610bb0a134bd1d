---------------------------- MODULE BufferCache -----------------------------
(***************************************************************************)
(* kernel/bio.c over kernel/ide.c: a small cache of disk blocks, and the   *)
(* queue of requests the IDE interrupt works off.  bcache.lock and idelock *)
(* are held from one sleep to the next, so such a stretch is one step.     *)
(* bget and iderw sleep on the same channel, the buffer.                   *)
(***************************************************************************)
EXTENDS Naturals, Sequences, FiniteSets

CONSTANTS Proc, NoProc, Sector, NoSector, Val,
          NBUF,
          MaxPin     \* most buffers log_write keeps B_DIRTY at one time

ASSUME CacheAssumption ==
  /\ NoProc \notin Proc /\ IsFiniteSet(Proc) /\ NoSector \notin Sector
  /\ NBUF \in Nat \ {0} /\ MaxPin \in Nat

Buf == 1 .. NBUF
NoBuf == 0

VARIABLES
  sector, busy, valid, dirty, data,  \* struct buf
  lru,        \* the list from bcache.head.next on, most recently used first
  idequeue,
  active,     \* the buffer whose request the controller works on
  disk,
  pc,         \* per process: "idle", "bget", ..., "have" (holds a buffer)
  want, buf,  \* the sector asked for; the buffer held or waited for
  changed,    \* the process changed data it has not written or logged yet
  panicked

flags == <<busy, valid, dirty>>
vars == <<sector, flags, data, lru, idequeue, active, disk, pc, want, buf,
          changed, panicked>>

Init ==   \* after binit and ideinit
  /\ sector = [b \in Buf |-> NoSector]
  /\ busy = [b \in Buf |-> FALSE]
  /\ valid = [b \in Buf |-> FALSE]
  /\ dirty = [b \in Buf |-> FALSE]
  /\ \E v \in Val : data = [b \in Buf |-> v]
  /\ lru = [k \in Buf |-> NBUF + 1 - k]
  /\ idequeue = <<>>
  /\ active = NoBuf
  /\ disk \in [Sector -> Val]
  /\ pc = [p \in Proc |-> "idle"]
  /\ want = [p \in Proc |-> NoSector]
  /\ buf = [p \in Proc |-> NoBuf]
  /\ changed = [p \in Proc |-> FALSE]
  /\ panicked = FALSE

Goto(p, l) == pc' = [pc EXCEPT ![p] = l]

(* Wrong: bget takes the buffer it slept for without searching again. *)
WakeupNoLoop(b) ==
  [q \in Proc |-> CASE buf[q] = b /\ pc[q] = "bwait" -> "bread"
                    [] buf[q] = b /\ pc[q] = "iowait" -> "iotest"
                    [] OTHER -> pc[q]]

(* The places after wakeup(b): bget starts over, iderw tests the flags again. *)
Wakeup(b) ==
  [q \in Proc |-> CASE buf[q] = b /\ pc[q] = "bwait" -> "bget"
                    [] buf[q] = b /\ pc[q] = "iowait" -> "iotest"
                    [] OTHER -> pc[q]]

Cached(s) == {b \in Buf : sector[b] = s}

(* Wrong: a buffer the log keeps B_DIRTY can be taken. *)
RecyclableDirty == {b \in Buf : ~busy[b]}

Recyclable == {b \in Buf : ~busy[b] /\ ~dirty[b]}

(* The first recyclable buffer from the end of the list. *)
Oldest == LET k == CHOOSE k \in Buf : /\ lru[k] \in Recyclable
                                      /\ \A j \in k + 1 .. NBUF : lru[j] \notin Recyclable
          IN lru[k]

(* The list after b has been unlinked and linked in behind bcache.head. *)
MoveToFront(b) ==
  LET k == CHOOSE k \in Buf : lru[k] = b
  IN [j \in Buf |-> IF j = 1 THEN b ELSE IF j <= k THEN lru[j - 1] ELSE lru[j]]

-----------------------------------------------------------------------------
(* bread(s) is called; bget enters its loop. *)
Bread(p, s) ==
  /\ pc[p] = "idle"
  /\ want' = [want EXCEPT ![p] = s]
  /\ Goto(p, "bget")
  /\ UNCHANGED <<sector, flags, data, lru, idequeue, active, disk, buf, changed, panicked>>

BgetHit(p) ==
  /\ pc[p] = "bget"
  /\ \E b \in Cached(want[p]) :
       /\ ~busy[b]
       /\ busy' = [busy EXCEPT ![b] = TRUE]
       /\ buf' = [buf EXCEPT ![p] = b]
  /\ Goto(p, "bread")
  /\ UNCHANGED <<sector, valid, dirty, data, lru, idequeue, active, disk, want,
                 changed, panicked>>

BgetSleep(p) ==
  /\ pc[p] = "bget"
  /\ \E b \in Cached(want[p]) : busy[b] /\ buf' = [buf EXCEPT ![p] = b]
  /\ Goto(p, "bwait")
  /\ UNCHANGED <<sector, flags, data, lru, idequeue, active, disk, want, changed, panicked>>

BgetRecycle(p) ==
  /\ pc[p] = "bget"
  /\ Cached(want[p]) = {} /\ Recyclable # {}
  /\ sector' = [sector EXCEPT ![Oldest] = want[p]]
  /\ busy' = [busy EXCEPT ![Oldest] = TRUE]
  /\ valid' = [valid EXCEPT ![Oldest] = FALSE]
  /\ buf' = [buf EXCEPT ![p] = Oldest]
  /\ Goto(p, "bread")
  /\ UNCHANGED <<dirty, data, lru, idequeue, active, disk, want, changed, panicked>>

BgetPanic(p) ==
  /\ pc[p] = "bget"
  /\ Cached(want[p]) = {} /\ Recyclable = {}
  /\ panicked' = TRUE
  /\ UNCHANGED <<sector, flags, data, lru, idequeue, active, disk, pc, want, buf, changed>>

(* bread: read the block unless it is B_VALID. *)
BreadValid(p) ==
  /\ pc[p] = "bread"
  /\ Goto(p, IF valid[buf[p]] THEN "have" ELSE "iderw")
  /\ UNCHANGED <<sector, flags, data, lru, idequeue, active, disk, want, buf,
                 changed, panicked>>

(* The holder changes b->data. *)
Modify(p, v) ==
  /\ pc[p] = "have"
  /\ data' = [data EXCEPT ![buf[p]] = v]
  /\ changed' = [changed EXCEPT ![p] = TRUE]
  /\ UNCHANGED <<sector, flags, lru, idequeue, active, disk, pc, want, buf, panicked>>

Bwrite(p) ==
  /\ pc[p] = "have"
  /\ dirty' = [dirty EXCEPT ![buf[p]] = TRUE]
  /\ changed' = [changed EXCEPT ![p] = FALSE]
  /\ Goto(p, "iderw")
  /\ UNCHANGED <<sector, busy, valid, data, lru, idequeue, active, disk, want, buf, panicked>>

(* log_write ends with b->flags |= B_DIRTY, to prevent eviction. *)
Pin(p) ==
  /\ pc[p] = "have" /\ ~dirty[buf[p]]
  /\ Cardinality({b \in Buf : dirty[b]}) < MaxPin
  /\ dirty' = [dirty EXCEPT ![buf[p]] = TRUE]
  /\ changed' = [changed EXCEPT ![p] = FALSE]
  /\ UNCHANGED <<sector, busy, valid, data, lru, idequeue, active, disk, pc, want,
                 buf, panicked>>

(* Wrong: B_BUSY is not cleared. *)
BrelseStaysBusy(p) ==
  /\ pc[p] = "have" /\ (~changed[p] \/ dirty[buf[p]])
  /\ LET b == buf[p]
     IN /\ lru' = MoveToFront(b)
        /\ UNCHANGED busy
        /\ pc' = [Wakeup(b) EXCEPT ![p] = "idle"]
  /\ want' = [want EXCEPT ![p] = NoSector]
  /\ buf' = [buf EXCEPT ![p] = NoBuf]
  /\ changed' = [changed EXCEPT ![p] = FALSE]
  /\ UNCHANGED <<sector, valid, dirty, data, idequeue, active, disk, panicked>>

(* Wrong: brelse does not call wakeup. *)
BrelseSilent(p) ==
  /\ pc[p] = "have" /\ (~changed[p] \/ dirty[buf[p]])
  /\ LET b == buf[p]
     IN /\ lru' = MoveToFront(b)
        /\ busy' = [busy EXCEPT ![b] = FALSE]
        /\ pc' = [pc EXCEPT ![p] = "idle"]
  /\ want' = [want EXCEPT ![p] = NoSector]
  /\ buf' = [buf EXCEPT ![p] = NoBuf]
  /\ changed' = [changed EXCEPT ![p] = FALSE]
  /\ UNCHANGED <<sector, valid, dirty, data, idequeue, active, disk, panicked>>

(* brelse; the callers have written or logged what they changed. *)
Brelse(p) ==
  /\ pc[p] = "have" /\ (~changed[p] \/ dirty[buf[p]])
  /\ LET b == buf[p]
     IN /\ lru' = MoveToFront(b)
        /\ busy' = [busy EXCEPT ![b] = FALSE]
        /\ pc' = [Wakeup(b) EXCEPT ![p] = "idle"]
  /\ want' = [want EXCEPT ![p] = NoSector]
  /\ buf' = [buf EXCEPT ![p] = NoBuf]
  /\ changed' = [changed EXCEPT ![p] = FALSE]
  /\ UNCHANGED <<sector, valid, dirty, data, idequeue, active, disk, panicked>>

-----------------------------------------------------------------------------
(* iderw: append b, start the disk if it is the only request, sleep. *)
Iderw(p) ==
  /\ pc[p] = "iderw"
  /\ idequeue' = Append(idequeue, buf[p])
  /\ active' = IF idequeue = <<>> THEN buf[p] ELSE active
  /\ Goto(p, "iowait")
  /\ UNCHANGED <<sector, flags, data, lru, disk, want, buf, changed, panicked>>

(* Wrong: the next request of the queue is not started. *)
CompleteStops(b, d, x) ==
  /\ active # NoBuf /\ b = Head(idequeue)
  /\ idequeue' = Tail(idequeue)
  /\ active' = NoBuf
  /\ disk' = d
  /\ data' = [data EXCEPT ![b] = x]
  /\ valid' = [valid EXCEPT ![b] = TRUE]
  /\ dirty' = [dirty EXCEPT ![b] = FALSE]
  /\ pc' = Wakeup(b)
  /\ UNCHANGED <<sector, busy, lru, want, buf, changed, panicked>>

(* ideintr for request b that put d on the disk or x in the buffer. *)
Complete(b, d, x) ==
  /\ active # NoBuf /\ b = Head(idequeue)
  /\ idequeue' = Tail(idequeue)
  /\ active' = IF Tail(idequeue) = <<>> THEN NoBuf ELSE Head(Tail(idequeue))
  /\ disk' = d
  /\ data' = [data EXCEPT ![b] = x]
  /\ valid' = [valid EXCEPT ![b] = TRUE]
  /\ dirty' = [dirty EXCEPT ![b] = FALSE]
  /\ pc' = Wakeup(b)
  /\ UNCHANGED <<sector, busy, lru, want, buf, changed, panicked>>

Ideintr ==
  \E b \in Buf :
    IF dirty[b] THEN Complete(b, [disk EXCEPT ![sector[b]] = data[b]], data[b])
                ELSE Complete(b, disk, disk[sector[b]])

(* iderw: awake, with idelock. *)
IoTest(p) ==
  /\ pc[p] = "iotest"
  /\ Goto(p, IF valid[buf[p]] /\ ~dirty[buf[p]] THEN "have" ELSE "iowait")
  /\ UNCHANGED <<sector, flags, data, lru, idequeue, active, disk, want, buf,
                 changed, panicked>>

-----------------------------------------------------------------------------
Continue(p) ==
  \/ BgetHit(p) \/ BgetSleep(p) \/ BgetRecycle(p) \/ BgetPanic(p)
  \/ BreadValid(p) \/ Iderw(p) \/ IoTest(p)

Step(p) ==
  \/ Continue(p) \/ Bwrite(p) \/ Pin(p) \/ Brelse(p)
  \/ (\E s \in Sector : Bread(p, s)) \/ (\E v \in Val : Modify(p, v))

Next == ~panicked /\ (Ideintr \/ \E p \in Proc : Step(p))

Spec == Init /\ [][Next]_vars

(* The disk answers, and a process inside bread or bwrite goes on. *)
FairSpec ==
  /\ Spec
  /\ WF_vars(~panicked /\ Ideintr)
  /\ \A p \in Proc : WF_vars(~panicked /\ Continue(p))

-----------------------------------------------------------------------------
Owning == {"bread", "have", "iderw", "iowait", "iotest"}

(* The content of sector s and who holds it. *)
ContentOf(s) ==
  IF \E b \in Cached(s) : valid[b]
  THEN data[CHOOSE b \in Cached(s) : valid[b]] ELSE disk[s]
HolderOf(s) ==
  LET hs == {p \in Proc : pc[p] \in Owning /\ want[p] = s}
  IN IF hs = {} THEN NoProc ELSE CHOOSE p \in hs : TRUE

BS == INSTANCE BlockStore WITH content <- [s \in Sector |-> ContentOf(s)],
                               holder  <- [s \in Sector |-> HolderOf(s)]

(* The cache is transparent: whatever is recycled, queued or written back, a
   sector has one content, which only the process that holds it changes. *)
Transparent == BS!BSpec

(* A sector has one buffer and a B_BUSY buffer one owner, who has the sector it
   asked for, B_VALID when bread returns. *)
OneOwner ==
  /\ \A b, c \in Buf : sector[b] = sector[c] /\ sector[b] # NoSector => b = c
  /\ \A b \in Buf : busy[b] <=> \E p \in Proc : pc[p] \in Owning /\ buf[p] = b
  /\ \A p, q \in Proc :
       pc[p] \in Owning /\ pc[q] \in Owning /\ buf[p] = buf[q] => p = q
  /\ \A p \in Proc : pc[p] \in Owning => sector[buf[p]] = want[p]
  /\ \A p \in Proc : pc[p] = "have" => valid[buf[p]]

(* Nobody sleeps on a buffer that will not be released or completed, and the
   disk works on the first request as long as there is one.  iderw is never
   asked for a block with nothing to do. *)
WaitsForSomething ==
  /\ \A p \in Proc :
       /\ pc[p] = "bwait" => busy[buf[p]]
       /\ pc[p] = "iowait" => \E k \in 1 .. Len(idequeue) : idequeue[k] = buf[p]
       /\ pc[p] = "iderw" => ~valid[buf[p]] \/ dirty[buf[p]]
  /\ active = (IF idequeue = <<>> THEN NoBuf ELSE Head(idequeue))

(* With a buffer for every process beside those the log keeps dirty, bget
   always finds one to recycle and does not panic. *)
BuffersSuffice ==
  MaxPin + Cardinality(Proc) <= NBUF =>
    \A p \in Proc : pc[p] = "bget" => Cached(want[p]) # {} \/ Recyclable # {}

(* Every disk request is answered to the process that made it: ideintr starts
   the next request and wakes the right process. *)
RequestAnswered == \A p \in Proc : pc[p] = "iderw" ~> (pc[p] = "have" \/ panicked)

-----------------------------------------------------------------------------
(* The inductive invariant behind OneOwner, WaitsForSomething and Transparent. *)
Places == Owning \cup {"idle", "bget", "bwait"}

TypeOK ==
  /\ sector \in [Buf -> Sector \cup {NoSector}]
  /\ busy \in [Buf -> BOOLEAN] /\ valid \in [Buf -> BOOLEAN] /\ dirty \in [Buf -> BOOLEAN]
  /\ data \in [Buf -> Val] /\ disk \in [Sector -> Val]
  /\ lru \in [Buf -> Buf] /\ idequeue \in Seq(Buf)
  /\ pc \in [Proc -> Places]
  /\ want \in [Proc -> Sector \cup {NoSector}]
  /\ buf \in [Proc -> Buf \cup {NoBuf}]
  /\ changed \in [Proc -> BOOLEAN]

(* Every buffer is in the list, and a process inside bget or past it has a
   sector and a buffer. *)
PlaceInv ==
  /\ \A b \in Buf : \E k \in Buf : lru[k] = b
  /\ \A p \in Proc : pc[p] # "idle" => want[p] \in Sector
  /\ \A p \in Proc : pc[p] \in Owning \cup {"bwait"} => buf[p] \in Buf

(* The queue holds the buffers of the processes asleep in iderw, each once. *)
QueueInv ==
  /\ \A k \in 1 .. Len(idequeue) : \E p \in Proc : pc[p] = "iowait" /\ buf[p] = idequeue[k]
  /\ \A j, k \in 1 .. Len(idequeue) : idequeue[j] = idequeue[k] => j = k
  /\ \A p \in Proc : pc[p] = "iowait" => ~valid[buf[p]] \/ dirty[buf[p]]
  /\ \A p \in Proc : pc[p] = "iotest" => valid[buf[p]] /\ ~dirty[buf[p]]

(* A buffer that is B_VALID and not B_DIRTY agrees with the disk, unless its
   holder has changed it and neither written nor logged it yet. *)
ContentInv ==
  /\ \A b \in Buf : valid[b] => sector[b] \in Sector
  /\ \A b \in Buf : dirty[b] => valid[b]
  /\ \A b \in Buf : valid[b] /\ ~dirty[b] =>
       data[b] = disk[sector[b]] \/ \E p \in Proc : buf[p] = b /\ changed[p]
  /\ \A p \in Proc : changed[p] => pc[p] = "have"

CacheInv == TypeOK /\ PlaceInv /\ OneOwner /\ WaitsForSomething /\ QueueInv /\ ContentInv

(* The buffers that are B_DIRTY although nobody writes them: log_write's. *)
Pinned ==
  {b \in Buf : dirty[b] /\ \A p \in Proc : pc[p] \in {"iderw", "iowait"} => buf[p] # b}

PinBound == Cardinality(Pinned) <= MaxPin
=============================================================================
