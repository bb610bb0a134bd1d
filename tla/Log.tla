-------------------------------- MODULE Log ---------------------------------
(***************************************************************************)
(* kernel/log.c: the physical redo log.  Processes open a transaction with *)
(* begin_trans, change buffers and hand them to log_write, and close it    *)
(* with commit_trans; initlog recovers at boot.  The disk writes one block *)
(* atomically and the machine can crash between any two steps, recovery    *)
(* included.                                                               *)
(***************************************************************************)
EXTENDS Naturals

CONSTANTS Proc, NoProc,
          initproc,       \* the process whose first forkret runs initlog
          Sector, NoSector,
          Val,
          LOGSIZE,        \* length of logheader.sector
          nlog            \* sb.nlog: header block and nlog - 1 log blocks

ASSUME ProcAssumption   == initproc \in Proc /\ NoProc \notin Proc
ASSUME SectorAssumption == NoSector \notin Sector
ASSUME SizeAssumption   == LOGSIZE \in Nat \ {0} /\ nlog \in Nat \ {0, 1}

VARIABLES
  home,      \* disk: the file system's own blocks
  logblk,    \* disk: log block start+1+i, for slot i
  hdr,       \* disk: the header block
  lh,        \* memory: log.lh
  busy,      \* memory: log.busy
  cache,     \* memory: what bread() of a home sector returns
  bowner,    \* memory: who holds the B_BUSY buffer of a home sector
  lowner,    \* memory: who holds the B_BUSY buffer of a log block
  pc,        \* where each process is
  wr,        \* log_write's b->sector and i, and the caller it returns to
  tail,      \* install_trans' loop variable
  booting,   \* initlog has not returned yet
  panicked   \* a panic() stopped the machine

disk == <<home, logblk, hdr>>
vars == <<home, logblk, hdr, lh, busy, cache, bowner, lowner, pc, wr, tail,
          booting, panicked>>

(* log_write refuses slot n when n >= LOGSIZE or n >= log.size - 1. *)
Capacity == IF LOGSIZE < nlog - 1 THEN LOGSIZE ELSE nlog - 1
Slot == 0 .. Capacity - 1

EmptyHead == [n |-> 0, sector |-> [i \in Slot |-> NoSector]]
NoWrite == [sector |-> NoSector, slot |-> 0, ret |-> "idle"]

(* The first h.n sector numbers of h, copied over those of old. *)
CopyHead(h, old) ==
  [n |-> h.n, sector |-> [i \in Slot |-> IF i < h.n THEN h.sector[i]
                                                    ELSE old.sector[i]]]

(* The slots below n that hold sector s. *)
SlotsOf(h, s) == {i \in Slot : i < h.n /\ h.sector[i] = s}

(* The blocks hm after the log blocks lb that h lists have been copied over
   them in order. *)
Onto(hm, lb, h) ==
  [s \in Sector |-> IF SlotsOf(h, s) = {} THEN hm[s]
                    ELSE lb[CHOOSE i \in SlotsOf(h, s) :
                              \A j \in SlotsOf(h, s) : j <= i]]

Goto(p, l) == pc' = [pc EXCEPT ![p] = l]

-----------------------------------------------------------------------------
(* The pc of every process while forkret of initproc is about to call initlog. *)
BootPC == [p \in Proc |-> IF p = initproc THEN "initlog" ELSE "idle"]

(* A disk whose log is clean, as mkfs or a commit leaves it; memory is zeroed. *)
Init ==
  /\ home \in [Sector -> Val]
  /\ logblk \in [Slot -> Val]
  /\ hdr = EmptyHead
  /\ lh = EmptyHead
  /\ busy = FALSE
  /\ cache = home
  /\ bowner = [s \in Sector |-> NoProc]
  /\ lowner = [i \in Slot |-> NoProc]
  /\ pc = BootPC
  /\ wr = [p \in Proc |-> NoWrite]
  /\ tail = 0
  /\ booting = TRUE
  /\ panicked = FALSE

(* Power failure or reboot: memory is lost, the disk stays as it is. *)
Crash ==
  /\ UNCHANGED disk
  /\ lh' = EmptyHead
  /\ busy' = FALSE
  /\ cache' = home
  /\ bowner' = [s \in Sector |-> NoProc]
  /\ lowner' = [i \in Slot |-> NoProc]
  /\ pc' = BootPC
  /\ wr' = [p \in Proc |-> NoWrite]
  /\ tail' = 0
  /\ booting' = TRUE
  /\ panicked' = FALSE

-----------------------------------------------------------------------------
(* Wrong: read_head forgets the count. *)
ReadHeadNoCount(p) ==
  /\ pc[p] = "initlog"
  /\ lh' = [CopyHead(hdr, lh) EXCEPT !.n = 0]
  /\ tail' = 0
  /\ Goto(p, "it_read")
  /\ UNCHANGED <<disk, busy, cache, bowner, lowner, wr, booting, panicked>>

(* recover_from_log: read_head. *)
ReadHead(p) ==
  /\ pc[p] = "initlog"
  /\ lh' = CopyHead(hdr, lh)
  /\ tail' = 0
  /\ Goto(p, "it_read")
  /\ UNCHANGED <<disk, busy, cache, bowner, lowner, wr, booting, panicked>>

(* begin_trans, up to the sleep or to the return. *)
BeginTrans(p) ==
  /\ pc[p] \in {"idle", "begin"}
  /\ ~booting
  /\ IF busy THEN Goto(p, "asleep") /\ busy' = busy
             ELSE Goto(p, "trans") /\ busy' = TRUE
  /\ UNCHANGED <<disk, lh, cache, bowner, lowner, wr, tail, booting, panicked>>

(* bp = bread(s); modify bp->data; log_write(bp) is entered. *)
Modify(p, caller, s, v) ==
  /\ pc[p] = caller
  /\ bowner[s] = NoProc
  /\ bowner' = [bowner EXCEPT ![s] = p]
  /\ cache' = [cache EXCEPT ![s] = v]
  /\ wr' = [wr EXCEPT ![p] = [sector |-> s, slot |-> 0, ret |-> caller]]
  /\ Goto(p, "lw_scan")
  /\ UNCHANGED <<disk, lh, busy, lowner, tail, booting, panicked>>

(* log_write: the panics, and the search for a slot to absorb the write. *)
LogWritePanic(p) ==
  /\ pc[p] = "lw_scan"
  /\ lh.n >= Capacity \/ ~busy
  /\ panicked' = TRUE
  /\ UNCHANGED <<disk, lh, busy, cache, bowner, lowner, pc, wr, tail, booting>>

(* Wrong: log_write does not absorb, every write takes a new slot. *)
LogWriteNoAbsorb(p) ==
  /\ pc[p] = "lw_scan"
  /\ lh.n < Capacity /\ busy
  /\ lh' = [lh EXCEPT !.sector[lh.n] = wr[p].sector]
  /\ wr' = [wr EXCEPT ![p] = [@ EXCEPT !.slot = lh.n]]
  /\ Goto(p, "lw_block")
  /\ UNCHANGED <<disk, busy, cache, bowner, lowner, tail, booting, panicked>>

LogWriteScan(p) ==
  /\ pc[p] = "lw_scan"
  /\ lh.n < Capacity /\ busy
  /\ LET s == wr[p].sector
         i == IF SlotsOf(lh, s) = {} THEN lh.n
              ELSE CHOOSE j \in SlotsOf(lh, s) : \A k \in SlotsOf(lh, s) : j <= k
     IN /\ lh' = [lh EXCEPT !.sector[i] = s]
        /\ wr' = [wr EXCEPT ![p] = [@ EXCEPT !.slot = i]]
  /\ Goto(p, "lw_block")
  /\ UNCHANGED <<disk, busy, cache, bowner, lowner, tail, booting, panicked>>

(* log_write: the block goes to its log slot at once. *)
LogWriteBlock(p) ==
  /\ pc[p] = "lw_block"
  /\ lowner[wr[p].slot] = NoProc
  /\ logblk' = [logblk EXCEPT ![wr[p].slot] = cache[wr[p].sector]]
  /\ Goto(p, "lw_advance")
  /\ UNCHANGED <<home, hdr, lh, busy, cache, bowner, lowner, wr, tail,
                 booting, panicked>>

(* log_write: n grows if the slot is new; the caller then brelse()s b. *)
LogWriteAdvance(p) ==
  /\ pc[p] = "lw_advance"
  /\ lh' = [lh EXCEPT !.n = IF wr[p].slot = lh.n THEN lh.n + 1 ELSE lh.n]
  /\ bowner' = [bowner EXCEPT ![wr[p].sector] = NoProc]
  /\ Goto(p, wr[p].ret)
  /\ wr' = [wr EXCEPT ![p] = NoWrite]
  /\ UNCHANGED <<disk, busy, cache, lowner, tail, booting, panicked>>

-----------------------------------------------------------------------------
(* Wrong: the blocks are installed without the commit record. *)
CommitTransNoHead(p) ==
  /\ pc[p] = "trans"
  /\ Goto(p, IF lh.n > 0 THEN "it_read" ELSE "ct_end")
  /\ UNCHANGED <<disk, lh, busy, cache, bowner, lowner, wr, tail, booting,
                 panicked>>

(* commit_trans: is there anything to commit? *)
CommitTrans(p) ==
  /\ pc[p] = "trans"
  /\ Goto(p, IF lh.n > 0 THEN "ct_head" ELSE "ct_end")
  /\ UNCHANGED <<disk, lh, busy, cache, bowner, lowner, wr, tail, booting,
                 panicked>>

(* commit_trans: the first write_head, "the real commit". *)
WriteHead(p) ==
  /\ pc[p] = "ct_head"
  /\ hdr' = CopyHead(lh, hdr)
  /\ tail' = 0
  /\ Goto(p, "it_read")
  /\ UNCHANGED <<home, logblk, lh, busy, cache, bowner, lowner, wr, booting,
                 panicked>>

(* install_trans: lbuf = bread(log block tail). *)
InstallRead(p) ==
  /\ pc[p] = "it_read"
  /\ tail < lh.n
  /\ lowner[tail] = NoProc
  /\ lowner' = [lowner EXCEPT ![tail] = p]
  /\ Goto(p, "it_write")
  /\ UNCHANGED <<disk, lh, busy, cache, bowner, wr, tail, booting, panicked>>

(* install_trans: dbuf = bread(dst); copy; bwrite(dbuf); release both. *)
InstallWrite(p) ==
  /\ pc[p] = "it_write"
  /\ bowner[lh.sector[tail]] = NoProc
  /\ home' = [home EXCEPT ![lh.sector[tail]] = logblk[tail]]
  /\ cache' = [cache EXCEPT ![lh.sector[tail]] = logblk[tail]]
  /\ lowner' = [lowner EXCEPT ![tail] = NoProc]
  /\ tail' = tail + 1
  /\ Goto(p, "it_read")
  /\ UNCHANGED <<logblk, hdr, lh, busy, bowner, wr, booting, panicked>>

(* The loop ends; both callers then set lh.n = 0. *)
InstallDone(p) ==
  /\ pc[p] = "it_read"
  /\ tail >= lh.n
  /\ lh' = [lh EXCEPT !.n = 0]
  /\ tail' = 0
  /\ Goto(p, "clear_head")
  /\ UNCHANGED <<disk, busy, cache, bowner, lowner, wr, booting, panicked>>

(* Wrong: the header on disk is not cleared. *)
ClearHeadSkipped(p) ==
  /\ pc[p] = "clear_head"
  /\ Goto(p, IF booting THEN "idle" ELSE "ct_end")
  /\ booting' = FALSE
  /\ UNCHANGED <<disk, lh, busy, cache, bowner, lowner, wr, tail, panicked>>

(* The second write_head.  After recovery the system is up. *)
ClearHead(p) ==
  /\ pc[p] = "clear_head"
  /\ hdr' = CopyHead(lh, hdr)
  /\ Goto(p, IF booting THEN "idle" ELSE "ct_end")
  /\ booting' = FALSE
  /\ UNCHANGED <<home, logblk, lh, busy, cache, bowner, lowner, wr, tail,
                 panicked>>

(* commit_trans: busy = 0; wakeup(&log). *)
EndTrans(p) ==
  /\ pc[p] = "ct_end"
  /\ busy' = FALSE
  /\ pc' = [q \in Proc |-> CASE q = p -> "idle"
                             [] q # p /\ pc[q] = "asleep" -> "begin"
                             [] OTHER -> pc[q]]
  /\ UNCHANGED <<disk, lh, cache, bowner, lowner, wr, tail, booting, panicked>>

-----------------------------------------------------------------------------
(* What one process does next, except the calls it is free not to make. *)
Continue(p) ==
  \/ ReadHead(p)
  \/ LogWritePanic(p) \/ LogWriteScan(p) \/ LogWriteBlock(p)
  \/ LogWriteAdvance(p)
  \/ WriteHead(p) \/ InstallRead(p) \/ InstallWrite(p) \/ InstallDone(p)
  \/ ClearHead(p) \/ EndTrans(p)

Step(p) ==
  /\ ~panicked
  /\ \/ Continue(p)
     \/ BeginTrans(p)
     \/ \E s \in Sector, v \in Val : Modify(p, "trans", s, v)
     \/ CommitTrans(p)

Next == (\E p \in Proc : Step(p)) \/ Crash

Spec == Init /\ [][Next]_vars

(***************************************************************************)
(* A process inside the log code keeps running: the scheduler gives it the *)
(* CPU again and the disk answers.  Nothing obliges a process to start or  *)
(* to end a transaction.                                                   *)
(***************************************************************************)
FairSpec == Spec /\ \A p \in Proc : WF_vars(~panicked /\ Continue(p))

-----------------------------------------------------------------------------
Labels == {"idle", "initlog", "begin", "asleep", "trans", "lw_scan", "lw_block",
           "lw_advance", "ct_head", "it_read", "it_write", "clear_head", "ct_end"}

Head == [n : 0 .. Capacity, sector : [Slot -> Sector \cup {NoSector}]]

WriteRec == [sector : Sector \cup {NoSector}, slot : 0 .. Capacity,
             ret : {"trans", "idle"}]

(* The variables of log.c keep their types. *)
TypeOK ==
  /\ home \in [Sector -> Val]
  /\ logblk \in [Slot -> Val]
  /\ hdr \in Head
  /\ lh \in Head
  /\ busy \in BOOLEAN
  /\ cache \in [Sector -> Val]
  /\ bowner \in [Sector -> Proc \cup {NoProc}]
  /\ lowner \in [Slot -> Proc \cup {NoProc}]
  /\ pc \in [Proc -> Labels]
  /\ wr \in [Proc -> WriteRec]
  /\ tail \in 0 .. Capacity
  /\ booting \in BOOLEAN
  /\ panicked \in BOOLEAN

TransLabels == Labels \ {"idle", "initlog", "begin", "asleep"}

InTrans(p) == ~booting /\ pc[p] \in TransLabels

(* begin_trans lets one system call at a time into a transaction, and only a
   process in a transaction keeps others asleep on &log: busy is never left
   set, nor a sleeper left behind, when nobody is inside. *)
OneTransaction ==
  /\ \A p, q \in Proc : InTrans(p) /\ InTrans(q) => p = q
  /\ (\E p \in Proc : pc[p] = "asleep") => \E q \in Proc : InTrans(q)

(* Write-ahead rule of commit_trans and recover_from_log: a home block changes
   only while the header on disk lists it, to the content of its log block. *)
WriteAhead ==
  [][\A s \in Sector : home'[s] # home[s] =>
       \E i \in Slot : i < hdr.n /\ hdr.sector[i] = s /\ home'[s] = logblk[i]]_vars

(* Outside transactions the log is erased and the buffer cache agrees with
   the disk: no write of a finished commit_trans is still to be done. *)
Quiescent ==
  (~booting /\ \A p \in Proc : ~InTrans(p))
     => hdr.n = 0 /\ lh.n = 0 /\ cache = home

(* What the next recovery leaves at home: the home blocks under the
   committed log blocks. *)
Durable == Onto(home, logblk, hdr)

Inside == {p \in Proc : InTrans(p)}

(* The log implements AtomicDisk: what survives a crash changes only at
   write_head, and then takes all the writes of the transaction. *)
AD == INSTANCE AtomicDisk WITH
        durable <- Durable,
        view    <- IF booting THEN Durable ELSE cache,
        active  <- IF Inside = {} THEN NoProc ELSE CHOOSE p \in Inside : TRUE

AtomicCommit == AD!ASpec

(* If the machine stops crashing, a committed transaction is installed and
   erased, by commit_trans or by the recovery of a later boot. *)
CommittedInstalled ==
  <>[][~Crash]_vars => (hdr.n > 0 ~> hdr.n = 0)

-----------------------------------------------------------------------------
(* A header lists each of its sectors once. *)
Distinct(h) ==
  \A i, j \in Slot : i < h.n /\ j < h.n =>
    h.sector[i] \in Sector /\ (h.sector[i] = h.sector[j] => i = j)

(* c is the home blocks with the log blocks that h lists over them, except
   perhaps at the sectors in E. *)
Shows(c, h, E) ==
  \A s \in Sector \ E :
    /\ (\A i \in Slot : i < h.n => h.sector[i] # s) => c[s] = home[s]
    /\ \A i \in Slot : i < h.n /\ h.sector[i] = s => c[s] = logblk[i]

(* The first n blocks that h lists are at home. *)
Installed(h, n) == \A i \in Slot : i < n => home[h.sector[i]] = logblk[i]

SameHead == hdr.n = lh.n /\ \A i \in Slot : i < lh.n => hdr.sector[i] = lh.sector[i]

BootInv ==
  booting =>
    /\ ~busy
    /\ cache = home
    /\ pc[initproc] \in {"initlog", "it_read", "it_write", "clear_head"}
    /\ \A p \in Proc \ {initproc} : pc[p] = "idle"

BusyInv ==
  ~booting =>
    /\ \A p \in Proc : pc[p] # "initlog"
    /\ busy <=> \E p \in Proc : pc[p] \in TransLabels
    /\ \A p, q \in Proc : pc[p] \in TransLabels /\ pc[q] \in TransLabels => p = q
    /\ (\E p \in Proc : pc[p] = "asleep") => busy
    /\ ~busy => hdr.n = 0 /\ lh.n = 0 /\ cache = home

(* Where the process in the log code stands, and what disk and cache hold. *)
WriteInv(p) ==
  /\ pc[p] \in {"trans", "ct_head"} => hdr.n = 0 /\ Shows(cache, lh, {})
  /\ pc[p] = "ct_head" => lh.n > 0
  /\ pc[p] \in {"lw_scan", "lw_block", "lw_advance"} =>
       /\ hdr.n = 0
       /\ wr[p].sector \in Sector
       /\ wr[p].ret = "trans"
       /\ Shows(cache, lh, {wr[p].sector})
  /\ pc[p] \in {"lw_block", "lw_advance"} =>
       /\ wr[p].slot \in Slot
       /\ wr[p].slot <= lh.n
       /\ lh.n < Capacity
       /\ lh.sector[wr[p].slot] = wr[p].sector
       /\ \A j \in Slot : j < lh.n /\ lh.sector[j] = wr[p].sector => j = wr[p].slot
  /\ pc[p] = "lw_advance" => logblk[wr[p].slot] = cache[wr[p].sector]

InstallInv(p) ==
  /\ pc[p] \in {"it_read", "it_write"} =>
       /\ SameHead
       /\ tail <= lh.n
       /\ Installed(hdr, tail)
       /\ ~booting => Shows(cache, hdr, {})
  /\ pc[p] = "it_write" => tail < lh.n
  /\ pc[p] = "clear_head" => lh.n = 0 /\ Installed(hdr, hdr.n)
  /\ pc[p] = "clear_head" /\ ~booting => cache = home
  /\ pc[p] = "ct_end" => hdr.n = 0 /\ lh.n = 0 /\ cache = home

(* The inductive invariant of log.c: what cache, log and home blocks hold at
   every point of a transaction, of its installation and of recovery. *)
LogInv ==
  /\ TypeOK
  /\ Distinct(lh) /\ Distinct(hdr)
  /\ BootInv
  /\ BusyInv
  /\ \A p \in Proc : WriteInv(p) /\ InstallInv(p)
=============================================================================
