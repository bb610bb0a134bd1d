----------------------------- MODULE LogProofs ------------------------------
(***************************************************************************)
(* Proofs about Log: the inductive invariant LogInv, the invariants and    *)
(* the write-ahead rule that follow from it, and that Log implements       *)
(* AtomicDisk.                                                             *)
(***************************************************************************)
EXTENDS Log, TLAPS

(* log_write accepts at least one block; the slots are 0 .. Capacity - 1. *)
LEMMA CapacityFacts == Capacity \in Nat \ {0} /\ Slot = 0 .. Capacity - 1
  BY SizeAssumption DEF Capacity, Slot

(* An empty header lists no sector twice. *)
LEMMA EmptyDistinct ==
  ASSUME NEW h, h.n = 0
  PROVE  Distinct(h)
  <1>1. \A i \in Slot : ~(i < h.n)
    BY CapacityFacts
  <1>2. QED BY ONLY <1>1 DEF Distinct

(* The boot values have their types. *)
LEMMA BootTypes ==
  /\ EmptyHead \in Head
  /\ BootPC \in [Proc -> Labels]
  /\ NoWrite \in WriteRec
  BY CapacityFacts DEF EmptyHead, Head, BootPC, Labels, NoWrite, WriteRec

(* Labels of a process that is in neither a transaction nor recovery, and of
   the process that recovers. *)
Away == {"idle", "begin", "asleep"}
Recovery == {"initlog", "it_read", "it_write", "clear_head"}

(* The phase invariants say nothing of a process that is away. *)
LEMMA AwayInv ==
  ASSUME NEW q \in Proc, pc'[q] \in Away
  PROVE  WriteInv(q)' /\ InstallInv(q)'
  BY DEF WriteInv, InstallInv, Away

(* WriteInv and InstallInv of a process depend only on these variables. *)
LEMMA UnchangedInv ==
  ASSUME NEW q \in Proc, WriteInv(q), InstallInv(q), pc'[q] = pc[q],
         UNCHANGED <<home, logblk, hdr, lh, cache, wr, tail, booting>>
  PROVE  WriteInv(q)' /\ InstallInv(q)'
  <1>1. /\ Shows(cache, lh, {})' = Shows(cache, lh, {})
        /\ Shows(cache, hdr, {})' = Shows(cache, hdr, {})
        /\ Shows(cache, lh, {wr[q].sector})' = Shows(cache, lh, {wr[q].sector})
    BY DEF Shows
  <1>2. /\ SameHead' = SameHead
        /\ Installed(hdr, tail)' = Installed(hdr, tail)
        /\ Installed(hdr, hdr.n)' = Installed(hdr, hdr.n)
    BY DEF SameHead, Installed
  <1>3. WriteInv(q)'
    BY <1>1 DEF WriteInv
  <1>4. InstallInv(q)'
    BY <1>1, <1>2 DEF InstallInv
  <1>5. QED BY <1>3, <1>4

(* At most one process is not away. *)
LEMMA Alone ==
  ASSUME LogInv, NEW p \in Proc, pc[p] \notin Away
  PROVE  \A q \in Proc \ {p} : pc[q] \in Away
  BY ProcAssumption DEF LogInv, TypeOK, BootInv, BusyInv, Away, TransLabels, Labels

(* What a step of the process that is not away keeps, as long as it stays in
   its transaction or in its recovery. *)
LEMMA StaysInside ==
  ASSUME LogInv, NEW p \in Proc, NEW l, pc[p] \notin Away,
         pc' = [pc EXCEPT ![p] = l], UNCHANGED <<busy, booting>>,
         booting => l \in Recovery /\ cache' = home',
         ~booting => l \in TransLabels
  PROVE  /\ BootInv' /\ BusyInv'
         /\ \A q \in Proc \ {p} : WriteInv(q)' /\ InstallInv(q)'
  <1>1. \A q \in Proc \ {p} : pc[q] \in Away /\ pc'[q] = pc[q]
    BY Alone DEF LogInv, TypeOK
  <1>2. pc'[p] = l
    BY DEF LogInv, TypeOK
  <1>3. \A q \in Proc \ {p} : WriteInv(q)' /\ InstallInv(q)'
    BY <1>1, AwayInv
  <1>4. CASE booting
    <2>1. p = initproc /\ ~busy
      BY <1>4 DEF LogInv, BootInv, Away
    <2>2. \A q \in Proc \ {p} : pc'[q] = "idle"
      BY <1>1, <1>4, <2>1 DEF LogInv, BootInv
    <2>3. QED BY <1>2, <1>3, <1>4, <2>1, <2>2 DEF BootInv, BusyInv, Recovery
  <1>5. CASE ~booting
    <2>1. pc[p] \in TransLabels /\ busy /\ \A q \in Proc : pc[q] # "initlog"
      BY <1>5 DEF LogInv, BusyInv, TypeOK, Away, TransLabels, Labels
    <2>2. \A q \in Proc \ {p} : pc'[q] \notin TransLabels /\ pc'[q] # "initlog"
      BY <1>1, <2>1 DEF Away, TransLabels
    <2>3. QED BY <1>2, <1>3, <1>5, <2>1, <2>2 DEF BootInv, BusyInv, TransLabels
  <1>6. QED BY <1>4, <1>5

-----------------------------------------------------------------------------
(* LogInv is inductive: one lemma per step of log.c, recovery first. *)
LEMMA ReadHeadInv ==
  ASSUME LogInv, NEW p \in Proc, ReadHead(p)
  PROVE  LogInv'
  <1>1. /\ pc[p] = "initlog" /\ pc' = [pc EXCEPT ![p] = "it_read"] /\ tail' = 0
        /\ lh' = CopyHead(hdr, lh)
        /\ UNCHANGED <<home, logblk, hdr, busy, cache, bowner, lowner, wr, booting,
                       panicked>>
    BY DEF ReadHead, Goto, disk
  <1>2. TypeOK /\ Distinct(hdr) /\ booting /\ cache = home
    BY <1>1 DEF LogInv, BusyInv, BootInv
  <1>3. lh' \in Head
    BY <1>1, <1>2 DEF CopyHead, Head, TypeOK
  <1>4. TypeOK'
    <2>1. tail' \in 0 .. Capacity
      BY <1>1, CapacityFacts
    <2>2. QED BY <1>1, <1>2, <1>3, <2>1 DEF TypeOK, Labels
  <1>5. SameHead'
    BY <1>1 DEF SameHead, CopyHead
  <1>6. Distinct(lh)' /\ Distinct(hdr)'
    BY <1>1, <1>2, <1>5 DEF Distinct, SameHead
  <1>7. /\ BootInv' /\ BusyInv'
        /\ \A q \in Proc \ {p} : WriteInv(q)' /\ InstallInv(q)'
    BY <1>1, <1>2, StaysInside, Zenon DEF Away, Recovery
  <1>8. WriteInv(p)' /\ InstallInv(p)'
    <2>1. pc'[p] = "it_read" /\ booting'
      BY <1>1, <1>2 DEF TypeOK
    <2>2. tail' <= lh'.n /\ Installed(hdr, tail)'
      BY <1>1, <1>3, CapacityFacts DEF Head, Installed
    <2>3. QED BY <1>5, <2>1, <2>2 DEF WriteInv, InstallInv
  <1>9. QED BY <1>4, <1>6, <1>7, <1>8 DEF LogInv

(* A panic stops the machine and changes nothing else. *)
LEMMA LogWritePanicInv ==
  ASSUME LogInv, NEW p \in Proc, LogWritePanic(p)
  PROVE  LogInv'
  <1>1. /\ panicked' = TRUE
        /\ UNCHANGED <<home, logblk, hdr, lh, busy, cache, bowner, lowner, pc, wr,
                       tail, booting>>
    BY DEF LogWritePanic, disk
  <1>2. TypeOK' /\ Distinct(lh)' /\ Distinct(hdr)' /\ BootInv' /\ BusyInv'
    BY <1>1 DEF LogInv, TypeOK, Distinct, BootInv, BusyInv
  <1>3. ASSUME NEW q \in Proc PROVE WriteInv(q)' /\ InstallInv(q)'
    BY <1>1, UnchangedInv DEF LogInv
  <1>4. QED BY <1>2, <1>3 DEF LogInv

(* log_write finds the slot of the sector, or the first free one. *)
LEMMA LogWriteScanInv ==
  ASSUME LogInv, NEW p \in Proc, LogWriteScan(p)
  PROVE  LogInv'
  <1> DEFINE s == wr[p].sector
             i == IF SlotsOf(lh, s) = {} THEN lh.n
                  ELSE CHOOSE j \in SlotsOf(lh, s) : \A k \in SlotsOf(lh, s) : j <= k
  <1>1. TypeOK /\ Distinct(lh) /\ Distinct(hdr) /\ WriteInv(p)
    BY DEF LogInv
  <1>2. /\ pc[p] = "lw_scan" /\ lh.n < Capacity /\ lh.n \in Nat /\ s \in Sector
        /\ hdr.n = 0 /\ wr[p].ret = "trans" /\ Shows(cache, lh, {s})
    BY <1>1 DEF TypeOK, Head, WriteInv, LogWriteScan
  <1>3. /\ i \in Slot /\ i <= lh.n
        /\ i < lh.n => lh.sector[i] = s
        /\ \A j \in Slot : j < lh.n /\ lh.sector[j] = s => j = i
    <2>1. CASE SlotsOf(lh, s) = {}
      <3>1. i = lh.n
        BY <2>1
      <3>2. \A j \in Slot : ~(j < lh.n /\ lh.sector[j] = s)
        BY <2>1 DEF SlotsOf
      <3> HIDE DEF i, s
      <3>3. QED BY <1>2, <3>1, <3>2, CapacityFacts
    <2>2. CASE SlotsOf(lh, s) # {}
      <3>1. PICK j \in SlotsOf(lh, s) : TRUE
        BY <2>2
      <3>2. /\ j \in Slot /\ j < lh.n /\ lh.sector[j] = s
            /\ \A k \in Slot : k < lh.n /\ lh.sector[k] = s => k = j
        BY <1>1, <3>1 DEF SlotsOf, Distinct
      <3>3. \A k \in SlotsOf(lh, s) : k = j /\ j <= k
        BY <3>2, CapacityFacts DEF SlotsOf
      <3>4. i = j
        BY <2>2, <3>1, <3>3
      <3>5. j <= lh.n
        BY <1>2, <3>2, CapacityFacts
      <3> HIDE DEF i, s
      <3>6. QED BY <3>2, <3>4, <3>5
    <2>3. QED BY <2>1, <2>2
  <1>4. /\ lh' = [lh EXCEPT !.sector[i] = s]
        /\ wr' = [wr EXCEPT ![p] = [wr[p] EXCEPT !.slot = i]]
        /\ pc' = [pc EXCEPT ![p] = "lw_block"]
        /\ UNCHANGED <<home, logblk, hdr, busy, cache, bowner, lowner, tail, booting,
                       panicked>>
    BY <1>1 DEF LogWriteScan, Goto, TypeOK, disk
  <1> HIDE DEF i, s
  <1>5. /\ lh' \in Head /\ lh'.n = lh.n /\ lh'.sector[i] = s
        /\ \A k \in Slot : k < lh.n => lh'.sector[k] = lh.sector[k]
    <2>1. lh.sector \in [Slot -> Sector \cup {NoSector}] /\ lh \in Head
      BY <1>1 DEF TypeOK, Head
    <2>2. lh'.n = lh.n /\ lh'.sector = [lh.sector EXCEPT ![i] = s] /\ lh' \in Head
      BY <1>2, <1>3, <1>4, <2>1 DEF Head
    <2>3. QED BY <1>3, <2>1, <2>2
  <1>6. TypeOK'
    <2>1. wr[p] \in WriteRec /\ i \in 0 .. Capacity
      BY <1>1, <1>3, CapacityFacts DEF TypeOK
    <2>2. [wr[p] EXCEPT !.slot = i] \in WriteRec
      BY <2>1 DEF WriteRec
    <2>3. QED BY <1>1, <1>4, <1>5, <2>2 DEF TypeOK, Labels
  <1>7. Distinct(lh)' /\ Distinct(hdr)'
    BY <1>1, <1>4, <1>5 DEF Distinct
  <1>8. /\ BootInv' /\ BusyInv'
        /\ \A q \in Proc \ {p} : WriteInv(q)' /\ InstallInv(q)'
    <2>1. ~booting
      BY <1>2 DEF LogInv, BootInv
    <2>2. QED BY <1>2, <1>4, <2>1, StaysInside, Zenon DEF Away, TransLabels, Labels
  <1>9. WriteInv(p)' /\ InstallInv(p)'
    <2>1. /\ pc'[p] = "lw_block"
          /\ wr'[p].slot = i /\ wr'[p].sector = s /\ wr'[p].ret = "trans"
      BY <1>1, <1>2, <1>4 DEF TypeOK, WriteRec, s
    <2>2. Shows(cache, lh, {wr[p].sector})'
      <3>1. UNCHANGED <<home, logblk, cache>>
        BY <1>4
      <3>2. QED BY <1>2, <1>5, <2>1, <3>1 DEF Shows
    <2>3. \A j \in Slot : j < lh'.n /\ lh'.sector[j] = s => j = i
      BY <1>3, <1>5
    <2>4. WriteInv(p)'
      BY <1>2, <1>3, <1>4, <1>5, <2>1, <2>2, <2>3 DEF WriteInv
    <2>5. InstallInv(p)'
      BY <2>1 DEF InstallInv
    <2>6. QED BY <2>4, <2>5
  <1>10. QED BY <1>6, <1>7, <1>8, <1>9 DEF LogInv

(* The write of a log block shows in no header yet. *)
LEMMA LogWriteBlockInv ==
  ASSUME LogInv, NEW p \in Proc, LogWriteBlock(p)
  PROVE  LogInv'
  <1> DEFINE s == wr[p].sector
             i == wr[p].slot
  <1>1. TypeOK /\ Distinct(lh) /\ Distinct(hdr) /\ WriteInv(p)
    BY DEF LogInv
  <1>2. /\ pc[p] = "lw_block" /\ pc' = [pc EXCEPT ![p] = "lw_advance"]
        /\ logblk' = [logblk EXCEPT ![i] = cache[s]]
        /\ UNCHANGED <<home, hdr, lh, busy, cache, bowner, lowner, wr, tail, booting,
                       panicked>>
    BY DEF LogWriteBlock, Goto
  <1>3. i \in Slot /\ s \in Sector /\ lh.sector[i] = s /\ Shows(cache, lh, {s})
    BY <1>1, <1>2 DEF WriteInv
  <1>4. TypeOK'
    BY <1>1, <1>2, <1>3, Zenon DEF TypeOK, Labels
  <1>5. Distinct(lh)' /\ Distinct(hdr)'
    BY <1>1, <1>2 DEF Distinct
  <1>6. /\ BootInv' /\ BusyInv'
        /\ \A q \in Proc \ {p} : WriteInv(q)' /\ InstallInv(q)'
    <2>1. ~booting
      BY <1>2, Zenon DEF LogInv, BootInv
    <2>2. QED BY <1>2, <2>1, StaysInside, Zenon DEF Away, TransLabels, Labels
  <1>7. WriteInv(p)' /\ InstallInv(p)'
    <2>1. /\ pc'[p] = "lw_advance"
          /\ logblk'[i] = cache[s] /\ \A j \in Slot \ {i} : logblk'[j] = logblk[j]
      BY <1>1, <1>2, <1>3 DEF TypeOK
    <2>2. Shows(cache, lh, {wr[p].sector})'
      <3>1. UNCHANGED <<home, lh, cache, wr>>
        BY <1>2
      <3> HIDE DEF i, s
      <3>2. \A t \in Sector \ {s}, j \in Slot :
              j < lh.n /\ lh.sector[j] = t => logblk'[j] = logblk[j]
        BY <1>3, <2>1, Zenon
      <3>3. QED BY <1>3, <3>1, <3>2 DEF Shows, s
    <2>3. WriteInv(p)'
      BY <1>1, <1>2, <2>1, <2>2, Zenon DEF WriteInv
    <2>4. InstallInv(p)'
      BY <2>1 DEF InstallInv
    <2>5. QED BY <2>3, <2>4
  <1>8. QED BY <1>4, <1>5, <1>6, <1>7 DEF LogInv

(* With n advanced the log shows what the cache holds. *)
LEMMA LogWriteAdvanceInv ==
  ASSUME LogInv, NEW p \in Proc, LogWriteAdvance(p)
  PROVE  LogInv'
  <1> DEFINE s == wr[p].sector
             i == wr[p].slot
             n == IF i = lh.n THEN lh.n + 1 ELSE lh.n
  <1>1. TypeOK /\ Distinct(lh) /\ Distinct(hdr) /\ WriteInv(p) /\ pc[p] = "lw_advance"
    BY Zenon DEF LogInv, LogWriteAdvance
  <1>2. /\ lh.n < Capacity /\ s \in Sector /\ i \in Slot /\ i <= lh.n
        /\ lh.sector[i] = s /\ hdr.n = 0 /\ Shows(cache, lh, {s})
        /\ \A j \in Slot : j < lh.n /\ lh.sector[j] = s => j = i
        /\ logblk[i] = cache[s] /\ wr[p].ret = "trans"
    BY <1>1 DEF WriteInv
  <1>3. /\ lh' = [lh EXCEPT !.n = n]
        /\ bowner' = [bowner EXCEPT ![s] = NoProc]
        /\ pc' = [pc EXCEPT ![p] = "trans"]
        /\ wr' = [wr EXCEPT ![p] = NoWrite]
        /\ UNCHANGED <<home, logblk, hdr, busy, cache, lowner, tail, booting, panicked>>
    BY <1>2 DEF LogWriteAdvance, Goto, disk
  <1>4. lh \in Head /\ lh.n \in Nat /\ lh.sector \in [Slot -> Sector \cup {NoSector}]
    BY <1>1 DEF TypeOK, Head
  <1>5. /\ n \in 0 .. Capacity
        /\ \A j \in Slot : j < n <=> j < lh.n \/ j = i
    BY <1>2, <1>4, CapacityFacts
  <1> HIDE DEF i, s, n
  <1>6. lh' \in Head /\ lh'.n = n /\ lh'.sector = lh.sector
    BY <1>3, <1>4, <1>5 DEF Head
  <1>7. TypeOK'
    BY <1>1, <1>2, <1>3, <1>6, BootTypes DEF TypeOK, Labels
  <1>8. Distinct(lh)' /\ Distinct(hdr)'
    BY <1>1, <1>2, <1>3, <1>5, <1>6 DEF Distinct
  <1>9. /\ BootInv' /\ BusyInv'
        /\ \A q \in Proc \ {p} : WriteInv(q)' /\ InstallInv(q)'
    <2>1. ~booting
      BY <1>1 DEF LogInv, BootInv
    <2>2. QED BY <1>1, <1>3, <2>1, StaysInside, Zenon DEF Away, TransLabels, Labels
  <1>10. WriteInv(p)' /\ InstallInv(p)'
    <2>1. pc'[p] = "trans"
      BY <1>1, <1>3 DEF TypeOK
    <2>2. Shows(cache, lh, {})'
      <3>1. UNCHANGED <<home, logblk, cache>>
        BY <1>3
      <3>2. ASSUME NEW t \in Sector
            PROVE  /\ (\A j \in Slot : j < n => lh.sector[j] # t) => cache[t] = home[t]
                   /\ \A j \in Slot : j < n /\ lh.sector[j] = t => cache[t] = logblk[j]
        <4>1. CASE t = s
          BY <1>2, <1>5, <4>1
        <4>2. CASE t # s
          BY <1>2, <1>5, <4>2 DEF Shows
        <4>3. QED BY <4>1, <4>2
      <3>3. QED BY <1>6, <3>1, <3>2 DEF Shows
    <2>3. QED BY <1>2, <1>3, <2>1, <2>2 DEF WriteInv, InstallInv
  <1>11. QED BY <1>7, <1>8, <1>9, <1>10 DEF LogInv

(* commit_trans without writes has nothing to do. *)
LEMMA CommitTransInv ==
  ASSUME LogInv, NEW p \in Proc, CommitTrans(p)
  PROVE  LogInv'
  <1> DEFINE l == IF lh.n > 0 THEN "ct_head" ELSE "ct_end"
  <1>1. TypeOK /\ Distinct(lh) /\ Distinct(hdr) /\ WriteInv(p)
    BY DEF LogInv
  <1>2. /\ pc[p] = "trans" /\ pc' = [pc EXCEPT ![p] = l]
        /\ UNCHANGED <<home, logblk, hdr, lh, busy, cache, bowner, lowner, wr, tail,
                       booting, panicked>>
    BY Zenon DEF CommitTrans, Goto, disk
  <1>3. TypeOK' /\ Distinct(lh)' /\ Distinct(hdr)'
    BY <1>1, <1>2 DEF TypeOK, Distinct, Labels
  <1>4. /\ BootInv' /\ BusyInv'
        /\ \A q \in Proc \ {p} : WriteInv(q)' /\ InstallInv(q)'
    <2>1. ~booting
      BY <1>2 DEF LogInv, BootInv
    <2>2. l \in TransLabels
      BY DEF TransLabels, Labels
    <2>3. QED BY <1>2, <2>1, <2>2, StaysInside, Zenon DEF Away
  <1>5. WriteInv(p)' /\ InstallInv(p)'
    <2>1. pc'[p] = l /\ lh.n \in Nat /\ hdr.n = 0 /\ Shows(cache, lh, {})
      BY <1>1, <1>2 DEF TypeOK, WriteInv, Head
    <2>2. Shows(cache, lh, {})'
      BY <1>2, <2>1, Zenon DEF Shows
    <2>3. WriteInv(p)'
      BY <1>2, <2>1, <2>2, SMTT(30) DEF WriteInv
    <2>4. lh.n = 0 => cache = home
      BY <1>1, <2>1, CapacityFacts DEF Shows, TypeOK
    <2>5. InstallInv(p)'
      BY <1>2, <2>1, <2>4 DEF InstallInv
    <2>6. QED BY <2>3, <2>5
  <1>6. QED BY <1>3, <1>4, <1>5 DEF LogInv

(* write_head: the header on disk now lists what memory lists. *)
LEMMA WriteHeadInv ==
  ASSUME LogInv, NEW p \in Proc, WriteHead(p)
  PROVE  LogInv'
  <1>1. TypeOK /\ Distinct(lh) /\ Distinct(hdr) /\ WriteInv(p)
    BY DEF LogInv
  <1>2. /\ pc[p] = "ct_head" /\ pc' = [pc EXCEPT ![p] = "it_read"] /\ tail' = 0
        /\ hdr' = CopyHead(lh, hdr)
        /\ UNCHANGED <<home, logblk, lh, busy, cache, bowner, lowner, wr, booting,
                       panicked>>
    BY DEF WriteHead, Goto
  <1>3. hdr' \in Head /\ lh.n \in 0 .. Capacity
    BY <1>1, <1>2, Zenon DEF CopyHead, Head, TypeOK
  <1>4. SameHead'
    BY <1>2 DEF SameHead, CopyHead
  <1>5. TypeOK'
    <2>1. tail' \in 0 .. Capacity
      BY <1>2, CapacityFacts
    <2>2. QED BY <1>1, <1>2, <1>3, <2>1 DEF TypeOK, Labels
  <1>6. Distinct(lh)' /\ Distinct(hdr)'
    BY <1>1, <1>2, <1>4 DEF Distinct, SameHead
  <1>7. /\ BootInv' /\ BusyInv'
        /\ \A q \in Proc \ {p} : WriteInv(q)' /\ InstallInv(q)'
    <2>1. ~booting
      BY <1>2, Zenon DEF LogInv, BootInv
    <2>2. QED BY <1>2, <2>1, StaysInside, Zenon DEF Away, TransLabels, Labels
  <1>8. WriteInv(p)' /\ InstallInv(p)'
    <2>1. pc'[p] = "it_read" /\ Shows(cache, lh, {})
      BY <1>1, <1>2 DEF TypeOK, WriteInv
    <2>2. Shows(cache, hdr, {})'
      <3>1. UNCHANGED <<home, logblk, lh, cache>>
        BY <1>2
      <3>2. QED BY <1>4, <2>1, <3>1 DEF Shows, SameHead
    <2>3. Installed(hdr, tail)' /\ tail' <= lh'.n
      BY <1>2, <1>3, CapacityFacts DEF Installed
    <2>4. QED BY <1>4, <2>1, <2>2, <2>3, Zenon DEF WriteInv, InstallInv
  <1>9. QED BY <1>5, <1>6, <1>7, <1>8 DEF LogInv

(* install_trans reads a log block. *)
LEMMA InstallReadInv ==
  ASSUME LogInv, NEW p \in Proc, InstallRead(p)
  PROVE  LogInv'
  <1>1. TypeOK /\ Distinct(lh) /\ Distinct(hdr) /\ InstallInv(p)
    BY DEF LogInv
  <1>2. /\ pc[p] = "it_read" /\ pc' = [pc EXCEPT ![p] = "it_write"] /\ tail < lh.n
        /\ lowner' = [lowner EXCEPT ![tail] = p]
        /\ UNCHANGED <<home, logblk, hdr, lh, busy, cache, bowner, wr, tail, booting,
                       panicked>>
    BY DEF InstallRead, Goto, disk
  <1>3. TypeOK'
    BY <1>1, <1>2, Zenon DEF TypeOK, Labels
  <1>4. Distinct(lh)' /\ Distinct(hdr)'
    BY <1>1, <1>2 DEF Distinct
  <1>5. /\ BootInv' /\ BusyInv'
        /\ \A q \in Proc \ {p} : WriteInv(q)' /\ InstallInv(q)'
    <2>1. booting => cache' = home'
      BY <1>2 DEF LogInv, BootInv
    <2>2. QED BY <1>2, <2>1, StaysInside, Zenon DEF Away, Recovery, TransLabels, Labels
  <1>6. WriteInv(p)' /\ InstallInv(p)'
    <2>1. /\ pc'[p] = "it_write" /\ SameHead /\ Installed(hdr, tail) /\ tail <= lh.n
          /\ ~booting => Shows(cache, hdr, {})
      BY <1>1, <1>2, SMTT(30) DEF TypeOK, InstallInv
    <2>2. SameHead' /\ Installed(hdr, tail)' /\ (~booting => Shows(cache, hdr, {}))'
      BY <1>2, <2>1, SMTT(30) DEF SameHead, Installed, Shows
    <2>3. QED BY <1>2, <2>1, <2>2, Zenon DEF WriteInv, InstallInv
  <1>7. QED BY <1>3, <1>4, <1>5, <1>6 DEF LogInv

(* install_trans copies one more listed block home. *)
LEMMA InstallWriteInv ==
  ASSUME LogInv, NEW p \in Proc, InstallWrite(p)
  PROVE  LogInv'
  <1> DEFINE s == lh.sector[tail]
  <1>1. TypeOK /\ Distinct(lh) /\ Distinct(hdr) /\ InstallInv(p)
    BY DEF LogInv
  <1>2. /\ pc[p] = "it_write" /\ pc' = [pc EXCEPT ![p] = "it_read"]
        /\ home' = [home EXCEPT ![s] = logblk[tail]]
        /\ cache' = [cache EXCEPT ![s] = logblk[tail]]
        /\ lowner' = [lowner EXCEPT ![tail] = NoProc]
        /\ tail' = tail + 1
        /\ UNCHANGED <<logblk, hdr, lh, busy, bowner, wr, booting, panicked>>
    BY DEF InstallWrite, Goto
  <1>3. /\ SameHead /\ Installed(hdr, tail) /\ (~booting => Shows(cache, hdr, {}))
        /\ tail < lh.n /\ tail \in Nat /\ lh.n \in 0 .. Capacity
    BY <1>1, <1>2 DEF InstallInv, TypeOK, Head
  <1>4. /\ tail \in Slot /\ tail + 1 \in 0 .. Capacity /\ tail + 1 <= lh.n
        /\ \A j \in Slot : j < tail + 1 <=> j < tail \/ j = tail
    BY <1>3, CapacityFacts, SMTT(30)
  <1>5. s \in Sector /\ s = hdr.sector[tail] /\ hdr.n = lh.n
    BY <1>1, <1>3, <1>4, Zenon DEF Distinct, SameHead
  <1> HIDE DEF s
  <1>6. TypeOK'
    BY <1>1, <1>2, <1>4, <1>5, SMTT(30) DEF TypeOK, Labels
  <1>7. Distinct(lh)' /\ Distinct(hdr)'
    BY <1>1, <1>2, Zenon DEF Distinct
  <1>8. /\ BootInv' /\ BusyInv'
        /\ \A q \in Proc \ {p} : WriteInv(q)' /\ InstallInv(q)'
    <2>1. booting => cache' = home'
      BY <1>2, Zenon DEF LogInv, BootInv
    <2>2. QED BY <1>2, <2>1, StaysInside, Zenon DEF Away, Recovery, TransLabels, Labels
  <1>9. WriteInv(p)' /\ InstallInv(p)'
    <2>1. /\ pc'[p] = "it_read"
          /\ home'[s] = logblk[tail] /\ \A t \in Sector \ {s} : home'[t] = home[t]
          /\ cache'[s] = logblk[tail] /\ \A t \in Sector \ {s} : cache'[t] = cache[t]
      BY <1>1, <1>2, <1>5, Zenon DEF TypeOK
    <2>2. SameHead' /\ tail' <= lh'.n
      BY <1>2, <1>3, <1>4, Zenon DEF SameHead
    <2>3. Installed(hdr, tail)'
      <3>1. ASSUME NEW j \in Slot, j < tail + 1
            PROVE  home'[hdr.sector[j]] = logblk[j]
        <4>1. CASE j = tail
          BY <1>5, <2>1, <4>1
        <4>2. CASE j < tail
          <5>1. j < hdr.n /\ tail < hdr.n /\ j # tail
            BY <1>3, <1>5, <4>2, CapacityFacts
          <5>2. hdr.sector[j] \in Sector \ {s} /\ home[hdr.sector[j]] = logblk[j]
            BY <1>1, <1>3, <1>4, <1>5, <4>2, <5>1, Zenon DEF Installed, Distinct
          <5>3. QED BY <2>1, <5>2
        <4>3. QED BY <1>4, <3>1, <4>1, <4>2
      <3>2. QED BY <1>2, <3>1 DEF Installed
    <2>4. ASSUME ~booting PROVE Shows(cache, hdr, {})'
      <3>1. cache[s] = logblk[tail]
        BY <1>3, <1>4, <1>5, <2>4, Zenon DEF Shows
      <3>2. \A t \in Sector : cache'[t] = cache[t]
        BY <2>1, <3>1, Zenon
      <3>3. \A t \in Sector : (\A j \in Slot : j < hdr.n => hdr.sector[j] # t) => t # s
        BY <1>3, <1>4, <1>5
      <3>4. UNCHANGED <<logblk, hdr>>
        BY <1>2, SMTT(30)
      <3>5. QED BY <1>3, <2>1, <2>4, <3>2, <3>3, <3>4, ZenonT(30) DEF Shows
    <2>5. WriteInv(p)'
      BY <2>1 DEF WriteInv
    <2>6. InstallInv(p)'
      BY <1>2, <2>1, <2>2, <2>3, <2>4 DEF InstallInv
    <2>7. QED BY <2>5, <2>6
  <1>10. QED BY <1>6, <1>7, <1>8, <1>9 DEF LogInv

(* Everything listed is home when the loop of install_trans ends. *)
LEMMA InstallDoneInv ==
  ASSUME LogInv, NEW p \in Proc, InstallDone(p)
  PROVE  LogInv'
  <1>1. TypeOK /\ Distinct(lh) /\ Distinct(hdr) /\ InstallInv(p)
    BY DEF LogInv
  <1>2. /\ pc[p] = "it_read" /\ pc' = [pc EXCEPT ![p] = "clear_head"]
        /\ tail >= lh.n /\ lh' = [lh EXCEPT !.n = 0] /\ tail' = 0
        /\ UNCHANGED <<home, logblk, hdr, busy, cache, bowner, lowner, wr, booting,
                       panicked>>
    BY DEF InstallDone, Goto, disk
  <1>3. lh' \in Head /\ lh'.n = 0
    <2>1. lh \in Head
      BY <1>1 DEF TypeOK
    <2>2. QED BY <1>2, <2>1, CapacityFacts DEF Head
  <1>4. TypeOK'
    <2>1. tail' \in 0 .. Capacity
      BY <1>2, CapacityFacts
    <2>2. QED BY <1>1, <1>2, <1>3, <2>1 DEF TypeOK, Labels
  <1>5. Distinct(lh)' /\ Distinct(hdr)'
    BY <1>1, <1>2, <1>3, CapacityFacts DEF Distinct
  <1>6. /\ BootInv' /\ BusyInv'
        /\ \A q \in Proc \ {p} : WriteInv(q)' /\ InstallInv(q)'
    <2>1. booting => cache' = home'
      BY <1>2 DEF LogInv, BootInv
    <2>2. QED BY <1>2, <2>1, StaysInside, Zenon DEF Away, Recovery, TransLabels, Labels
  <1>7. WriteInv(p)' /\ InstallInv(p)'
    <2>1. /\ pc'[p] = "clear_head" /\ hdr.n = tail
          /\ Installed(hdr, hdr.n) /\ (~booting => Shows(cache, hdr, {}))
      BY <1>1, <1>2, CapacityFacts DEF TypeOK, Head, InstallInv, SameHead, Installed
    <2>2. Installed(hdr, hdr.n)'
      BY <1>2, <2>1 DEF Installed
    <2>3. ~booting => cache = home
      BY <1>1, <2>1 DEF Shows, Installed, TypeOK
    <2>4. QED BY <1>2, <1>3, <2>1, <2>2, <2>3 DEF WriteInv, InstallInv
  <1>8. QED BY <1>4, <1>5, <1>6, <1>7 DEF LogInv

(* Erasing the header is safe because everything it listed is home. *)
LEMMA ClearHeadInv ==
  ASSUME LogInv, NEW p \in Proc, ClearHead(p)
  PROVE  LogInv'
  <1> DEFINE l == IF booting THEN "idle" ELSE "ct_end"
  <1>1. TypeOK /\ Distinct(lh) /\ Distinct(hdr) /\ InstallInv(p)
    BY DEF LogInv
  <1>2. /\ pc[p] = "clear_head" /\ pc' = [pc EXCEPT ![p] = l]
        /\ hdr' = CopyHead(lh, hdr) /\ booting' = FALSE
        /\ UNCHANGED <<home, logblk, lh, busy, cache, bowner, lowner, wr, tail, panicked>>
    BY DEF ClearHead, Goto
  <1>3. lh.n = 0 /\ hdr'.n = 0 /\ cache = home /\ hdr' \in Head
    <2>1. lh.n = 0 /\ cache = home
      BY <1>1, <1>2 DEF InstallInv, LogInv, BootInv
    <2>2. QED BY <1>1, <1>2, <2>1, Zenon DEF CopyHead, Head, TypeOK
  <1>4. TypeOK'
    BY <1>1, <1>2, <1>3, Zenon DEF TypeOK, Labels
  <1>5. Distinct(lh)' /\ Distinct(hdr)'
    <2>1. lh'.n = 0 /\ hdr'.n = 0
      BY <1>2, <1>3
    <2>2. Distinct(lh') /\ Distinct(hdr')
      BY ONLY <2>1, EmptyDistinct
    <2>3. QED BY ONLY <2>2 DEF Distinct
  <1>6. pc'[p] = l /\ \A q \in Proc \ {p} : pc'[q] = pc[q] /\ pc[q] \in Away
    BY <1>1, <1>2, Alone DEF TypeOK, Away
  <1>7. BusyInv'
    <2>1. CASE booting
      <3>1. ~busy /\ \A q \in Proc : pc'[q] = "idle"
        <4>1. p = initproc
          BY <1>2, <2>1 DEF LogInv, BootInv
        <4>2. QED BY <1>6, <2>1, <4>1 DEF LogInv, BootInv
      <3>2. QED BY <1>2, <1>3, <3>1 DEF BusyInv, TransLabels
    <2>2. CASE ~booting
      <3>1. busy
        BY <1>2, <2>2 DEF LogInv, BusyInv, TransLabels, Labels
      <3>2. QED BY <1>2, <1>6, <2>2, <3>1 DEF BusyInv, Away, TransLabels, Labels
    <2>3. QED BY <2>1, <2>2
  <1>8. BootInv'
    BY <1>2 DEF BootInv
  <1>9. ASSUME NEW q \in Proc PROVE WriteInv(q)' /\ InstallInv(q)'
    <2>1. CASE pc'[q] \in Away
      BY <2>1, AwayInv, Zenon
    <2>2. CASE pc'[q] \notin Away
      <3>1. pc'[q] = "ct_end"
        BY <1>6, <2>2 DEF Away
      <3>2. QED BY <1>2, <1>3, <3>1 DEF WriteInv, InstallInv
    <2>3. QED BY <2>1, <2>2
  <1>10. QED BY <1>4, <1>5, <1>7, <1>8, <1>9 DEF LogInv

(* commit_trans leaves an erased log and a clean cache. *)
LEMMA EndTransInv ==
  ASSUME LogInv, NEW p \in Proc, EndTrans(p)
  PROVE  LogInv'
  <1>1. TypeOK /\ Distinct(lh) /\ Distinct(hdr) /\ InstallInv(p)
    BY DEF LogInv
  <1>2. /\ pc[p] = "ct_end" /\ busy' = FALSE
        /\ pc' \in [Proc -> Labels]
        /\ UNCHANGED <<home, logblk, hdr, lh, cache, bowner, lowner, wr, tail, booting,
                       panicked>>
    BY <1>1 DEF EndTrans, disk, TypeOK, Labels
  <1>3. \A q \in Proc : pc'[q] \in {"idle", "begin"}
    <2>1. \A q \in Proc \ {p} : pc[q] \in Away
      BY <1>2, Alone DEF Away
    <2>2. QED BY <2>1 DEF EndTrans, Away
  <1>4. hdr.n = 0 /\ lh.n = 0 /\ cache = home /\ ~booting
    BY <1>1, <1>2 DEF InstallInv, LogInv, BootInv
  <1>5. TypeOK'
    BY <1>1, <1>2, ZenonT(30) DEF TypeOK
  <1>6. Distinct(lh)' /\ Distinct(hdr)'
    BY <1>1, <1>2 DEF Distinct
  <1>7. BootInv' /\ BusyInv'
    BY <1>2, <1>3, <1>4 DEF BootInv, BusyInv, TransLabels
  <1>8. ASSUME NEW q \in Proc PROVE WriteInv(q)' /\ InstallInv(q)'
    BY <1>3, AwayInv DEF Away
  <1>9. QED BY <1>5, <1>6, <1>7, <1>8 DEF LogInv

(* begin_trans enters a transaction only from the quiescent state. *)
LEMMA BeginTransInv ==
  ASSUME LogInv, NEW p \in Proc, BeginTrans(p)
  PROVE  LogInv'
  <1> USE CapacityFacts, ProcAssumption, SectorAssumption
  <1>0. /\ UNCHANGED <<home, logblk, hdr, lh, cache, bowner, lowner, wr, tail,
                       booting, panicked>>
        /\ ~booting /\ pc[p] \in {"idle", "begin"}
        /\ \A q \in Proc \ {p} : pc'[q] = pc[q]
        /\ \/ busy /\ busy' /\ pc'[p] = "asleep"
           \/ ~busy /\ busy' /\ pc'[p] = "trans"
    BY DEF BeginTrans, Goto, disk, LogInv, TypeOK
  <1>1. TypeOK'
    BY Zenon DEF LogInv, TypeOK, BeginTrans, Goto, disk, Labels
  <1>2. Distinct(lh)' /\ Distinct(hdr)'
    BY <1>0, ZenonT(30) DEF LogInv, Distinct
  <1>3. BootInv'
    BY <1>0 DEF BootInv
  <1>4. BusyInv'
    <2>1. BusyInv /\ ~booting
      BY <1>0 DEF LogInv
    <2>2. CASE busy /\ busy' /\ pc'[p] = "asleep"
      BY ONLY <1>0, <2>1, <2>2 DEF BusyInv, TransLabels
    <2>3. CASE ~busy /\ busy' /\ pc'[p] = "trans"
      <3>1. \A q \in Proc \ {p} : pc'[q] \notin TransLabels /\ pc'[q] # "initlog"
        BY ONLY <1>0, <2>1, <2>3 DEF BusyInv
      <3>2. pc'[p] \in TransLabels /\ pc'[p] # "initlog"
        BY ONLY <2>3 DEF TransLabels, Labels
      <3>3. QED BY ONLY <2>3, <3>1, <3>2, p \in Proc DEF BusyInv
    <2>4. QED BY <1>0, <2>2, <2>3
  <1>5. WriteInv(p)' /\ InstallInv(p)'
    <2>1. CASE busy
      BY <1>0, <2>1, AwayInv, Zenon DEF Away
    <2>2. CASE ~busy
      <3>1. hdr.n = 0 /\ lh.n = 0 /\ cache = home
        BY <1>0, <2>2, Zenon DEF LogInv, BusyInv
      <3>2. Shows(cache, lh, {})'
        BY <1>0, <3>1 DEF Shows
      <3>3. QED BY <1>0, <2>2, <3>1, <3>2, Zenon DEF WriteInv, InstallInv
    <2>3. QED BY <2>1, <2>2
  <1>6. ASSUME NEW q \in Proc \ {p} PROVE WriteInv(q)' /\ InstallInv(q)'
    BY <1>0, UnchangedInv DEF LogInv
  <1>7. QED BY <1>1, <1>2, <1>3, <1>4, <1>5, <1>6 DEF LogInv

(* A block changed in the cache is the only one the log does not show. *)
LEMMA ModifyInv ==
  ASSUME LogInv, NEW p \in Proc, NEW s \in Sector, NEW v \in Val,
         Modify(p, "trans", s, v)
  PROVE  LogInv'
  <1> USE CapacityFacts, ProcAssumption, SectorAssumption
  <1>0. /\ pc[p] = "trans" /\ pc' = [pc EXCEPT ![p] = "lw_scan"]
        /\ cache' = [cache EXCEPT ![s] = v]
        /\ bowner' = [bowner EXCEPT ![s] = p]
        /\ wr' = [wr EXCEPT ![p] = [sector |-> s, slot |-> 0, ret |-> "trans"]]
        /\ UNCHANGED <<home, logblk, hdr, lh, busy, lowner, tail, booting, panicked>>
    BY Zenon DEF Modify, Goto, disk
  <1>1. TypeOK'
    <2>1. [sector |-> s, slot |-> 0, ret |-> "trans"] \in WriteRec
      BY SMTT(30) DEF WriteRec
    <2>2. QED BY <1>0, <2>1 DEF LogInv, TypeOK, Labels
  <1>2. Distinct(lh)' /\ Distinct(hdr)'
    BY <1>0, Zenon DEF LogInv, Distinct
  <1>3. BootInv'
    BY <1>0 DEF LogInv, BootInv, TypeOK
  <1>4. /\ BusyInv'
        /\ \A q \in Proc \ {p} : WriteInv(q)' /\ InstallInv(q)'
    <2>1. ~booting
      BY <1>0 DEF LogInv, BootInv
    <2>2. QED BY <1>0, <2>1, StaysInside, Zenon DEF Away, TransLabels, Labels
  <1>5. WriteInv(p)' /\ InstallInv(p)'
    <2>1. /\ pc'[p] = "lw_scan" /\ wr'[p].sector = s /\ wr'[p].ret = "trans"
          /\ \A t \in Sector \ {s} : cache'[t] = cache[t]
      BY <1>0, SMTT(30) DEF LogInv, TypeOK
    <2>2. hdr.n = 0 /\ Shows(cache, lh, {})
      BY <1>0, ZenonT(30) DEF LogInv, WriteInv
    <2>3. Shows(cache, lh, {wr[p].sector})'
      <3>1. UNCHANGED <<home, logblk, lh>>
        BY <1>0
      <3>2. QED BY <2>1, <2>2, <3>1 DEF Shows
    <2>4. QED BY <1>0, <2>1, <2>2, <2>3, Zenon DEF WriteInv, InstallInv
  <1>6. QED BY <1>1, <1>2, <1>3, <1>4, <1>5 DEF LogInv

(* A crash keeps the disk, and the disk alone determines recovery. *)
LEMMA CrashInv ==
  ASSUME LogInv, Crash
  PROVE  LogInv'
  <1> USE CapacityFacts, ProcAssumption, SectorAssumption
  <1>0. /\ UNCHANGED <<home, logblk, hdr>> /\ cache' = home /\ ~busy' /\ booting'
        /\ lh' = EmptyHead /\ pc' = BootPC /\ lh'.n = 0
    BY Zenon DEF Crash, disk, EmptyHead
  <1>1. TypeOK'
    <2>1. busy' \in BOOLEAN /\ booting' \in BOOLEAN /\ panicked' \in BOOLEAN
      BY Zenon DEF Crash
    <2>2. tail' \in 0 .. Capacity
      BY DEF Crash
    <2>3. QED BY <2>1, <2>2, BootTypes DEF LogInv, TypeOK, Crash, disk
  <1>2. Distinct(lh)' /\ Distinct(hdr)'
    <2>1. Distinct(lh') /\ Distinct(hdr)
      BY <1>0, EmptyDistinct DEF LogInv
    <2>2. QED BY ONLY <1>0, <2>1 DEF Distinct
  <1>3. BootInv' /\ BusyInv'
    BY <1>0, Zenon DEF BootInv, BusyInv, BootPC
  <1>4. ASSUME NEW q \in Proc PROVE WriteInv(q)' /\ InstallInv(q)'
    BY <1>0 DEF WriteInv, InstallInv, BootPC
  <1>5. QED BY <1>1, <1>2, <1>3, <1>4 DEF LogInv

(* The invariant holds at the first boot. *)
LEMMA InitInv == Init => LogInv
  <1> USE CapacityFacts, ProcAssumption, SectorAssumption
  <1> SUFFICES ASSUME Init PROVE LogInv
    OBVIOUS
  <1>1. TypeOK
    <2>1. busy \in BOOLEAN /\ booting \in BOOLEAN /\ panicked \in BOOLEAN
      BY Zenon DEF Init
    <2>2. tail \in 0 .. Capacity
      BY DEF Init
    <2>3. QED BY <2>1, <2>2, BootTypes DEF TypeOK, Init
  <1>2. Distinct(lh) /\ Distinct(hdr)
    BY DEF Init, Distinct, EmptyHead
  <1>3. BootInv /\ BusyInv
    BY Zenon DEF Init, BootInv, BusyInv, BootPC
  <1>4. ASSUME NEW q \in Proc PROVE WriteInv(q) /\ InstallInv(q)
    BY DEF Init, WriteInv, InstallInv, BootPC
  <1>5. QED BY <1>1, <1>2, <1>3, <1>4 DEF LogInv

(* The invariant holds across stuttering steps. *)
LEMMA StutterInv ==
  ASSUME LogInv, UNCHANGED vars
  PROVE  LogInv'
  <1>1. TypeOK' /\ Distinct(lh)' /\ Distinct(hdr)' /\ BootInv' /\ BusyInv'
    BY Zenon DEF LogInv, vars, TypeOK, Distinct, BootInv, BusyInv
  <1>2. ASSUME NEW p \in Proc PROVE WriteInv(p)' /\ InstallInv(p)'
    BY UnchangedInv DEF LogInv, vars
  <1>3. QED BY <1>1, <1>2, SMTT(30) DEF LogInv

(* Every step of the specification preserves the invariant. *)
LEMMA NextInv ==
  ASSUME LogInv, [Next]_vars
  PROVE  LogInv'
  <1>1. ASSUME NEW p \in Proc, Step(p) PROVE LogInv'
    <2>1. CASE Continue(p)
      BY <2>1, ReadHeadInv, LogWritePanicInv, LogWriteScanInv, LogWriteBlockInv,
         LogWriteAdvanceInv, WriteHeadInv, InstallReadInv, InstallWriteInv,
         InstallDoneInv, ClearHeadInv, EndTransInv DEF Continue
    <2>2. CASE \E s \in Sector, v \in Val : Modify(p, "trans", s, v)
      BY <2>2, ModifyInv
    <2>3. QED BY <1>1, <2>1, <2>2, BeginTransInv, CommitTransInv DEF Step
  <1>2. QED BY <1>1, CrashInv, StutterInv DEF Next

(* LogInv is an invariant of the log: cache, log blocks, headers and home blocks
   agree at every point of a transaction, an installation and a recovery, for
   every number of processes, sectors and log blocks. *)
THEOREM LogInvariant == Spec => []LogInv
  <1>1. Init => LogInv
    BY InitInv
  <1>2. LogInv /\ [Next]_vars => LogInv'
    BY NextInv
  <1>3. QED BY <1>1, <1>2, PTL DEF Spec

(* The state of log.c stays well typed; in particular log_write never runs past
   the end of the log. *)
THEOREM TypeCorrect == Spec => []TypeOK
  <1>1. LogInv => TypeOK
    BY DEF LogInv
  <1>2. QED BY <1>1, LogInvariant, PTL

(* begin_trans admits one system call at a time and leaves no sleeper behind. *)
THEOREM OneTransactionHolds == Spec => []OneTransaction
  <1>1. LogInv => OneTransaction
    BY ProcAssumption DEF LogInv, BootInv, BusyInv, OneTransaction, InTrans
  <1>2. QED BY <1>1, LogInvariant, PTL

(* When commit_trans has returned, the log is erased and cache and disk agree. *)
THEOREM QuiescentHolds == Spec => []Quiescent
  <1>1. LogInv => Quiescent
    BY Zenon DEF LogInv, BusyInv, Quiescent, InTrans
  <1>2. QED BY <1>1, LogInvariant, PTL

(* install_trans is the only code that writes a home block. *)
LEMMA OnlyInstallWritesHome ==
  ASSUME LogInv, [Next]_vars, home' # home
  PROVE  \E p \in Proc : InstallWrite(p)
  BY DEF Next, Step, Continue, vars, disk, ReadHead, BeginTrans, Modify, LogWritePanic,
         LogWriteScan, LogWriteBlock, LogWriteAdvance, CommitTrans, WriteHead,
         InstallRead, InstallDone, ClearHead, EndTrans, Crash

(* The write-ahead rule: a home block is overwritten only while the header on
   disk lists it, with the content of its log block. *)
THEOREM WriteAheadHolds == Spec => WriteAhead
  <1> DEFINE Rule == \A s \in Sector : home'[s] # home[s] =>
        \E i \in Slot : i < hdr.n /\ hdr.sector[i] = s /\ home'[s] = logblk[i]
  <1>1. ASSUME LogInv, [Next]_vars PROVE [Rule]_vars
    <2>1. CASE home' = home
      BY <2>1, Zenon
    <2>2. CASE home' # home
      <3>1. PICK p \in Proc : InstallWrite(p)
        BY <1>1, <2>2, OnlyInstallWritesHome, Zenon
      <3>2. /\ tail \in Slot /\ tail < hdr.n /\ hdr.sector[tail] = lh.sector[tail]
            /\ home \in [Sector -> Val]
        BY <1>1, <3>1, CapacityFacts, SMTT(30)
           DEF InstallWrite, LogInv, InstallInv, SameHead, TypeOK, Head
      <3>3. \A s \in Sector : home'[s] # home[s] =>
              s = lh.sector[tail] /\ home'[s] = logblk[tail]
        BY <3>1, <3>2, Zenon DEF InstallWrite
      <3>4. QED BY <3>2, <3>3
    <2>3. QED BY <2>1, <2>2
  <1>2. QED BY <1>1, LogInvariant, PTL DEF Spec, WriteAhead

(* Onto is the only function that shows the home blocks under the log blocks. *)
LEMMA OntoUnique ==
  ASSUME NEW hm, NEW lb, NEW h, h.n \in 0 .. Capacity, Distinct(h),
         NEW c \in [Sector -> Val],
         \A s \in Sector :
           /\ (\A i \in Slot : i < h.n => h.sector[i] # s) => c[s] = hm[s]
           /\ \A i \in Slot : i < h.n /\ h.sector[i] = s => c[s] = lb[i]
  PROVE  c = Onto(hm, lb, h)
  <1>1. ASSUME NEW s \in Sector PROVE c[s] = Onto(hm, lb, h)[s]
    <2>1. CASE SlotsOf(h, s) = {}
      BY <2>1, Zenon DEF SlotsOf, Onto
    <2>2. CASE SlotsOf(h, s) # {}
      <3>1. PICK i \in SlotsOf(h, s) : TRUE
        BY <2>2, Zenon
      <3>2. i \in Slot /\ i < h.n /\ h.sector[i] = s /\ \A j \in SlotsOf(h, s) : j = i
        BY <3>1, Zenon DEF SlotsOf, Distinct
      <3>3. \A j \in SlotsOf(h, s) : j <= i
        <4>1. i <= i
          BY <3>2, CapacityFacts
        <4>2. QED BY <3>2, <4>1, Zenon
      <3>4. (CHOOSE k \in SlotsOf(h, s) : \A j \in SlotsOf(h, s) : j <= k) = i
        BY <3>1, <3>2, <3>3, SMTT(30)
      <3>5. Onto(hm, lb, h)[s] = lb[i]
        BY <2>2, <3>4, Zenon DEF Onto
      <3>6. QED BY <3>2, <3>5, Zenon
    <2>3. QED BY <2>1, <2>2, Zenon
  <1>2. Onto(hm, lb, h) = [s \in Sector |-> Onto(hm, lb, h)[s]]
    BY DEF Onto
  <1>3. QED BY <1>1, <1>2, Zenon

(* An empty header covers nothing. *)
LEMMA OntoEmpty ==
  ASSUME NEW hm \in [Sector -> Val], NEW lb, NEW h, h.n = 0
  PROVE  Onto(hm, lb, h) = hm
  <1>1. \A s \in Sector : SlotsOf(h, s) = {}
    BY CapacityFacts DEF SlotsOf
  <1>2. QED BY <1>1 DEF Onto

(* Onto looks at home blocks only where the header lists nothing. *)
LEMMA OntoMoved ==
  ASSUME NEW hm, NEW hm2, NEW lb, NEW h,
         \A s \in Sector : SlotsOf(h, s) = {} => hm2[s] = hm[s]
  PROVE  Onto(hm2, lb, h) = Onto(hm, lb, h)
  <1> DEFINE pick(s) == lb[CHOOSE i \in SlotsOf(h, s) : \A j \in SlotsOf(h, s) : j <= i]
  <1>1. /\ Onto(hm2, lb, h) = [s \in Sector |-> IF SlotsOf(h, s) = {} THEN hm2[s] ELSE pick(s)]
        /\ Onto(hm, lb, h) = [s \in Sector |-> IF SlotsOf(h, s) = {} THEN hm[s] ELSE pick(s)]
    BY DEF Onto
  <1> HIDE DEF pick
  <1>2. QED BY <1>1

(* Blocks that are home already are not changed by copying them again. *)
LEMMA OntoInstalled ==
  ASSUME LogInv, Installed(hdr, hdr.n)
  PROVE  Durable = home
  <1>1. hdr.n \in 0 .. Capacity /\ Distinct(hdr) /\ home \in [Sector -> Val]
    BY SMTT(30) DEF LogInv, TypeOK, Head
  <1>2. \A i \in Slot : i < hdr.n => home[hdr.sector[i]] = logblk[i]
    BY DEF Installed
  <1>3. \A s \in Sector :
          /\ (\A i \in Slot : i < hdr.n => hdr.sector[i] # s) => home[s] = home[s]
          /\ \A i \in Slot : i < hdr.n /\ hdr.sector[i] = s => home[s] = logblk[i]
    BY ONLY <1>2, Zenon
  <1>4. home = Onto(home, logblk, hdr)
    BY ONLY <1>1, <1>3, OntoUnique
  <1>5. QED BY <1>4, SMTT(30) DEF Durable

(* What survives a crash is a content for every sector. *)
LEMMA DurableType == LogInv => Durable \in [Sector -> Val]
  <1> SUFFICES ASSUME LogInv PROVE Durable \in [Sector -> Val]
    OBVIOUS
  <1>1. ASSUME NEW t \in Sector
        PROVE  (IF SlotsOf(hdr, t) = {} THEN home[t]
                ELSE logblk[CHOOSE i \in SlotsOf(hdr, t) :
                              \A j \in SlotsOf(hdr, t) : j <= i]) \in Val
    <2>1. CASE SlotsOf(hdr, t) = {}
      BY <2>1 DEF LogInv, TypeOK
    <2>2. CASE SlotsOf(hdr, t) # {}
      <3>1. PICK i \in SlotsOf(hdr, t) : TRUE
        BY <2>2
      <3>2. \A j \in SlotsOf(hdr, t) : j = i /\ j \in Slot
        BY <3>1 DEF SlotsOf, LogInv, Distinct
      <3>3. \A j \in SlotsOf(hdr, t) : j <= i
        BY <3>1, <3>2, CapacityFacts
      <3>4. (CHOOSE k \in SlotsOf(hdr, t) : \A j \in SlotsOf(hdr, t) : j <= k) \in Slot
        BY <3>1, <3>2, <3>3
      <3>5. QED BY <2>2, <3>4 DEF LogInv, TypeOK
    <2>3. QED BY <2>1, <2>2
  <1>2. QED BY <1>1, Zenon DEF Durable, Onto

(* The process in the transaction is the only one inside. *)
LEMMA InsideIs ==
  ASSUME LogInv, NEW p \in Proc, InTrans(p)
  PROVE  Inside = {p}
  BY DEF LogInv, BusyInv, Inside, InTrans

(* The same in the next state. *)
LEMMA InsideIsNext ==
  ASSUME LogInv', NEW p \in Proc, InTrans(p)'
  PROVE  Inside' = {p}
  BY DEF LogInv, BusyInv, Inside, InTrans

(* Nobody is inside during recovery or when the log is not busy. *)
LEMMA NobodyInside ==
  ASSUME LogInv, booting \/ ~busy
  PROVE  Inside = {}
  BY DEF LogInv, BusyInv, Inside, InTrans

(* The same in the next state. *)
LEMMA NobodyInsideNext ==
  ASSUME LogInv', booting' \/ ~busy'
  PROVE  Inside' = {}
  BY DEF LogInv, BusyInv, Inside, InTrans

(* AtomicDisk's view and active under the refinement mapping of AD. *)
AbsView == IF booting THEN Durable ELSE cache
AbsActive == IF Inside = {} THEN NoProc ELSE CHOOSE p \in Inside : TRUE

(* What AtomicDisk calls active, from the set of processes inside. *)
LEMMA ActiveFacts ==
  /\ \A p : Inside = {p} => AbsActive = p
  /\ Inside = {} => AbsActive = NoProc
  BY DEF AbsActive

(* The same in the next state. *)
LEMMA ActiveFactsNext ==
  /\ \A p : Inside' = {p} => AbsActive' = p
  /\ Inside' = {} => AbsActive' = NoProc
  BY Zenon DEF AbsActive

(* Every step of the log is a step of AtomicDisk or changes none of its
   variables: begin_trans begins, a buffer change writes, the first write_head
   commits, the end of commit_trans ends, and installation is invisible. *)
LEMMA StepSimulation ==
  ASSUME LogInv, LogInv', [Next]_vars
  PROVE  [AD!ANext]_(AD!avars)
  <1> USE CapacityFacts
  <1> DEFINE Stutter == Durable' = Durable /\ AbsView' = AbsView /\ AbsActive' = AbsActive
  <1>s. Stutter => [AD!ANext]_(AD!avars)
    BY Zenon DEF AD!avars, AbsView, AbsActive
  <1>t. TypeOK /\ TypeOK' /\ hdr.n \in 0 .. Capacity /\ hdr'.n \in 0 .. Capacity
    BY DEF LogInv, TypeOK, Head
  <1>0. ASSUME UNCHANGED <<home, logblk, hdr>> PROVE Durable' = Durable
    BY <1>0, Zenon DEF Durable
  <1>1. CASE UNCHANGED vars
    BY <1>1, <1>s DEF vars, Durable, AbsView, AbsActive, Inside, InTrans
  <1>2. CASE Crash
    <2>1. Durable' = Durable /\ booting'
      BY <1>2, <1>0 DEF Crash, disk
    <2>2. AbsView' = Durable /\ AbsActive' = NoProc
      BY <2>1, NobodyInsideNext, ActiveFactsNext DEF AbsView
    <2>3. AD!Crash
      BY <2>1, <2>2 DEF AD!Crash, AbsView, AbsActive
    <2>4. QED BY <2>3 DEF AD!ANext
  <1>3. ASSUME NEW p \in Proc, BeginTrans(p) PROVE [AD!ANext]_(AD!avars)
    <2>1. Durable' = Durable /\ AbsView' = AbsView
      BY <1>3, <1>0 DEF BeginTrans, disk, AbsView
    <2>2. CASE busy
      <3>1. Inside' = Inside
        BY <1>3, <2>2, <1>t DEF BeginTrans, Goto, Inside, InTrans, TransLabels, TypeOK
      <3>2. QED BY <1>s, <2>1, <3>1, SMTT(30) DEF AbsActive
    <2>3. CASE ~busy
      <3>1. AbsActive = NoProc
        BY <2>3, NobodyInside, ActiveFacts, Zenon
      <3>2. InTrans(p)'
        BY <1>3, <2>3, <1>t DEF BeginTrans, Goto, InTrans, TransLabels, Labels, TypeOK
      <3>3. AbsActive' = p
        BY <3>2, InsideIsNext, ActiveFactsNext
      <3>4. AD!Begin(p)
        BY <2>1, <3>1, <3>3 DEF AD!Begin, AbsView, AbsActive
      <3>5. QED BY <3>4 DEF AD!ANext
    <2>4. QED BY <2>2, <2>3
  <1>4. ASSUME NEW p \in Proc, NEW s \in Sector, NEW v \in Val, Modify(p, "trans", s, v)
        PROVE  [AD!ANext]_(AD!avars)
    <2>1. /\ pc[p] = "trans" /\ pc'[p] = "lw_scan" /\ ~booting /\ ~booting'
          /\ Durable' = Durable
          /\ cache' = [cache EXCEPT ![s] = v]
      BY <1>4, <1>0, <1>t, ZenonT(30) DEF Modify, Goto, disk, TypeOK, LogInv, BootInv
    <2>2. InTrans(p) /\ InTrans(p)'
      BY <2>1 DEF InTrans, TransLabels, Labels
    <2>3. AbsActive = p /\ AbsActive' = p
      BY <2>2, InsideIs, InsideIsNext, ActiveFacts, ActiveFactsNext, Zenon
    <2>4. AD!Write(p, s, v)
      BY <2>1, <2>3, Zenon DEF AD!Write, AbsView, AbsActive
    <2>5. QED BY <2>4, SMTT(30) DEF AD!ANext
  <1>5. ASSUME NEW p \in Proc,
               ReadHead(p) \/ LogWritePanic(p) \/ LogWriteScan(p)
                 \/ LogWriteAdvance(p) \/ CommitTrans(p) \/ InstallRead(p) \/ InstallDone(p)
        PROVE  [AD!ANext]_(AD!avars)
    <2>1. /\ UNCHANGED <<home, logblk, hdr, cache, booting>>
          /\ \A q \in Proc \ {p} : pc'[q] = pc[q]
      BY <1>5, <1>t, Zenon DEF ReadHead, LogWritePanic, LogWriteScan, LogWriteAdvance, CommitTrans,
           InstallRead, InstallDone, Goto, disk, TypeOK
    <2>2. pc[p] = "initlog" \/ (pc[p] \in TransLabels /\ pc'[p] \in TransLabels)
      <3>1. pc[p] = "lw_advance" => wr[p].ret = "trans"
        BY ZenonT(30) DEF LogInv, WriteInv
      <3>2. QED
        BY <1>5, <1>t, <3>1, SMTT(30) DEF ReadHead, LogWritePanic, LogWriteScan, LogWriteAdvance,
           CommitTrans, InstallRead, InstallDone, Goto, TransLabels, Labels, TypeOK
    <2>3. Inside' = Inside
      BY <2>1, <2>2, Zenon DEF Inside, InTrans, LogInv, BusyInv
    <2>4. Stutter
      BY <1>0, <2>1, <2>3 DEF AbsView, AbsActive
    <2>5. QED BY <1>s, <2>4, Zenon
  <1>6. ASSUME NEW p \in Proc, LogWriteBlock(p) PROVE [AD!ANext]_(AD!avars)
    <2>1. /\ UNCHANGED <<home, hdr, cache, booting>>
          /\ pc[p] = "lw_block" /\ pc' = [pc EXCEPT ![p] = "lw_advance"]
      BY <1>6, SMTT(30) DEF LogWriteBlock, Goto
    <2>2. hdr.n = 0
      BY <2>1, Zenon DEF LogInv, WriteInv
    <2>3. Inside' = Inside
      BY <1>t, <2>1 DEF Inside, InTrans, TransLabels, Labels, TypeOK
    <2>4. Durable' = Durable
      <3>1. home \in [Sector -> Val]
        BY <1>t DEF TypeOK
      <3>2. Durable = home /\ Durable' = home
        BY <2>1, <2>2, <3>1, OntoEmpty DEF Durable
      <3>3. QED BY <3>2, Zenon
    <2>5. QED BY <1>s, <2>1, <2>3, <2>4, SMTT(30) DEF AbsView, AbsActive
  <1>7. ASSUME NEW p \in Proc, WriteHead(p) PROVE [AD!ANext]_(AD!avars)
    <2>1. /\ pc[p] = "ct_head" /\ pc'[p] = "it_read" /\ ~booting /\ ~booting'
          /\ UNCHANGED <<home, logblk, cache>>
      BY <1>7, <1>t, ZenonT(30) DEF WriteHead, Goto, TypeOK, LogInv, BootInv
    <2>2. InTrans(p) /\ InTrans(p)'
      BY <2>1 DEF InTrans, TransLabels, Labels
    <2>3. AbsActive = p /\ AbsActive' = p
      BY <2>2, InsideIs, InsideIsNext, ActiveFacts, ActiveFactsNext, ZenonT(30)
    <2>4. Durable' = cache
      <3>1. Shows(cache, hdr, {})' /\ Distinct(hdr)'
        BY <2>1, Zenon DEF LogInv, InstallInv
      <3>2. cache' \in [Sector -> Val] /\ Distinct(hdr')
        BY <1>t, <3>1, Zenon DEF TypeOK, Distinct
      <3>3. \A s \in Sector :
              /\ (\A i \in Slot : i < hdr'.n => hdr'.sector[i] # s) => cache'[s] = home'[s]
              /\ \A i \in Slot : i < hdr'.n /\ hdr'.sector[i] = s => cache'[s] = logblk'[i]
        BY <3>1, Zenon DEF Shows
      <3> HIDE DEF Stutter
      <3>4. cache' = Onto(home', logblk', hdr')
        <4>1. hdr'.n \in 0 .. Capacity
          BY <1>t
        <4>2. QED BY ONLY <3>2, <3>3, <4>1, OntoUnique
      <3>5. QED BY <2>1, <3>4 DEF Durable
    <2>5. AD!Commit(p)
      BY <2>1, <2>3, <2>4, ZenonT(30) DEF AD!Commit, AbsView, AbsActive
    <2>6. QED BY <2>5, SMTT(30) DEF AD!ANext
  <1>8. ASSUME NEW p \in Proc, InstallWrite(p) PROVE [AD!ANext]_(AD!avars)
    <2>a. /\ pc[p] = "it_write" /\ pc' = [pc EXCEPT ![p] = "it_read"]
          /\ InstallInv(p) /\ Distinct(hdr)
      BY <1>8, Zenon DEF InstallWrite, Goto, LogInv
    <2>b. Inside' = Inside
      BY <1>8, <1>t, <2>a, Zenon DEF InstallWrite, Inside, InTrans, TransLabels, Labels, TypeOK
    <2>c. tail \in Slot /\ tail < hdr.n /\ hdr.sector[tail] = lh.sector[tail]
      <3>1. /\ hdr.n = lh.n /\ tail < lh.n
            /\ \A i \in Slot : i < lh.n => hdr.sector[i] = lh.sector[i]
        BY <2>a, Zenon DEF InstallInv, SameHead
      <3>2. tail \in 0 .. Capacity
        BY <1>t DEF TypeOK
      <3>3. tail \in Slot
        BY <1>t, <3>1, <3>2, SMTT(30)
      <3>4. QED BY <3>1, <3>3, Zenon
    <2>1. /\ UNCHANGED <<logblk, hdr, booting>>
          /\ home' = [home EXCEPT ![hdr.sector[tail]] = logblk[tail]]
          /\ cache' = [cache EXCEPT ![hdr.sector[tail]] = logblk[tail]]
          /\ ~booting => Shows(cache, hdr, {})
      BY <1>8, <2>a, <2>c, ZenonT(30) DEF InstallWrite, InstallInv
    <2>2. Durable' = Durable
      <3>1. \A s \in Sector : SlotsOf(hdr, s) = {} => home'[s] = home[s]
        BY <1>t, <2>1, <2>c, Zenon DEF SlotsOf, TypeOK
      <3>2. Onto(home', logblk, hdr) = Onto(home, logblk, hdr)
        BY <3>1, OntoMoved
      <3>3. QED BY <2>1, <3>2, SMTT(30) DEF Durable
    <2>3. ~booting => cache' = cache
      <3>1. cache \in [Sector -> Val] /\ hdr.sector[tail] \in Sector
        BY <1>t, <2>a, <2>c, Zenon DEF TypeOK, Distinct
      <3>2. ~booting => cache[hdr.sector[tail]] = logblk[tail]
        BY <2>1, <2>c, <3>1, Zenon DEF Shows
      <3>3. QED BY <2>1, <3>1, <3>2, SMTT(30)
    <2>4. booting' = booting
      BY <2>1
    <2>5. AbsView' = AbsView
      BY <2>2, <2>3, <2>4, Zenon DEF AbsView
    <2>6. AbsActive' = AbsActive
      BY <2>b DEF AbsActive
    <2>7. QED BY <1>s, <2>2, <2>5, <2>6
  <1>9. ASSUME NEW p \in Proc, ClearHead(p) PROVE [AD!ANext]_(AD!avars)
    <2>1. /\ pc[p] = "clear_head" /\ UNCHANGED <<home, logblk, cache>>
          /\ lh.n = 0 /\ hdr'.n = 0 /\ Installed(hdr, hdr.n) /\ cache = home /\ ~booting'
      BY <1>9, Zenon DEF ClearHead, CopyHead, LogInv, InstallInv, BootInv
    <2>2. Durable = home /\ Durable' = home
      BY <1>t, <2>1, OntoInstalled, OntoEmpty, Zenon DEF Durable, TypeOK
    <2>3. AbsView' = AbsView
      BY <2>1, <2>2 DEF AbsView
    <2>4. AbsActive' = AbsActive
      <3>1. CASE booting
        <4>1. ~busy'
          BY <1>9, <3>1 DEF ClearHead, LogInv, BootInv
        <4>2. QED BY <3>1, <4>1, NobodyInside, NobodyInsideNext, ActiveFacts, ActiveFactsNext
      <3>2. CASE ~booting
        <4>1. InTrans(p) /\ InTrans(p)'
          BY <1>9, <1>t, <3>2 DEF ClearHead, Goto, InTrans, TransLabels, Labels, TypeOK
        <4>2. QED BY <4>1, InsideIs, InsideIsNext, ActiveFacts, ActiveFactsNext, Zenon
      <3>3. QED BY <3>1, <3>2
    <2>5. QED BY <1>s, <2>2, <2>3, <2>4, SMTT(30)
  <1>10. ASSUME NEW p \in Proc, EndTrans(p) PROVE [AD!ANext]_(AD!avars)
    <2>1. /\ pc[p] = "ct_end" /\ UNCHANGED <<home, logblk, hdr, cache, booting>>
          /\ ~busy' /\ ~booting /\ hdr.n = 0 /\ cache = home
      BY <1>10 DEF EndTrans, disk, LogInv, InstallInv, BootInv
    <2>2. InTrans(p)
      BY <2>1 DEF InTrans, TransLabels, Labels
    <2>3. AbsActive = p /\ AbsActive' = NoProc
      BY <2>1, <2>2, InsideIs, NobodyInsideNext, ActiveFacts, ActiveFactsNext, Zenon
    <2>4. Durable' = Durable /\ Durable = cache
      BY <1>0, <1>t, <2>1, OntoEmpty DEF Durable, TypeOK
    <2>5. AD!End(p)
      BY <2>1, <2>3, <2>4 DEF AD!End, AbsView, AbsActive
    <2>6. QED BY <2>5 DEF AD!ANext
  <1>11. QED
    BY <1>1, <1>2, <1>3, <1>4, <1>5, <1>6, <1>7, <1>8, <1>9, <1>10, Zenon DEF Next, Step, Continue

(* The log implements AtomicDisk: whatever the interleaving and wherever the
   machine crashes, recovery finds all the writes of a transaction or none. *)
THEOREM LogImplementsAtomicDisk == Spec => AtomicCommit
  <1>1. Init => AD!AInit
    <2> SUFFICES ASSUME Init PROVE AD!AInit
      OBVIOUS
    <2>1. LogInv /\ booting
      BY InitInv DEF Init
    <2>2. Durable \in [Sector -> Val] /\ AbsActive = NoProc
      BY <2>1, DurableType, NobodyInside, ActiveFacts
    <2>3. QED BY <2>1, <2>2 DEF AD!AInit, AbsActive
  <1>2. LogInv /\ LogInv' /\ [Next]_vars => [AD!ANext]_(AD!avars)
    BY StepSimulation
  <1>3. QED BY <1>1, <1>2, LogInvariant, PTL DEF Spec, AtomicCommit, AD!ASpec

=============================================================================
