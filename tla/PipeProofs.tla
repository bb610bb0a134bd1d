----------------------------- MODULE PipeProofs -----------------------------
(***************************************************************************)
(* Proofs about Pipe: PipeInv is inductive, and with it nobody is left     *)
(* asleep, a freed pipe is unused, zero bytes mean end of file, and the    *)
(* ring buffer implements Fifo for every PIPESIZE and WORD.                *)
(***************************************************************************)
EXTENDS Pipe, Integers, SequenceTheorems, TLAPS

-----------------------------------------------------------------------------
(* The remainder by m, for every m. *)
LEMMA ModRange ==
  ASSUME NEW x \in Nat, NEW m \in Nat \ {0}
  PROVE  x % m \in 0 .. m - 1
OBVIOUS

LEMMA ModUnique ==
  ASSUME NEW x \in Nat, NEW m \in Nat \ {0}, NEW k \in Nat, NEW r \in 0 .. m - 1,
         x = m * k + r
  PROVE  x % m = r
OBVIOUS

LEMMA DivMod ==
  ASSUME NEW x \in Nat, NEW m \in Nat \ {0}
  PROVE  \E k \in Nat, r \in 0 .. m - 1 : x = m * k + r /\ x % m = r
<1>1. x \div m \in Nat /\ x = m * (x \div m) + (x % m)
  OBVIOUS
<1> QED
  BY <1>1, ModRange, Zenon

(* A multiple of m does not change the remainder. *)
LEMMA ModAddMult ==
  ASSUME NEW m \in Nat \ {0}, NEW w \in Nat, w % m = 0, NEW x \in Nat
  PROVE  (x + w) % m = x % m
<1>1. PICK j \in Nat : w = m * j
  BY DivMod
<1>2. PICK k \in Nat, r \in 0 .. m - 1 : x = m * k + r /\ x % m = r
  BY DivMod, Zenon
<1>3. x + w = m * (j + k) + r
  BY <1>1, <1>2
<1>4. x + w \in Nat /\ j + k \in Nat
  OBVIOUS
<1>5. (x + w) % m = r
  BY <1>3, <1>4, ModUnique, ZenonT(30)
<1> QED
  BY <1>2, <1>5

(* Numbers less than m apart have different remainders. *)
LEMMA ModDiff ==
  ASSUME NEW m \in Nat \ {0}, NEW x \in Nat, NEW d \in 1 .. m - 1
  PROVE  (x + d) % m # x % m
<1>1. PICK k \in Nat, r \in 0 .. m - 1 : x = m * k + r /\ x % m = r
  BY DivMod, Zenon
<1>2. CASE r + d < m
  <2>1. x + d = m * k + (r + d)
    BY <1>1
  <2>2. x + d \in Nat /\ r + d \in 0 .. m - 1
    BY <1>2
  <2>3. (x + d) % m = r + d
    BY <2>1, <2>2, ModUnique, Zenon
  <2> QED
    BY <1>1, <2>3
<1>3. CASE r + d >= m
  <2>1. x + d = m * (k + 1) + (r + d - m)
    BY <1>1
  <2>2. x + d \in Nat /\ k + 1 \in Nat /\ r + d - m \in 0 .. m - 1
    BY <1>3
  <2>3. (x + d) % m = r + d - m
    BY <2>1, <2>2, ModUnique, Zenon
  <2> QED
    BY <1>1, <2>3
<1> QED
  BY <1>2, <1>3

(* Below twice m the remainder is a subtraction. *)
LEMMA ModTwice ==
  ASSUME NEW m \in Nat \ {0}, NEW x \in 0 .. 2 * m - 1
  PROVE  x % m = IF x < m THEN x ELSE x - m
<1>1. CASE x < m
  BY <1>1
<1>2. CASE x >= m
  <2>1. x = m * 1 + (x - m) /\ x - m \in 0 .. m - 1
    BY <1>2
  <2> QED
    BY <1>2, <2>1, ModUnique
<1> QED
  BY <1>1, <1>2

-----------------------------------------------------------------------------
(* The number of bytes between the counters r and w, and what a byte more or
   a byte less does to it. *)
Dist(r, w) == (w + WORD - r) % WORD

LEMMA Sizes == PIPESIZE \in Nat \ {0} /\ WORD \in Nat \ {0} /\ PIPESIZE < WORD
BY PipeAssumption

LEMMA DistValue ==
  ASSUME NEW r \in 0 .. WORD - 1, NEW w \in 0 .. WORD - 1
  PROVE  Dist(r, w) = IF r <= w THEN w - r ELSE w + WORD - r
<1> DEFINE x == w + WORD - r
<1>1. x \in 0 .. 2 * WORD - 1
  BY Sizes
<1> HIDE DEF x
<1>2. x % WORD = IF x < WORD THEN x ELSE x - WORD
  BY <1>1, Sizes, ModTwice, Zenon
<1>3. Dist(r, w) = x % WORD
  BY DEF Dist, x
<1>4. Dist(r, w) = IF x < WORD THEN x ELSE x - WORD
  BY <1>2, <1>3
<1> QED
  BY <1>4, Sizes DEF x

LEMMA NextCounter ==
  ASSUME NEW x \in 0 .. WORD - 1
  PROVE  /\ (x + 1) % WORD = IF x = WORD - 1 THEN 0 ELSE x + 1
         /\ (x + 1) % WORD \in 0 .. WORD - 1
<1>1. PICK y \in 0 .. 2 * WORD - 1 : y = x + 1
  BY Sizes
<1>2. y % WORD = IF y < WORD THEN y ELSE y - WORD
  BY <1>1, Sizes, ModTwice, Zenon
<1> QED
  BY <1>1, <1>2, Sizes

LEMMA DistFull ==
  ASSUME NEW r \in 0 .. WORD - 1, NEW w \in 0 .. WORD - 1
  PROVE  w = (r + PIPESIZE) % WORD <=> Dist(r, w) = PIPESIZE
<1>1. PICK y \in 0 .. 2 * WORD - 1 : y = r + PIPESIZE
  BY Sizes
<1>2. y % WORD = IF y < WORD THEN y ELSE y - WORD
  BY <1>1, Sizes, ModTwice, Zenon
<1> QED
  BY <1>1, <1>2, DistValue, Sizes

LEMMA DistUp ==
  ASSUME NEW r \in 0 .. WORD - 1, NEW w \in 0 .. WORD - 1, Dist(r, w) < PIPESIZE
  PROVE  Dist(r, (w + 1) % WORD) = Dist(r, w) + 1
<1>1. PICK y \in 0 .. WORD - 1 :
        y = (w + 1) % WORD /\ y = IF w = WORD - 1 THEN 0 ELSE w + 1
  BY NextCounter
<1>2. Dist(r, y) = (IF r <= y THEN y - r ELSE y + WORD - r)
      /\ Dist(r, w) = (IF r <= w THEN w - r ELSE w + WORD - r)
  BY DistValue
<1>3. Dist(r, y) = Dist(r, w) + 1
  BY <1>1, <1>2, Sizes
<1> QED
  BY <1>1, <1>3

LEMMA DistDown ==
  ASSUME NEW r \in 0 .. WORD - 1, NEW w \in 0 .. WORD - 1, r # w
  PROVE  Dist((r + 1) % WORD, w) = Dist(r, w) - 1
<1>1. PICK y \in 0 .. WORD - 1 :
        y = (r + 1) % WORD /\ y = IF r = WORD - 1 THEN 0 ELSE r + 1
  BY NextCounter
<1>2. Dist(y, w) = (IF y <= w THEN w - y ELSE w + WORD - y)
      /\ Dist(r, w) = (IF r <= w THEN w - r ELSE w + WORD - r)
  BY DistValue
<1>3. Dist(y, w) = Dist(r, w) - 1
  BY <1>1, <1>2, Sizes
<1> QED
  BY <1>1, <1>3

LEMMA Counters ==
  ASSUME TypeOK
  PROVE  /\ Unread = Dist(nread, nwrite) /\ Unread \in 0 .. WORD - 1
         /\ Full <=> Unread = PIPESIZE
         /\ Empty <=> Unread = 0
<1>1. Unread = Dist(nread, nwrite)
  BY DEF Unread, Dist
<1>2. Dist(nread, nwrite) = IF nread <= nwrite THEN nwrite - nread ELSE nwrite + WORD - nread
  BY DistValue DEF TypeOK
<1>3. Full <=> Unread = PIPESIZE
  BY <1>1, DistFull DEF TypeOK, Full
<1> QED
  BY <1>1, <1>2, <1>3, Sizes DEF TypeOK, Empty

-----------------------------------------------------------------------------
(* At most one process is at a place where it has p->lock. *)
LEMMA LockedAlone ==
  ASSUME PipeInv, NEW p \in Proc, pc[p] \in Locked
  PROVE  lock = p /\ \A q \in Proc : q # p => pc[q] \notin Locked
BY DEF PipeInv, LockInv

LEMMA Holders == NoProc \notin Proc /\ Writers \subseteq Proc /\ Readers \subseteq Proc
BY PipeAssumption

LEMMA LockFree ==
  ASSUME PipeInv, lock = NoProc
  PROVE  \A q \in Proc : pc[q] \notin Locked
BY Holders DEF PipeInv, LockInv

LEMMA SameCounters ==
  ASSUME UNCHANGED <<nread, nwrite>>
  PROVE  Unread' = Unread /\ Full' = Full /\ Empty' = Empty
BY DEF Unread, Full, Empty

LEMMA StartInv ==
  ASSUME PipeInv, NEW p \in Proc, NEW m \in 1 .. MaxCount, WriteStart(p, m) \/ ReadStart(p, m)
  PROVE  PipeInv'
<1>1. /\ pc[p] = "idle" /\ lock = NoProc /\ lock' = p
      /\ \/ p \in wref /\ pc' = [pc EXCEPT ![p] = "write"]
         \/ p \in rref /\ pc' = [pc EXCEPT ![p] = "read"]
      /\ n' = [n EXCEPT ![p] = m] /\ m \in Nat /\ m > 0
      /\ UNCHANGED <<data, nread, nwrite, readopen, writeopen, freed, wref, rref, i, killed>>
  BY PipeAssumption DEF WriteStart, ReadStart, Start, ends
<1>2. Unread' = Unread /\ Full' = Full /\ Empty' = Empty
  BY <1>1, SameCounters
<1>3. \A q \in Proc : pc[q] \notin Locked
  BY <1>1, LockFree
<1>4. TypeOK'
  BY <1>1, Zenon DEF PipeInv, TypeOK, InWrite, InRead
<1>5. LockInv'
  BY <1>1, <1>3, Holders DEF PipeInv, TypeOK, LockInv, Locked
<1>6. CallInv'
  <2>1. i[p] = 0
    BY <1>1 DEF PipeInv, CallInv
  <2>2. ASSUME NEW q \in Proc
        PROVE  /\ (pc[q] \in InWrite => q \in wref)' /\ (pc[q] \in InRead => q \in rref)'
               /\ (IF pc[q] = "idle" THEN i[q] = 0 ELSE i[q] <= n[q] /\ n[q] > 0)'
               /\ (pc[q] \in InRead \ {"copy"} => i[q] = 0)'
    <3>1. CASE q = p
      BY <1>1, <2>1, <3>1 DEF PipeInv, TypeOK, InWrite, InRead
    <3>2. CASE q # p
      BY <1>1, <3>2 DEF PipeInv, TypeOK, CallInv
    <3> QED
      BY <3>1, <3>2
  <2> QED
    BY <1>1, <2>2 DEF PipeInv, CallInv
<1>7. SleepInv'
  BY <1>1, <1>2, <1>3, Zenon DEF PipeInv, TypeOK, SleepInv, Locked
<1> QED
  BY <1>2, <1>4, <1>5, <1>6, <1>7 DEF PipeInv

LEMMA SleepStepInv ==
  ASSUME PipeInv, NEW p \in Proc, Sleep(p)
  PROVE  PipeInv'
<1>1. /\ pc[p] \in {"wsleep", "rsleep"} /\ lock' = NoProc
      /\ pc' = [pc EXCEPT ![p] = IF pc[p] = "wsleep" THEN "wasleep" ELSE "rasleep"]
      /\ UNCHANGED <<data, nread, nwrite, readopen, writeopen, freed, wref, rref, n, i, killed>>
  BY DEF Sleep, ends
<1>2. Unread' = Unread /\ Full' = Full /\ Empty' = Empty
  BY <1>1, SameCounters
<1>3. \A q \in Proc : q # p => pc[q] \notin Locked
  BY <1>1, LockedAlone DEF Locked
<1>4. TypeOK'
  BY <1>1 DEF PipeInv, TypeOK, InWrite, InRead
<1>5. LockInv'
  BY <1>1, <1>3, Holders DEF PipeInv, TypeOK, LockInv, Locked
<1>6. CallInv'
  BY <1>1 DEF PipeInv, TypeOK, CallInv, InWrite, InRead
<1>7. SleepInv'
  BY <1>1, <1>2, <1>3, Zenon DEF PipeInv, TypeOK, SleepInv, Locked
<1> QED
  BY <1>2, <1>4, <1>5, <1>6, <1>7 DEF PipeInv

LEMMA RelockInv ==
  ASSUME PipeInv, NEW p \in Proc, Relock(p)
  PROVE  PipeInv'
<1>1. /\ pc[p] \in {"wwoken", "rwoken"} /\ lock = NoProc /\ lock' = p
      /\ pc' = [pc EXCEPT ![p] = IF pc[p] = "wwoken" THEN "write" ELSE "read"]
      /\ UNCHANGED <<data, nread, nwrite, readopen, writeopen, freed, wref, rref, n, i, killed>>
  BY DEF Relock, ends
<1>2. Unread' = Unread /\ Full' = Full /\ Empty' = Empty
  BY <1>1, SameCounters
<1>3. \A q \in Proc : pc[q] \notin Locked
  BY <1>1, LockFree
<1>4. TypeOK'
  BY <1>1 DEF PipeInv, TypeOK, InWrite, InRead
<1>5. LockInv'
  BY <1>1, <1>3, Holders DEF PipeInv, TypeOK, LockInv, Locked
<1>6. CallInv'
  BY <1>1 DEF PipeInv, TypeOK, CallInv, InWrite, InRead
<1>7. SleepInv'
  BY <1>1, <1>2, <1>3, Zenon DEF PipeInv, TypeOK, SleepInv, Locked
<1> QED
  BY <1>2, <1>4, <1>5, <1>6, <1>7 DEF PipeInv

LEMMA KillInv ==
  ASSUME PipeInv, NEW p \in Proc, Kill(p)
  PROVE  PipeInv'
<1>1. /\ killed' = [killed EXCEPT ![p] = TRUE]
      /\ pc' = [pc EXCEPT ![p] = IF pc[p] = "wasleep" THEN "wwoken"
                                 ELSE IF pc[p] = "rasleep" THEN "rwoken" ELSE pc[p]]
      /\ UNCHANGED <<data, nread, nwrite, readopen, writeopen, freed, wref, rref, lock, n, i>>
  BY Zenon DEF Kill, ends, PipeInv, TypeOK
<1>2. Unread' = Unread /\ Full' = Full /\ Empty' = Empty
  BY <1>1, SameCounters
<1>4. TypeOK'
  BY <1>1 DEF PipeInv, TypeOK, InWrite, InRead
<1>5. LockInv'
  BY <1>1 DEF PipeInv, TypeOK, LockInv, Locked
<1>6. CallInv'
  BY <1>1 DEF PipeInv, TypeOK, CallInv, InWrite, InRead
<1>7. SleepInv'
  BY <1>1, <1>2, Holders, Zenon DEF PipeInv, TypeOK, SleepInv
<1> QED
  BY <1>2, <1>4, <1>5, <1>6, <1>7 DEF PipeInv

LEMMA WriteByteInv ==
  ASSUME PipeInv, NEW p \in Proc, NEW b \in Byte, WriteByte(p, b)
  PROVE  PipeInv'
<1>1. /\ pc[p] = "write" /\ i[p] < n[p] /\ ~Full
      /\ data' = [data EXCEPT ![nwrite % PIPESIZE] = b]
      /\ nwrite' = (nwrite + 1) % WORD
      /\ i' = [i EXCEPT ![p] = i[p] + 1]
      /\ UNCHANGED <<nread, readopen, writeopen, freed, wref, rref, lock, pc, n, killed>>
  BY DEF WriteByte, ends
<1>2. \A q \in Proc : q # p => pc[q] \notin Locked
  BY <1>1, LockedAlone DEF Locked
<1>3. nwrite' \in 0 .. WORD - 1 /\ data' \in [0 .. PIPESIZE - 1 -> Byte]
  BY <1>1, NextCounter, Zenon DEF PipeInv, TypeOK
<1>4. TypeOK'
  BY <1>1, <1>3 DEF PipeInv, TypeOK
<1>5. Unread' = Unread + 1 /\ Unread + 1 <= PIPESIZE
  <2>1. Unread < PIPESIZE /\ Unread = Dist(nread, nwrite)
    BY <1>1, Counters, Sizes DEF PipeInv
  <2>2. Dist(nread, (nwrite + 1) % WORD) = Dist(nread, nwrite) + 1
    BY <2>1, DistUp DEF PipeInv, TypeOK
  <2>3. Unread' = Dist(nread, (nwrite + 1) % WORD)
    BY <1>1 DEF Unread, Dist
  <2> QED
    BY <2>1, <2>2, <2>3, Counters, Sizes DEF PipeInv
<1>6. LockInv'
  BY <1>1, Zenon DEF PipeInv, LockInv
<1>7. CallInv'
  BY <1>1 DEF PipeInv, TypeOK, CallInv, InRead
<1>8. SleepInv'
  BY <1>1, <1>2, Zenon DEF PipeInv, TypeOK, SleepInv, Locked
<1> QED
  BY <1>4, <1>5, <1>6, <1>7, <1>8 DEF PipeInv

LEMMA ReadByteInv ==
  ASSUME PipeInv, NEW p \in Proc, ReadByte(p)
  PROVE  PipeInv'
<1>1. /\ pc[p] = "copy" /\ i[p] < n[p] /\ ~Empty
      /\ nread' = (nread + 1) % WORD
      /\ i' = [i EXCEPT ![p] = i[p] + 1]
      /\ UNCHANGED <<data, nwrite, readopen, writeopen, freed, wref, rref, lock, pc, n, killed>>
  BY DEF ReadByte, ends
<1>2. \A q \in Proc : q # p => pc[q] \notin Locked
  BY <1>1, LockedAlone DEF Locked
<1>3. nread' \in 0 .. WORD - 1
  BY <1>1, NextCounter DEF PipeInv, TypeOK
<1>4. TypeOK'
  BY <1>1, <1>3 DEF PipeInv, TypeOK
<1>5. Unread' = Unread - 1
  <2>1. Dist((nread + 1) % WORD, nwrite) = Dist(nread, nwrite) - 1
    BY <1>1, DistDown DEF PipeInv, TypeOK, Empty
  <2>2. Unread' = Dist((nread + 1) % WORD, nwrite)
    BY <1>1 DEF Unread, Dist
  <2> QED
    BY <2>1, <2>2, Counters DEF PipeInv
<1>6. LockInv'
  BY <1>1, Zenon DEF PipeInv, LockInv
<1>7. CallInv'
  BY <1>1 DEF PipeInv, TypeOK, CallInv, InRead
<1>8. ASSUME NEW q \in Proc
      PROVE  /\ (pc[q] = "wsleep" => Full /\ readopen)'
             /\ (pc[q] = "rsleep" => Empty /\ writeopen)'
             /\ (pc[q] = "wasleep" => readopen /\ (Full \/ \E r \in Proc : pc[r] = "copy"))'
             /\ (pc[q] = "rasleep" =>
                   writeopen /\ (Empty \/ (\E w \in Writers : killed[w]) \/ \E r \in Proc : pc[r] = "write"))'
             /\ (pc[q] = "copy" /\ i[q] = 0 => ~Empty \/ ~writeopen)'
  <2>1. pc[q] # "wsleep" /\ pc[q] # "rsleep"
    BY <1>1, <1>2 DEF Locked
  <2>2. pc[q] = "rasleep" => writeopen /\ ((\E w \in Writers : killed[w]) \/ \E r \in Proc : pc[r] = "write")
    BY <1>1 DEF PipeInv, SleepInv
  <2>3. pc[q] = "copy" => i'[q] # 0
    BY <1>1, <1>2 DEF PipeInv, TypeOK, Locked
  <2>4. pc[q] = "wasleep" => readopen
    BY Zenon DEF PipeInv, SleepInv
  <2> QED
    BY <1>1, <2>1, <2>2, <2>3, <2>4, Zenon
<1>9. SleepInv'
  BY <1>8 DEF SleepInv
<1> QED
  BY <1>4, <1>5, <1>6, <1>7, <1>9, Counters, Sizes DEF PipeInv

(* The body of a conjunct of SleepInv, for one process. *)
SleepOf(p) ==
  /\ pc[p] = "wsleep" => Full /\ readopen
  /\ pc[p] = "rsleep" => Empty /\ writeopen
  /\ pc[p] = "wasleep" => readopen /\ (Full \/ \E q \in Proc : pc[q] = "copy")
  /\ pc[p] = "rasleep" =>
       writeopen /\ (Empty \/ (\E w \in Writers : killed[w]) \/ \E q \in Proc : pc[q] = "write")
  /\ pc[p] = "copy" /\ i[p] = 0 => ~Empty \/ ~writeopen

(* A process that returns from a call, the sleepers of one side being woken:
   what is left to show is that the sleepers of the other side still have
   their reason. *)
LEMMA ReturnInv ==
  ASSUME PipeInv, NEW p \in Proc, pc[p] \in Locked, lock' = NoProc,
         UNCHANGED <<data, nread, nwrite, readopen, writeopen, freed, wref, rref, killed>>,
         n' = [n EXCEPT ![p] = 0], i' = [i EXCEPT ![p] = 0],
         NEW l \in [Proc -> InWrite \cup InRead \cup {"idle"}],
         pc' = [l EXCEPT ![p] = "idle"],
         \A q \in Proc \ {p} :
           \/ l[q] = pc[q]
           \/ pc[q] = "wasleep" /\ l[q] = "wwoken"
           \/ pc[q] = "rasleep" /\ l[q] = "rwoken",
         \A q \in Proc \ {p} : l[q] = "wasleep" => Full,
         \A q \in Proc \ {p} : l[q] = "rasleep" => Empty \/ \E w \in Writers : killed[w]
  PROVE  PipeInv'
<1>1. Unread' = Unread /\ Full' = Full /\ Empty' = Empty
  BY SameCounters
<1>2. \A q \in Proc : q # p => pc[q] \notin Locked
  BY LockedAlone, Zenon
<1>3. TypeOK'
  BY DEF PipeInv, TypeOK
<1>a. /\ pc'[p] = "idle" /\ n'[p] = 0 /\ i'[p] = 0
      /\ \A q \in Proc \ {p} : pc'[q] = l[q] /\ n'[q] = n[q] /\ i'[q] = i[q]
  BY Zenon DEF PipeInv, TypeOK
<1>4. LockInv'
  BY <1>2, <1>a, Holders, Zenon DEF LockInv, Locked
<1>5. CallInv'
  <2>1. ASSUME NEW q \in Proc
        PROVE  /\ (pc[q] \in InWrite => q \in wref)' /\ (pc[q] \in InRead => q \in rref)'
               /\ (IF pc[q] = "idle" THEN i[q] = 0 ELSE i[q] <= n[q] /\ n[q] > 0)'
               /\ (pc[q] \in InRead \ {"copy"} => i[q] = 0)'
    <3>1. CASE q = p
      BY <1>a, <3>1, Zenon DEF InWrite, InRead
    <3>2. CASE q # p
      BY <1>a, <3>2 DEF PipeInv, CallInv, InWrite, InRead
    <3> QED
      BY <3>1, <3>2, Zenon
  <2> QED
    BY <2>1, Zenon DEF PipeInv, CallInv
<1>6. ASSUME NEW q \in Proc PROVE SleepOf(q)'
  <2>1. CASE q = p
    BY <1>a, <2>1 DEF SleepOf
  <2>2. CASE q # p
    <3>1. pc'[q] \notin {"wsleep", "rsleep", "copy"}
      BY <1>2, <1>a, <2>2 DEF Locked
    <3>2. pc'[q] = "wasleep" => pc[q] = "wasleep" /\ Full /\ readopen
      BY <1>a, <2>2 DEF PipeInv, SleepInv
    <3>3. pc'[q] = "rasleep" => writeopen /\ (Empty \/ \E w \in Writers : killed[w])
      BY <1>a, <2>2 DEF PipeInv, SleepInv
    <3> QED
      BY <1>1, <3>1, <3>2, <3>3, Zenon DEF SleepOf
  <2> QED
    BY <2>1, <2>2
<1>7. SleepInv'
  BY <1>6 DEF SleepInv, SleepOf
<1> QED
  BY <1>1, <1>3, <1>4, <1>5, <1>7, Zenon DEF PipeInv

LEMMA WokenPlaces ==
  ASSUME PipeInv
  PROVE  /\ pc \in [Proc -> InWrite \cup InRead \cup {"idle"}]
         /\ WakeReaders \in [Proc -> InWrite \cup InRead \cup {"idle"}]
         /\ WakeWriters \in [Proc -> InWrite \cup InRead \cup {"idle"}]
         /\ \A q \in Proc :
              /\ WakeReaders[q] = IF pc[q] = "rasleep" THEN "rwoken" ELSE pc[q]
              /\ WakeWriters[q] = IF pc[q] = "wasleep" THEN "wwoken" ELSE pc[q]
BY DEF PipeInv, TypeOK, WakeReaders, WakeWriters, Woken, InWrite, InRead

LEMMA WriteDoneInv ==
  ASSUME PipeInv, NEW p \in Proc, WriteDone(p)
  PROVE  PipeInv'
<1>1. pc[p] \in Locked /\ pc[p] = "write"
  BY DEF WriteDone, Locked
<1>2. \A q \in Proc \ {p} : pc[q] = "wasleep" => Full
  BY <1>1, LockedAlone DEF PipeInv, SleepInv, Locked
<1>3. \A q \in Proc \ {p} : WakeReaders[q] # "rasleep" /\ (WakeReaders[q] = "wasleep" => Full)
  BY <1>2, WokenPlaces
<1>4. /\ lock' = NoProc /\ n' = [n EXCEPT ![p] = 0] /\ i' = [i EXCEPT ![p] = 0]
      /\ UNCHANGED <<data, nread, nwrite, readopen, writeopen, freed, wref, rref, killed>>
      /\ pc' = [WakeReaders EXCEPT ![p] = "idle"]
  BY DEF WriteDone, Return, ends
<1>5. \A q \in Proc \ {p} :
        \/ WakeReaders[q] = pc[q]
        \/ pc[q] = "wasleep" /\ WakeReaders[q] = "wwoken"
        \/ pc[q] = "rasleep" /\ WakeReaders[q] = "rwoken"
  BY WokenPlaces
<1>6. WakeReaders \in [Proc -> InWrite \cup InRead \cup {"idle"}]
  BY WokenPlaces
<1> QED
  BY <1>1, <1>3, <1>4, <1>5, <1>6, ReturnInv, ZenonT(30)

LEMMA ReadDoneInv ==
  ASSUME PipeInv, NEW p \in Proc, ReadDone(p)
  PROVE  PipeInv'
<1>1. pc[p] \in Locked /\ pc[p] = "copy"
  BY DEF ReadDone, Locked
<1>2. \A q \in Proc \ {p} : pc[q] = "rasleep" => Empty \/ \E w \in Writers : killed[w]
  BY <1>1, LockedAlone DEF PipeInv, SleepInv, Locked
<1>3. \A q \in Proc \ {p} :
        /\ WakeWriters[q] # "wasleep"
        /\ WakeWriters[q] = "rasleep" => Empty \/ \E w \in Writers : killed[w]
  BY <1>2, WokenPlaces, Zenon
<1>4. /\ lock' = NoProc /\ n' = [n EXCEPT ![p] = 0] /\ i' = [i EXCEPT ![p] = 0]
      /\ UNCHANGED <<data, nread, nwrite, readopen, writeopen, freed, wref, rref, killed>>
      /\ pc' = [WakeWriters EXCEPT ![p] = "idle"]
  BY DEF ReadDone, Return, ends
<1>5. \A q \in Proc \ {p} :
        \/ WakeWriters[q] = pc[q]
        \/ pc[q] = "wasleep" /\ WakeWriters[q] = "wwoken"
        \/ pc[q] = "rasleep" /\ WakeWriters[q] = "rwoken"
  BY WokenPlaces
<1>6. WakeWriters \in [Proc -> InWrite \cup InRead \cup {"idle"}]
  BY WokenPlaces
<1> QED
  BY <1>1, <1>3, <1>4, <1>5, <1>6, ReturnInv, Zenon

(* pipewrite before a full pipe, and piperead before an empty one: give up, or
   go on with p->lock. *)
LEMMA WriteFullInv ==
  ASSUME PipeInv, NEW p \in Proc, WriteFull(p)
  PROVE  PipeInv'
<1>1. /\ pc[p] = "write" /\ pc[p] \in Locked /\ Full
      /\ UNCHANGED <<data, nread, nwrite, readopen, writeopen, freed, wref, rref, killed>>
  BY DEF WriteFull, ends, Locked
<1>2. lock = p /\ \A q \in Proc : q # p => pc[q] \notin Locked
  BY <1>1, LockedAlone
<1>3. CASE ~readopen \/ killed[p]
  <2>1. /\ lock' = NoProc /\ n' = [n EXCEPT ![p] = 0] /\ i' = [i EXCEPT ![p] = 0]
        /\ pc' = [pc EXCEPT ![p] = "idle"]
    BY <1>3 DEF WriteFull, Return
  <2>2. p \in Writers
    BY <1>1 DEF PipeInv, TypeOK, CallInv, InWrite
  <2>3. \A q \in Proc \ {p} : pc[q] = "rasleep" => \E w \in Writers : killed[w]
    <3>1. CASE killed[p]
      BY <2>2, <3>1, Zenon
    <3>2. CASE ~readopen
      BY <3>2 DEF PipeInv, CallInv, InRead
    <3> QED
      BY <1>3, <3>1, <3>2, Zenon
  <2>4. pc \in [Proc -> InWrite \cup InRead \cup {"idle"}]
    BY WokenPlaces, Zenon
  <2> QED
    BY <1>1, <2>1, <2>3, <2>4, ReturnInv, Zenon
<1>4. CASE ~(~readopen \/ killed[p])
  <2>1. pc' = [WakeReaders EXCEPT ![p] = "wsleep"] /\ UNCHANGED <<lock, n, i>>
    BY <1>4 DEF WriteFull
  <2>2. /\ pc'[p] = "wsleep"
        /\ \A q \in Proc \ {p} : pc'[q] = IF pc[q] = "rasleep" THEN "rwoken" ELSE pc[q]
    BY <2>1, WokenPlaces
  <2>3. Unread' = Unread /\ Full' = Full /\ Empty' = Empty
    BY <1>1, SameCounters, Zenon
  <2>4. TypeOK'
    <3>1. pc' \in [Proc -> InWrite \cup InRead \cup {"idle"}]
      BY <2>1, WokenPlaces, Zenon DEF InWrite
    <3> QED
      BY <1>1, <2>1, <3>1, Zenon DEF PipeInv, TypeOK
  <2>5. LockInv'
    BY <1>1, <1>2, <2>1, <2>2 DEF PipeInv, LockInv, Locked
  <2>6. CallInv'
    BY <1>1, <2>1, <2>2 DEF PipeInv, CallInv, InWrite, InRead
  <2>7. ASSUME NEW q \in Proc PROVE SleepOf(q)'
    <3>1. CASE q = p
      BY <1>1, <1>4, <2>2, <2>3, <3>1, Zenon DEF SleepOf
    <3>2. CASE q # p
      <4>1. pc'[q] \notin {"wsleep", "rsleep", "copy", "rasleep"}
        BY <1>2, <2>2, <3>2, ZenonT(30) DEF Locked
      <4> QED
        BY <1>1, <1>4, <2>3, <4>1, Zenon DEF SleepOf
    <3> QED
      BY <3>1, <3>2, Zenon
  <2>8. SleepInv'
    BY <2>7 DEF SleepInv, SleepOf
  <2> QED
    BY <2>3, <2>4, <2>5, <2>6, <2>8 DEF PipeInv
<1> QED
  BY <1>3, <1>4

LEMMA ReadWaitInv ==
  ASSUME PipeInv, NEW p \in Proc, ReadWait(p)
  PROVE  PipeInv'
<1>1. /\ pc[p] = "read" /\ pc[p] \in Locked
      /\ UNCHANGED <<data, nread, nwrite, readopen, writeopen, freed, wref, rref, killed>>
  BY DEF ReadWait, ends, Locked
<1>2. lock = p /\ \A q \in Proc : q # p => pc[q] \notin Locked
  BY <1>1, LockedAlone
<1>3. CASE Empty /\ writeopen /\ killed[p]
  <2>1. /\ lock' = NoProc /\ n' = [n EXCEPT ![p] = 0] /\ i' = [i EXCEPT ![p] = 0]
        /\ pc' = [pc EXCEPT ![p] = "idle"]
    BY <1>3, Zenon DEF ReadWait, Return
  <2>2. \A q \in Proc \ {p} : pc[q] = "wasleep" => Full
    BY <1>1, <1>2, Zenon DEF PipeInv, SleepInv, Locked
  <2>3. pc \in [Proc -> InWrite \cup InRead \cup {"idle"}]
    BY WokenPlaces
  <2> QED
    BY <1>1, <1>3, <2>1, <2>2, <2>3, ReturnInv, Zenon
<1>4. CASE ~(Empty /\ writeopen /\ killed[p])
  <2>1. /\ UNCHANGED <<lock, n, i>>
        /\ \/ pc' = [pc EXCEPT ![p] = "rsleep"] /\ Empty /\ writeopen
           \/ pc' = [pc EXCEPT ![p] = "copy"] /\ ~(Empty /\ writeopen)
    BY <1>4, Zenon DEF ReadWait
  <2>2. /\ \/ pc'[p] = "rsleep" /\ Empty /\ writeopen
           \/ pc'[p] = "copy" /\ ~(Empty /\ writeopen)
        /\ \A q \in Proc \ {p} : pc'[q] = pc[q]
    BY <2>1 DEF PipeInv, TypeOK
  <2>3. Unread' = Unread /\ Full' = Full /\ Empty' = Empty
    BY <1>1, SameCounters, Zenon
  <2>4. TypeOK'
    <3>1. pc' \in [Proc -> InWrite \cup InRead \cup {"idle"}]
      BY <2>1, Zenon DEF PipeInv, TypeOK, InRead
    <3> QED
      BY <1>1, <2>1, <3>1, Zenon DEF PipeInv, TypeOK
  <2>5. LockInv'
    BY <1>1, <1>2, <2>1, <2>2, Zenon DEF PipeInv, LockInv, Locked
  <2>6. CallInv'
    <3>1. p \in rref /\ i[p] = 0 /\ n[p] > 0 /\ i[p] <= n[p]
      BY <1>1, Zenon DEF PipeInv, CallInv, InRead
    <3>2. ASSUME NEW q \in Proc
          PROVE  /\ (pc[q] \in InWrite => q \in wref)' /\ (pc[q] \in InRead => q \in rref)'
                 /\ (IF pc[q] = "idle" THEN i[q] = 0 ELSE i[q] <= n[q] /\ n[q] > 0)'
                 /\ (pc[q] \in InRead \ {"copy"} => i[q] = 0)'
      <4>1. CASE q = p
        BY <1>1, <2>1, <2>2, <3>1, <4>1, Zenon DEF InWrite
      <4>2. CASE q # p
        BY <1>1, <2>1, <2>2, <4>2, Zenon DEF PipeInv, CallInv
      <4> QED
        BY <4>1, <4>2, Zenon
    <3> QED
      BY <1>1, <3>2, Zenon DEF PipeInv, CallInv
  <2>7. ASSUME NEW q \in Proc PROVE SleepOf(q)'
    <3>1. CASE q = p
      BY <1>1, <2>2, <2>3, <3>1 DEF SleepOf
    <3>2. CASE q # p
      <4>1. pc'[q] = pc[q] /\ pc[q] \notin {"wsleep", "rsleep", "copy"}
        BY <1>2, <2>2, <3>2, Zenon DEF Locked
      <4>2. pc[q] = "wasleep" => readopen /\ Full
        BY <1>1, <1>2, Zenon DEF PipeInv, SleepInv, Locked
      <4>3. pc[q] = "rasleep" => writeopen /\ (Empty \/ \E w \in Writers : killed[w])
        BY <1>1, <1>2, Zenon DEF PipeInv, SleepInv, Locked
      <4> QED
        BY <1>1, <2>3, <4>1, <4>2, <4>3, Zenon DEF SleepOf
    <3> QED
      BY <3>1, <3>2
  <2>8. SleepInv'
    BY <2>7 DEF SleepInv, SleepOf
  <2> QED
    BY <2>3, <2>4, <2>5, <2>6, <2>8 DEF PipeInv
<1> QED
  BY <1>3, <1>4

LEMMA CloseWriteInv ==
  ASSUME PipeInv, NEW p \in Proc, CloseWrite(p)
  PROVE  PipeInv'
<1>1. /\ pc[p] = "idle" /\ wref' = wref \ {p}
      /\ UNCHANGED <<data, nread, nwrite, readopen, rref, lock, n, i, killed>>
  BY DEF CloseWrite
<1>2. Unread' = Unread /\ Full' = Full /\ Empty' = Empty
  BY <1>1, SameCounters, Zenon
<1>3. CASE wref = {p}
  <2>1. lock = NoProc /\ writeopen' = FALSE /\ pc' = WakeReaders /\ freed' = ~readopen
    BY <1>3 DEF CloseWrite
  <2>2. /\ \A q \in Proc : pc'[q] = IF pc[q] = "rasleep" THEN "rwoken" ELSE pc[q]
        /\ pc' \in [Proc -> InWrite \cup InRead \cup {"idle"}]
    BY <2>1, WokenPlaces
  <2>3. \A q \in Proc : pc[q] \notin Locked
    BY <2>1, LockFree
  <2>4. TypeOK'
    BY <1>1, <2>1, <2>2, Zenon DEF PipeInv, TypeOK
  <2>5. LockInv'
    BY <1>1, <2>1, <2>2, <2>3, Holders, Zenon DEF LockInv, Locked
  <2>6. \A q \in Proc : pc[q] \notin InWrite
    BY <1>1, <1>3, Zenon DEF PipeInv, CallInv, InWrite
  <2>7. CallInv'
    BY <1>1, <1>3, <2>1, <2>2, <2>6, ZenonT(30) DEF PipeInv, TypeOK, CallInv, InWrite, InRead
  <2>8. ASSUME NEW q \in Proc PROVE SleepOf(q)'
    <3>1. pc'[q] \notin {"wsleep", "wasleep", "rsleep", "copy", "rasleep"}
      BY <2>2, <2>3, <2>6, Zenon DEF Locked, InWrite
    <3> QED
      BY <3>1 DEF SleepOf
  <2>9. SleepInv'
    BY <2>8 DEF SleepInv, SleepOf
  <2> QED
    BY <1>2, <2>4, <2>5, <2>7, <2>9 DEF PipeInv
<1>4. CASE wref # {p}
  <2>1. UNCHANGED <<writeopen, pc, freed>> /\ p \in wref
    BY <1>4, Zenon DEF CloseWrite
  <2>2. TypeOK'
    BY <1>1, <2>1 DEF PipeInv, TypeOK
  <2>3. LockInv'
    BY <1>1, <2>1, Zenon DEF PipeInv, LockInv
  <2>4. CallInv'
    BY <1>1, <2>1, Zenon DEF PipeInv, CallInv, InWrite, InRead
  <2>5. SleepInv'
    BY <1>1, <1>2, <2>1, Zenon DEF PipeInv, SleepInv
  <2> QED
    BY <1>2, <2>2, <2>3, <2>4, <2>5 DEF PipeInv
<1> QED
  BY <1>3, <1>4

LEMMA CloseReadInv ==
  ASSUME PipeInv, NEW p \in Proc, CloseRead(p)
  PROVE  PipeInv'
<1>1. /\ pc[p] = "idle" /\ rref' = rref \ {p}
      /\ UNCHANGED <<data, nread, nwrite, writeopen, wref, lock, n, i, killed>>
  BY DEF CloseRead
<1>2. Unread' = Unread /\ Full' = Full /\ Empty' = Empty
  BY <1>1, SameCounters
<1>3. CASE rref = {p}
  <2>1. lock = NoProc /\ readopen' = FALSE /\ pc' = WakeWriters /\ freed' = ~writeopen
    BY <1>3 DEF CloseRead
  <2>2. /\ \A q \in Proc : pc'[q] = IF pc[q] = "wasleep" THEN "wwoken" ELSE pc[q]
        /\ pc' \in [Proc -> InWrite \cup InRead \cup {"idle"}]
    BY <2>1, WokenPlaces
  <2>3. \A q \in Proc : pc[q] \notin Locked
    BY <2>1, LockFree
  <2>4. TypeOK'
    BY <1>1, <2>1, <2>2, Zenon DEF PipeInv, TypeOK
  <2>5. LockInv'
    BY <1>1, <2>1, <2>2, <2>3, Holders, Zenon DEF LockInv, Locked
  <2>6. \A q \in Proc : pc[q] \notin InRead
    BY <1>1, <1>3, ZenonT(30) DEF PipeInv, CallInv, InRead
  <2>7. CallInv'
    BY <1>1, <1>3, <2>1, <2>2, <2>6 DEF PipeInv, TypeOK, CallInv, InWrite, InRead
  <2>8. ASSUME NEW q \in Proc PROVE SleepOf(q)'
    <3>1. pc'[q] \notin {"wsleep", "wasleep", "rsleep", "copy", "rasleep"}
      BY <2>2, <2>3, <2>6, Zenon DEF Locked, InRead
    <3> QED
      BY <3>1 DEF SleepOf
  <2>9. SleepInv'
    BY <2>8 DEF SleepInv, SleepOf
  <2> QED
    BY <1>2, <2>4, <2>5, <2>7, <2>9 DEF PipeInv
<1>4. CASE rref # {p}
  <2>1. UNCHANGED <<readopen, pc, freed>> /\ p \in rref
    BY <1>4 DEF CloseRead
  <2>2. TypeOK'
    BY <1>1, <2>1, Zenon DEF PipeInv, TypeOK
  <2>3. LockInv'
    BY <1>1, <2>1 DEF PipeInv, LockInv
  <2>4. CallInv'
    BY <1>1, <2>1, ZenonT(30) DEF PipeInv, CallInv, InWrite, InRead
  <2>5. SleepInv'
    BY <1>1, <1>2, <2>1, Zenon DEF PipeInv, SleepInv
  <2> QED
    BY <1>2, <2>2, <2>3, <2>4, <2>5 DEF PipeInv
<1> QED
  BY <1>3, <1>4

-----------------------------------------------------------------------------
LEMMA NextInv == PipeInv /\ [Next]_vars => PipeInv'
<1> SUFFICES ASSUME PipeInv, [Next]_vars PROVE PipeInv'
  BY Zenon
<1>1. CASE UNCHANGED vars
  <2>1. UNCHANGED <<data, nread, nwrite, readopen, writeopen, freed, wref, rref, lock, pc, n, i, killed>>
    BY <1>1 DEF vars
  <2> QED
    BY <2>1, Zenon DEF PipeInv, TypeOK, Unread, LockInv, CallInv, SleepInv, Full, Empty
<1>2. ASSUME NEW p \in Proc, Step(p) PROVE PipeInv'
  <2>1. CASE Continue(p)
    BY <2>1, SleepStepInv, RelockInv, WriteByteInv, WriteFullInv, WriteDoneInv,
       ReadWaitInv, ReadByteInv, ReadDoneInv, Zenon DEF Continue
  <2>2. CASE CloseWrite(p) \/ CloseRead(p) \/ Kill(p)
    BY <2>2, CloseWriteInv, CloseReadInv, KillInv
  <2>3. CASE \E m \in 1 .. MaxCount : WriteStart(p, m) \/ ReadStart(p, m)
    BY <2>3, StartInv
  <2> QED
    BY <1>2, <2>1, <2>2, <2>3 DEF Step
<1> QED
  BY <1>1, <1>2 DEF Next

LEMMA InitInv == Init => PipeInv
<1> SUFFICES ASSUME Init PROVE PipeInv
  OBVIOUS
<1>1. TypeOK
  <2>1. 0 \in 0 .. WORD - 1
    BY Sizes
  <2> QED
    BY <2>1, Zenon DEF Init, TypeOK
<1>2. Unread = 0
  BY <1>1, Counters DEF Init, Empty
<1>3. LockInv /\ CallInv /\ SleepInv
  BY Holders DEF Init, LockInv, CallInv, SleepInv, Locked, InWrite, InRead
<1> QED
  BY <1>1, <1>2, <1>3, Sizes DEF PipeInv

(* The counters stay within PIPESIZE bytes of each other, p->lock has one
   holder, and every sleeper has a reason to sleep or somebody about to wake
   it: PipeInv holds in every state, however many processes share the pipe. *)
THEOREM PipeInvariant == Spec => []PipeInv
BY InitInv, NextInv, PTL DEF Spec

(* No sleeping writer misses the room a reader has made, and no sleeping reader
   the bytes of a writer that was not killed. *)
THEOREM NobodyForgottenHolds == Spec => []NobodyForgotten
<1>1. PipeInv => NobodyForgotten
  <2> SUFFICES ASSUME PipeInv, lock = NoProc, NEW p \in Proc
               PROVE  /\ pc[p] = "wasleep" => Full /\ readopen
                      /\ pc[p] = "rasleep" =>
                           writeopen /\ (Empty \/ \E w \in Writers : killed[w])
    BY DEF NobodyForgotten
  <2>1. \A q \in Proc : pc[q] # "copy" /\ pc[q] # "write"
    BY LockFree, Zenon DEF Locked
  <2> QED
    BY <2>1 DEF PipeInv, SleepInv
<1> QED
  BY <1>1, PipeInvariant, PTL

(* pipeclose frees the pipe only when nobody is in pipewrite or piperead. *)
THEOREM FreedUnusedHolds == Spec => []FreedUnused
<1>1. PipeInv => FreedUnused
  <2> SUFFICES ASSUME PipeInv, freed PROVE lock = NoProc /\ \A p \in Proc : pc[p] = "idle"
    BY Zenon DEF FreedUnused
  <2>1. \A p \in Proc : pc[p] = "idle"
    BY Zenon DEF PipeInv, TypeOK, CallInv
  <2> QED
    BY <2>1, ZenonT(30) DEF PipeInv, TypeOK, LockInv, Locked
<1> QED
  BY <1>1, PipeInvariant, PTL

(* piperead returns 0 only at end of file, whatever other readers take while
   it sleeps. *)
THEOREM ZeroIsEofHolds == Spec => ZeroIsEof
<1>1. PipeInv /\ [Next]_vars =>
        [\A p \in Proc :
           pc[p] = "copy" /\ i[p] = 0 /\ pc'[p] = "idle" => Empty /\ ~writeopen]_vars
  <2> SUFFICES ASSUME PipeInv, Next, NEW p \in Proc,
                      pc[p] = "copy", i[p] = 0, pc'[p] = "idle"
               PROVE  Empty /\ ~writeopen
    OBVIOUS
  <2>1. ~Empty \/ ~writeopen
    BY Zenon DEF PipeInv, SleepInv
  <2>2. n[p] > 0
    BY Zenon DEF PipeInv, CallInv
  <2>3. PICK q \in Proc : Step(q)
    BY Zenon DEF Next
  <2>4. CASE q = p
    BY <2>1, <2>2, <2>3, <2>4 DEF Step, Continue, Sleep, Relock, WriteByte, WriteFull,
       WriteDone, ReadWait, ReadByte, ReadDone, CloseWrite, CloseRead, Kill, WriteStart,
       ReadStart, Start, PipeInv, TypeOK
  <2>5. CASE q # p
    BY <2>3, <2>5, Zenon DEF Step, Continue, Sleep, Relock, WriteByte, WriteFull,
       WriteDone, ReadWait, ReadByte, ReadDone, CloseWrite, CloseRead, Kill, WriteStart,
       ReadStart, Start, Return, Woken, WakeReaders, WakeWriters, PipeInv, TypeOK
  <2> QED
    BY <2>4, <2>5
<1> QED
  BY <1>1, PipeInvariant, PTL DEF Spec, ZeroIsEof

-----------------------------------------------------------------------------
(* The ring buffer seen as a sequence. *)
ContentIs ==
  /\ Content \in Seq(Byte) /\ Len(Content) = Unread
  /\ \A k \in 1 .. Unread : Content[k] = data[(nread + k - 1) % PIPESIZE]

LEMMA ContentSeq == PipeInv => ContentIs
<1> SUFFICES ASSUME PipeInv PROVE ContentIs
  OBVIOUS
<1>1. Unread \in Nat
  BY Counters DEF PipeInv
<1>2. ASSUME NEW k \in 1 .. Unread PROVE data[(nread + k - 1) % PIPESIZE] \in Byte
  <2>1. nread + k - 1 \in Nat
    BY <1>1 DEF PipeInv, TypeOK
  <2>2. (nread + k - 1) % PIPESIZE \in 0 .. PIPESIZE - 1
    BY <2>1, Sizes, ModRange, Zenon
  <2> QED
    BY <2>2, Zenon DEF PipeInv, TypeOK
<1>3. Content \in [1 .. Unread -> Byte]
  BY <1>2 DEF Content
<1> QED
  BY <1>1, <1>3 DEF Content, ContentIs

LEMMA ContentSeqNext == PipeInv' => ContentIs'
BY ContentSeq, PTL

(* nwrite is Unread places behind nread in the ring, also when it has wrapped
   around WORD. *)
LEMMA WriteIndex ==
  ASSUME PipeInv
  PROVE  (nread + Unread) % PIPESIZE = nwrite % PIPESIZE
<1>1. nread \in Nat /\ nwrite \in Nat /\ Unread \in Nat
  BY Counters DEF PipeInv, TypeOK
<1>2. nread + Unread = nwrite \/ nread + Unread = nwrite + WORD
  BY <1>1, Counters, DistValue, Sizes DEF PipeInv, TypeOK
<1>3. (nwrite + WORD) % PIPESIZE = nwrite % PIPESIZE
  BY <1>1, PipeAssumption, ModAddMult, Zenon
<1> QED
  BY <1>2, <1>3, Zenon

LEMMA PutsByte ==
  ASSUME PipeInv, PipeInv', NEW p \in Proc, NEW b \in Byte, WriteByte(p, b)
  PROVE  F!FNext
<1>1. /\ pc[p] = "write" /\ ~Full
      /\ data' = [data EXCEPT ![nwrite % PIPESIZE] = b]
      /\ nwrite' = (nwrite + 1) % WORD
      /\ UNCHANGED <<nread, readopen, writeopen>>
  BY Zenon DEF WriteByte, ends
<1>2. Unread \in Nat /\ Unread < PIPESIZE /\ nread \in Nat
  BY <1>1, Counters, Sizes DEF PipeInv, TypeOK
<1>3. Unread' = Unread + 1
  <2>1. Unread = Dist(nread, nwrite)
    BY Counters, Zenon DEF PipeInv
  <2>2. Dist(nread, (nwrite + 1) % WORD) = Dist(nread, nwrite) + 1
    BY <1>2, <2>1, DistUp, Zenon DEF PipeInv, TypeOK
  <2>3. Unread' = Dist(nread, (nwrite + 1) % WORD)
    BY <1>1 DEF Unread, Dist
  <2> QED
    BY <2>1, <2>2, <2>3
<1>4. /\ Content' \in Seq(Byte) /\ Len(Content') = Unread + 1
      /\ \A k \in 1 .. Unread + 1 : Content'[k] = data'[(nread + k - 1) % PIPESIZE]
  BY <1>1, <1>3, ContentSeqNext, Zenon DEF ContentIs
<1>5. /\ Append(Content, b) \in Seq(Byte) /\ Len(Append(Content, b)) = Unread + 1
      /\ \A k \in 1 .. Unread : Append(Content, b)[k] = data[(nread + k - 1) % PIPESIZE]
      /\ Append(Content, b)[Unread + 1] = b
  BY <1>2, ContentSeq, AppendProperties, SMTT(30) DEF ContentIs
<1>6. ASSUME NEW k \in 1 .. Unread PROVE Content'[k] = Append(Content, b)[k]
  <2>1. PICK x \in Nat : x = nread + k - 1
    BY <1>2
  <2>2. PICK d \in 1 .. PIPESIZE - 1 : x + d = nread + Unread
    <3>1. Unread - k + 1 \in 1 .. PIPESIZE - 1 /\ x + (Unread - k + 1) = nread + Unread
      BY <1>2, <2>1, Sizes
    <3> QED
      BY <3>1
  <2>3. (x + d) % PIPESIZE # x % PIPESIZE
    BY Sizes, ModDiff, Zenon
  <2>4. x % PIPESIZE # nwrite % PIPESIZE
    BY <2>2, <2>3, WriteIndex
  <2>5. x % PIPESIZE \in 0 .. PIPESIZE - 1
    BY Sizes, ModRange, Zenon
  <2>6. data'[x % PIPESIZE] = data[x % PIPESIZE]
    BY <1>1, <2>4, <2>5, Zenon DEF PipeInv, TypeOK
  <2>7. k \in 1 .. Unread + 1
    BY <1>2
  <2> QED
    BY <1>4, <1>5, <2>1, <2>6, <2>7, Zenon
<1>7. Content'[Unread + 1] = b
  <2>1. Unread + 1 \in 1 .. Unread + 1 /\ nread + (Unread + 1) - 1 = nread + Unread
    BY <1>2
  <2>2. nwrite % PIPESIZE \in 0 .. PIPESIZE - 1
    <3>1. nwrite \in Nat
      BY DEF PipeInv, TypeOK
    <3> QED
      BY <3>1, Sizes, ModRange, Zenon
  <2>3. data'[nwrite % PIPESIZE] = b
    BY <1>1, <2>2 DEF PipeInv, TypeOK
  <2> QED
    BY <1>4, <2>1, <2>3, WriteIndex
<1>8. Content' = Append(Content, b)
  <2>1. \A k \in 1 .. Unread + 1 : Content'[k] = Append(Content, b)[k]
    BY <1>2, <1>5, <1>6, <1>7
  <2>2. /\ Len(Content') = Len(Append(Content, b))
        /\ \A k \in 1 .. Len(Content') : Content'[k] = Append(Content, b)[k]
    BY <1>4, <1>5, <2>1, Zenon
  <2> QED
    BY <1>4, <1>5, <2>2, SeqEqual, ZenonT(30)
<1>9. writeopen
  BY <1>1, Zenon DEF PipeInv, TypeOK, CallInv, InWrite
<1>10. F!Put(b)
  BY <1>1, <1>2, <1>8, <1>9, ContentSeq DEF ContentIs, F!Put
<1> QED
  BY <1>10 DEF F!FNext

LEMMA GetsByte ==
  ASSUME PipeInv, PipeInv', NEW p \in Proc, ReadByte(p)
  PROVE  F!FNext
<1>1. /\ pc[p] = "copy" /\ ~Empty
      /\ nread' = (nread + 1) % WORD
      /\ UNCHANGED <<data, nwrite, readopen, writeopen>>
  BY Zenon DEF ReadByte, ends
<1>2. Unread \in Nat /\ Unread # 0 /\ nread \in 0 .. WORD - 1 /\ nread \in Nat
  BY <1>1, Counters, Sizes DEF PipeInv, TypeOK
<1>3. Unread' = Unread - 1
  <2>1. Unread = Dist(nread, nwrite)
    BY Counters, Zenon DEF PipeInv
  <2>2. Dist((nread + 1) % WORD, nwrite) = Dist(nread, nwrite) - 1
    BY <1>1, DistDown DEF PipeInv, TypeOK, Empty
  <2>3. Unread' = Dist((nread + 1) % WORD, nwrite)
    BY <1>1, Zenon DEF Unread, Dist
  <2> QED
    BY <2>1, <2>2, <2>3
<1>4. /\ Content' \in Seq(Byte) /\ Len(Content') = Unread - 1
      /\ \A k \in 1 .. Unread - 1 : Content'[k] = data[(nread' + k - 1) % PIPESIZE]
  BY <1>1, <1>3, ContentSeqNext DEF ContentIs
<1>5. /\ Content \in Seq(Byte) /\ Len(Content) = Unread /\ Content # <<>>
      /\ \A k \in 1 .. Unread : Content[k] = data[(nread + k - 1) % PIPESIZE]
  BY <1>2, ContentSeq DEF ContentIs
<1>6. /\ Tail(Content) \in Seq(Byte) /\ Len(Tail(Content)) = Unread - 1
      /\ \A k \in 1 .. Unread - 1 : Tail(Content)[k] = Content[k + 1]
  BY <1>5, HeadTailProperties, Zenon
<1>7. ASSUME NEW k \in 1 .. Unread - 1 PROVE Content'[k] = Tail(Content)[k]
  <2>1. PICK x \in Nat : x = nread' + k - 1 /\ (nread + k = x \/ nread + k = x + WORD)
    <3>0. nread' = IF nread = WORD - 1 THEN 0 ELSE nread + 1
      BY <1>1, <1>2, NextCounter, Zenon
    <3>1. nread' = nread + 1 \/ (nread' = 0 /\ nread + 1 = WORD)
      BY <1>2, <3>0, Sizes
    <3>2. nread' + k - 1 \in Nat
      BY <1>2, <3>1
    <3> QED
      BY <1>2, <3>1, <3>2, Sizes
  <2>2. (x + WORD) % PIPESIZE = x % PIPESIZE
    BY PipeAssumption, ModAddMult, Zenon
  <2>3. (nread + k) % PIPESIZE = x % PIPESIZE
    BY <2>1, <2>2
  <2>4. k + 1 \in 1 .. Unread /\ nread + (k + 1) - 1 = nread + k
    BY <1>2
  <2>5. Content[k + 1] = data[(nread + k) % PIPESIZE]
    BY <1>5, <2>4
  <2> QED
    BY <1>4, <1>6, <2>1, <2>3, <2>5, Zenon
<1>8. Content' = Tail(Content)
  <2>1. /\ Len(Content') = Len(Tail(Content))
        /\ \A k \in 1 .. Len(Content') : Content'[k] = Tail(Content)[k]
    BY <1>4, <1>6, <1>7, Zenon
  <2> QED
    BY <1>4, <1>6, <2>1, SeqEqual, Zenon
<1>9. readopen
  BY <1>1, Zenon DEF PipeInv, TypeOK, CallInv, InRead
<1>10. F!Get
  BY <1>1, <1>5, <1>8, <1>9 DEF F!Get
<1> QED
  BY <1>10, Zenon DEF F!FNext

(* Every other step closes an end or is not seen through Fifo. *)
LEMMA OthersClose ==
  ASSUME PipeInv, NEW p \in Proc, CloseWrite(p) \/ CloseRead(p)
  PROVE  [F!FNext]_<<Content, writeopen, readopen>>
<1>1. UNCHANGED Content
  BY DEF CloseWrite, CloseRead, Content, Unread
<1>2. CASE CloseWrite(p)
  <2>1. /\ writeopen /\ UNCHANGED readopen
        /\ writeopen' = FALSE \/ writeopen' = writeopen
    BY <1>2 DEF CloseWrite, PipeInv, TypeOK, CallInv
  <2> QED
    BY <1>1, <2>1, ZenonT(30) DEF F!FNext, F!CloseW
<1>3. CASE CloseRead(p)
  <2>1. /\ readopen /\ UNCHANGED writeopen
        /\ readopen' = FALSE \/ readopen' = readopen
    BY <1>3 DEF CloseRead, PipeInv, TypeOK, CallInv
  <2> QED
    BY <1>1, <2>1, Zenon DEF F!FNext, F!CloseR
<1> QED
  BY <1>2, <1>3, Zenon

(* The ring buffer implements Fifo, for every PIPESIZE that divides WORD: no
   byte is lost, duplicated or overtaken, also when the counters wrap. *)
THEOREM PipeIsFifoHolds == Spec => PipeIsFifo
<1>1. Init => F!FInit
  <2> SUFFICES ASSUME Init PROVE F!FInit
    OBVIOUS
  <2>1. Unread = 0
    BY InitInv, Counters DEF PipeInv, Init, Empty
  <2> QED
    BY <2>1 DEF F!FInit, Init, Content
<1>2. PipeInv /\ PipeInv' /\ [Next]_vars => [F!FNext]_<<Content, writeopen, readopen>>
  <2> SUFFICES ASSUME PipeInv, PipeInv', [Next]_vars
               PROVE  [F!FNext]_<<Content, writeopen, readopen>>
    OBVIOUS
  <2>1. CASE UNCHANGED <<data, nread, nwrite, writeopen, readopen>>
    BY <2>1 DEF Content, Unread
  <2>2. CASE UNCHANGED vars
    BY <2>1, <2>2, Zenon DEF vars
  <2>3. ASSUME NEW p \in Proc, Step(p) PROVE [F!FNext]_<<Content, writeopen, readopen>>
    <3>1. CASE \E b \in Byte : WriteByte(p, b)
      BY <3>1, PutsByte
    <3>2. CASE ReadByte(p)
      BY <3>2, GetsByte
    <3>3. CASE CloseWrite(p) \/ CloseRead(p)
      BY <3>3, OthersClose, Zenon
    <3>4. CASE Sleep(p) \/ Relock(p) \/ WriteFull(p) \/ WriteDone(p) \/ ReadWait(p)
               \/ ReadDone(p) \/ Kill(p)
      BY <2>1, <3>4, Zenon DEF Sleep, Relock, WriteFull, WriteDone, ReadWait, ReadDone, Kill, ends
    <3>5. CASE \E m \in 1 .. MaxCount : WriteStart(p, m) \/ ReadStart(p, m)
      BY <2>1, <3>5 DEF WriteStart, ReadStart, Start, ends
    <3> QED
      BY <2>3, <3>1, <3>2, <3>3, <3>4, <3>5, Zenon DEF Step, Continue
  <2> QED
    BY <2>2, <2>3 DEF Next
<1> QED
  BY <1>1, <1>2, PipeInvariant, PTL DEF Spec, PipeIsFifo, F!FSpec
=============================================================================
