-------------------------------- MODULE Pipe --------------------------------
(***************************************************************************)
(* kernel/pipe.c: one pipe, the processes that hold its ends, and kill().  *)
(* p->lock is a variable because a process holds it from its test of       *)
(* proc->killed up to the sleep while kill(), which does not take it, may  *)
(* come in between.  Sleeping and waking are those of Proc: wakeup makes   *)
(* the sleepers of a channel runnable, and they take p->lock again.        *)
(***************************************************************************)
EXTENDS Naturals, Sequences, FiniteSets

CONSTANTS Proc, NoProc,
          Writers, Readers,   \* who holds the write end and the read end at first
          Byte,
          PIPESIZE,
          WORD,               \* 2^32: nread and nwrite are uints
          MaxCount            \* largest n given to read and write

ASSUME PipeAssumption ==
  /\ NoProc \notin Proc /\ Writers \subseteq Proc /\ Readers \subseteq Proc
  /\ PIPESIZE \in Nat \ {0} /\ WORD \in Nat \ {0} /\ MaxCount \in Nat
  /\ PIPESIZE < WORD /\ WORD % PIPESIZE = 0

VARIABLES
  data, nread, nwrite, readopen, writeopen,  \* struct pipe
  freed,       \* kfree(p) has been called
  wref, rref,  \* processes with a descriptor of the write end, of the read end
  lock,        \* who holds p->lock
  pc, n, i,    \* per process: place in pipewrite or piperead, its n and its i
  killed

vars == <<data, nread, nwrite, readopen, writeopen, freed, wref, rref, lock, pc,
          n, i, killed>>
ends == <<readopen, writeopen, freed, wref, rref>>

(* Wrong: one slot too many. *)
FullLate == nwrite = (nread + PIPESIZE + 1) % WORD
Full  == nwrite = (nread + PIPESIZE) % WORD
Empty == nread = nwrite

Init ==   \* pipealloc has succeeded and the ends have been shared by fork
  /\ data \in [0 .. PIPESIZE - 1 -> Byte]
  /\ nread = 0 /\ nwrite = 0
  /\ readopen = TRUE /\ writeopen = TRUE
  /\ freed = FALSE
  /\ wref = Writers /\ rref = Readers
  /\ lock = NoProc
  /\ pc = [p \in Proc |-> "idle"]
  /\ n = [p \in Proc |-> 0] /\ i = [p \in Proc |-> 0]
  /\ killed = [p \in Proc |-> FALSE]

-----------------------------------------------------------------------------
(* The places after wakeup of the sleepers at place l. *)
Woken(l, woken) == [q \in Proc |-> IF pc[q] = l THEN woken ELSE pc[q]]
WakeReaders == Woken("rasleep", "rwoken")
WakeWriters == Woken("wasleep", "wwoken")

Start(p, l, m) ==
  /\ pc[p] = "idle" /\ ~killed[p] /\ lock = NoProc
  /\ lock' = p
  /\ pc' = [pc EXCEPT ![p] = l]
  /\ n' = [n EXCEPT ![p] = m]
  /\ UNCHANGED <<data, nread, nwrite, ends, i, killed>>

(* Release p->lock and return, the processes being at places l. *)
Return(p, l) ==
  /\ lock' = NoProc
  /\ pc' = [l EXCEPT ![p] = "idle"]
  /\ n' = [n EXCEPT ![p] = 0]
  /\ i' = [i EXCEPT ![p] = 0]

(* sched inside sleep: p->lock is free, the process is SLEEPING. *)
Sleep(p) ==
  /\ pc[p] \in {"wsleep", "rsleep"}
  /\ lock' = NoProc
  /\ pc' = [pc EXCEPT ![p] = IF @ = "wsleep" THEN "wasleep" ELSE "rasleep"]
  /\ UNCHANGED <<data, nread, nwrite, ends, n, i, killed>>

(* Wrong: piperead tests for bytes once, instead of again after each sleep. *)
RelockIf(p) ==
  /\ pc[p] \in {"wwoken", "rwoken"} /\ lock = NoProc
  /\ lock' = p
  /\ pc' = [pc EXCEPT ![p] = IF @ = "wwoken" THEN "write" ELSE "copy"]
  /\ UNCHANGED <<data, nread, nwrite, ends, n, i, killed>>

(* sleep returns with p->lock, to the loop's test. *)
Relock(p) ==
  /\ pc[p] \in {"wwoken", "rwoken"} /\ lock = NoProc
  /\ lock' = p
  /\ pc' = [pc EXCEPT ![p] = IF @ = "wwoken" THEN "write" ELSE "read"]
  /\ UNCHANGED <<data, nread, nwrite, ends, n, i, killed>>

-----------------------------------------------------------------------------
WriteStart(p, m) == p \in wref /\ Start(p, "write", m)

WriteByte(p, b) ==
  /\ pc[p] = "write" /\ i[p] < n[p] /\ ~Full
  /\ data' = [data EXCEPT ![nwrite % PIPESIZE] = b]
  /\ nwrite' = (nwrite + 1) % WORD
  /\ i' = [i EXCEPT ![p] = @ + 1]
  /\ UNCHANGED <<nread, ends, lock, pc, n, killed>>

WriteFull(p) ==
  /\ pc[p] = "write" /\ i[p] < n[p] /\ Full
  /\ IF ~readopen \/ killed[p]
     THEN Return(p, pc)
     ELSE pc' = [WakeReaders EXCEPT ![p] = "wsleep"] /\ UNCHANGED <<lock, n, i>>
  /\ UNCHANGED <<data, nread, nwrite, ends, killed>>

WriteDone(p) ==
  /\ pc[p] = "write" /\ i[p] = n[p]
  /\ Return(p, WakeReaders)
  /\ UNCHANGED <<data, nread, nwrite, ends, killed>>

ReadStart(p, m) == p \in rref /\ Start(p, "read", m)

ReadWait(p) ==
  /\ pc[p] = "read"
  /\ IF Empty /\ writeopen
     THEN IF killed[p] THEN Return(p, pc)
          ELSE pc' = [pc EXCEPT ![p] = "rsleep"] /\ UNCHANGED <<lock, n, i>>
     ELSE pc' = [pc EXCEPT ![p] = "copy"] /\ UNCHANGED <<lock, n, i>>
  /\ UNCHANGED <<data, nread, nwrite, ends, killed>>

ReadByte(p) ==
  /\ pc[p] = "copy" /\ i[p] < n[p] /\ ~Empty
  /\ nread' = (nread + 1) % WORD
  /\ i' = [i EXCEPT ![p] = @ + 1]
  /\ UNCHANGED <<data, nwrite, ends, lock, pc, n, killed>>

(* Wrong: the writers are not woken. *)
ReadDoneSilent(p) ==
  /\ pc[p] = "copy" /\ (i[p] = n[p] \/ Empty)
  /\ Return(p, pc)
  /\ UNCHANGED <<data, nread, nwrite, ends, killed>>

ReadDone(p) ==
  /\ pc[p] = "copy" /\ (i[p] = n[p] \/ Empty)
  /\ Return(p, WakeWriters)
  /\ UNCHANGED <<data, nread, nwrite, ends, killed>>

-----------------------------------------------------------------------------
(* Wrong: the first close of the write end frees the pipe. *)
CloseWriteFrees(p) ==
  /\ pc[p] = "idle" /\ p \in wref /\ lock = NoProc
  /\ wref' = wref \ {p}
  /\ writeopen' = FALSE
  /\ pc' = WakeReaders
  /\ freed' = TRUE
  /\ UNCHANGED <<data, nread, nwrite, readopen, rref, lock, n, i, killed>>

(* Wrong: the readers are not told that the write end is gone. *)
CloseWriteSilent(p) ==
  /\ pc[p] = "idle" /\ p \in wref
  /\ wref' = wref \ {p}
  /\ IF wref = {p}
     THEN lock = NoProc /\ writeopen' = FALSE /\ freed' = ~readopen
     ELSE UNCHANGED <<writeopen, freed>>
  /\ UNCHANGED <<data, nread, nwrite, readopen, rref, lock, pc, n, i, killed>>

(* close() of the write end; the last reference calls pipeclose(p, 1). *)
CloseWrite(p) ==
  /\ pc[p] = "idle" /\ p \in wref
  /\ wref' = wref \ {p}
  /\ IF wref = {p}
     THEN /\ lock = NoProc
          /\ writeopen' = FALSE
          /\ pc' = WakeReaders
          /\ freed' = ~readopen
     ELSE UNCHANGED <<writeopen, pc, freed>>
  /\ UNCHANGED <<data, nread, nwrite, readopen, rref, lock, n, i, killed>>

CloseRead(p) ==
  /\ pc[p] = "idle" /\ p \in rref
  /\ rref' = rref \ {p}
  /\ IF rref = {p}
     THEN /\ lock = NoProc
          /\ readopen' = FALSE
          /\ pc' = WakeWriters
          /\ freed' = ~writeopen
     ELSE UNCHANGED <<readopen, pc, freed>>
  /\ UNCHANGED <<data, nread, nwrite, writeopen, wref, lock, n, i, killed>>

(* kill(): marks the process and wakes it if it is SLEEPING. *)
Kill(p) ==
  /\ ~killed[p]
  /\ killed' = [killed EXCEPT ![p] = TRUE]
  /\ pc' = [pc EXCEPT ![p] = CASE @ = "wasleep" -> "wwoken"
                               [] @ = "rasleep" -> "rwoken"
                               [] OTHER -> @]
  /\ UNCHANGED <<data, nread, nwrite, ends, lock, n, i>>

-----------------------------------------------------------------------------
Continue(p) ==
  \/ Sleep(p) \/ Relock(p)
  \/ (\E b \in Byte : WriteByte(p, b)) \/ WriteFull(p) \/ WriteDone(p)
  \/ ReadWait(p) \/ ReadByte(p) \/ ReadDone(p)

Step(p) ==
  \/ Continue(p) \/ CloseWrite(p) \/ CloseRead(p) \/ Kill(p)
  \/ \E m \in 1 .. MaxCount : WriteStart(p, m) \/ ReadStart(p, m)

Next == \E p \in Proc : Step(p)

Spec == Init /\ [][Next]_vars

(* A process in the middle of a call goes on, and a woken one gets p->lock in
   the end (others release it again and again). *)
FairSpec ==
  Spec /\ \A p \in Proc : WF_vars(Continue(p)) /\ SF_vars(Relock(p))

-----------------------------------------------------------------------------
Asleep == {"wasleep", "rasleep"}
Locked == {"write", "wsleep", "read", "rsleep", "copy"}

(* The bytes between the two counters. *)
Unread == (nwrite + WORD - nread) % WORD
Content == [k \in 1 .. Unread |-> data[(nread + k - 1) % PIPESIZE]]

F == INSTANCE Fifo WITH Size <- PIPESIZE, q <- Content,
                        wopen <- writeopen, ropen <- readopen

(* The ring buffer is a FIFO of at most PIPESIZE bytes, also when the counters
   wrap around: no byte is lost, duplicated or overtaken. *)
PipeIsFifo == F!FSpec

(* No sleeper is left behind: while p->lock is free, a sleeping writer faces a
   full pipe that may still be read, and a sleeping reader has nothing to read
   and somebody may still write.  So no two processes wait for each other.  The
   exception is a killed writer: pipewrite returns -1 from a full pipe without
   the wakeup for the bytes it has put there. *)
NobodyForgotten ==
  lock = NoProc =>
    \A p \in Proc :
      /\ pc[p] = "wasleep" => Full /\ readopen
      /\ pc[p] = "rasleep" => writeopen /\ (Empty \/ \E w \in Writers : killed[w])

(* piperead returns 0 for a positive n only at end of file: a reader that was
   woken and finds the bytes taken by another reader waits again. *)
ZeroIsEof ==
  [][\A p \in Proc :
       pc[p] = "copy" /\ i[p] = 0 /\ pc'[p] = "idle" => Empty /\ ~writeopen]_vars

(* pipeclose frees the pipe when nobody is left in pipewrite or piperead, not
   even a process that is asleep or waits for p->lock. *)
FreedUnused ==
  freed => lock = NoProc /\ \A p \in Proc : pc[p] = "idle"

(* Closing the write end reaches every reader, and closing the read end every
   writer: neither stays in the pipe. *)
CloseEndsCalls ==
  \A p \in Proc :
    /\ ~writeopen /\ pc[p] \in {"read", "rsleep", "rasleep", "rwoken"} ~> pc[p] = "idle"
    /\ ~readopen /\ pc[p] \in {"write", "wsleep", "wasleep", "wwoken"} ~> pc[p] = "idle"

-----------------------------------------------------------------------------
(* The inductive invariant behind NobodyForgotten, ZeroIsEof, FreedUnused and
   PipeIsFifo. *)
InWrite == {"write", "wsleep", "wasleep", "wwoken"}
InRead  == {"read", "rsleep", "rasleep", "rwoken", "copy"}

TypeOK ==
  /\ data \in [0 .. PIPESIZE - 1 -> Byte]
  /\ nread \in 0 .. WORD - 1 /\ nwrite \in 0 .. WORD - 1
  /\ readopen \in BOOLEAN /\ writeopen \in BOOLEAN /\ freed \in BOOLEAN
  /\ wref \subseteq Writers /\ rref \subseteq Readers
  /\ lock \in Proc \cup {NoProc}
  /\ pc \in [Proc -> InWrite \cup InRead \cup {"idle"}]
  /\ n \in [Proc -> Nat] /\ i \in [Proc -> Nat]
  /\ killed \in [Proc -> BOOLEAN]

(* p->lock is held by the process that is at a place where it has it. *)
LockInv == \A p \in Proc : pc[p] \in Locked <=> lock = p

(* A process in pipewrite or piperead has the end it uses, and was asked for
   at least one byte; the ends nobody has are closed. *)
CallInv ==
  /\ \A p \in Proc : pc[p] \in InWrite => p \in wref
  /\ \A p \in Proc : pc[p] \in InRead => p \in rref
  /\ \A p \in Proc : IF pc[p] = "idle" THEN i[p] = 0 ELSE i[p] <= n[p] /\ n[p] > 0
  /\ \A p \in Proc : pc[p] \in InRead \ {"copy"} => i[p] = 0
  /\ ~writeopen => wref = {}
  /\ ~readopen => rref = {}
  /\ freed => ~writeopen /\ ~readopen

(* A process about to sleep has reason to.  Once it is asleep the reason can
   only go away in the hands of somebody who will still call wakeup, a killed
   writer excepted. *)
SleepInv ==
  \A p \in Proc :
    /\ pc[p] = "wsleep" => Full /\ readopen
    /\ pc[p] = "rsleep" => Empty /\ writeopen
    /\ pc[p] = "wasleep" => readopen /\ (Full \/ \E q \in Proc : pc[q] = "copy")
    /\ pc[p] = "rasleep" =>
         writeopen /\ (Empty \/ (\E w \in Writers : killed[w]) \/ \E q \in Proc : pc[q] = "write")
    /\ pc[p] = "copy" /\ i[p] = 0 => ~Empty \/ ~writeopen

PipeInv == TypeOK /\ Unread <= PIPESIZE /\ LockInv /\ CallInv /\ SleepInv
=============================================================================
