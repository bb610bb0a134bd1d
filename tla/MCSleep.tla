------------------------------ MODULE MCSleep ------------------------------
(***************************************************************************)
(* Liveness of the two places where processes sleep for other processes or *)
(* for the disk: the pipe and the buffer cache, each on its own, picked by *)
(* the initial state, under the fairness their modules assume.             *)
(***************************************************************************)
EXTENDS Integers

CONSTANTS Proc, NoProc, Writers, Readers, Byte, PIPESIZE, WORD, MaxCount
CONSTANTS CacheProc, Sector, NoSector, Val, NBUF, MaxPin

VARIABLES part
VARIABLES data, nread, nwrite, readopen, writeopen, freed, wref, rref, lock, pc, n, i, killed
VARIABLES sector, busy, valid, dirty, bdata, lru, idequeue, active, disk, bpc, want, buf,
          changed, panicked

pipe == <<data, nread, nwrite, readopen, writeopen, freed, wref, rref, lock, pc, n, i, killed>>
cache == <<sector, busy, valid, dirty, bdata, lru, idequeue, active, disk, bpc, want, buf,
           changed, panicked>>
vars == <<part, pipe, cache>>

P == INSTANCE Pipe
C == INSTANCE BufferCache WITH Proc <- CacheProc, data <- bdata, pc <- bpc

Init == part \in {"pipe", "cache"} /\ P!Init /\ C!Init

InPipe == part = "pipe" /\ UNCHANGED <<part, cache>>
InCache == part = "cache" /\ UNCHANGED <<part, pipe>>

Next == \/ InPipe /\ P!Next
        \/ InCache /\ C!Next

FairSpec ==
    /\ Init /\ [][Next]_vars
    /\ \A p \in Proc : /\ WF_vars(InPipe /\ P!Continue(p))
                       /\ SF_vars(InPipe /\ P!Relock(p))
    /\ WF_vars(InCache /\ ~panicked /\ C!Ideintr)
    /\ \A p \in CacheProc : WF_vars(InCache /\ ~panicked /\ C!Continue(p))

(* pipeclose: closing the write end ends the call of every reader in the   *)
(* pipe, and closing the read end that of every writer.                    *)
CloseEndsCalls == P!CloseEndsCalls

(* bread, bwrite: a process that asks for a block gets it in the end.      *)
RequestAnswered == C!RequestAnswered
=============================================================================
