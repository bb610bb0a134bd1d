------------------------------ MODULE Spinlock ------------------------------
(***************************************************************************)
(* kernel/spinlock.c: the spinlocks, and the nested interrupt disabling    *)
(* (pushcli, popcli) they are built on, run by processors that can be      *)
(* interrupted wherever interrupts are enabled.                            *)
(*                                                                         *)
(* A processor runs a kernel thread and, on top of it, at most one         *)
(* interrupt handler: the gates of kernel/trap.c are interrupt gates, so   *)
(* a handler starts with interrupts off, and it leaves with the flags of   *)
(* the code it interrupted.  A thread or a handler takes locks in          *)
(* increasing order (the order the kernel's callers keep), gives up the    *)
(* last one it took, and may stop between any two instructions named       *)
(* below.                                                                  *)
(***************************************************************************)
EXTENDS Naturals, Sequences

CONSTANTS
    CPU,        \* the processors
    Lock,       \* the locks, a set of numbers: their order
    NULL        \* the null pointer in lock->cpu

VARIABLES
    locked,     \* lk->locked
    cpu,        \* lk->cpu
    FL_IF,      \* the interrupt flag of each processor
    ncli,       \* cpu->ncli
    intena,     \* cpu->intena
    frames,     \* the contexts of each processor, the running one last
    panicked

vars == <<locked, cpu, FL_IF, ncli, intena, frames, panicked>>

(* A context: what it executes next, for which lock, the flags pushcli     *)
(* read, and the locks it holds in the order it took them.                 *)
Context == [pc : {"run", "cli", "test", "xchg", "own", "drop", "popcli"},
            lk : Lock \cup {NULL}, eflags : BOOLEAN, held : Seq(Lock)]

Idle == [pc |-> "run", lk |-> NULL, eflags |-> FALSE, held |-> <<>>]

Init ==
    /\ locked = [l \in Lock |-> FALSE]
    /\ cpu = [l \in Lock |-> NULL]
    /\ FL_IF = [c \in CPU |-> TRUE]
    /\ ncli = [c \in CPU |-> 0]
    /\ intena = [c \in CPU |-> FALSE]
    /\ frames = [c \in CPU |-> <<Idle>>]
    /\ panicked = FALSE

Top(c) == frames[c][Len(frames[c])]

SetTop(c, f) == frames' = [frames EXCEPT ![c][Len(frames[c])] = f]

At(c, pc) == ~panicked /\ Top(c).pc = pc

holding(c, l) == locked[l] /\ cpu[l] = c

-----------------------------------------------------------------------------
(* pushcli, in two steps: an interrupt can come between the read of the    *)
(* flags and cli.                                                          *)
acquire(c, l) ==
    /\ At(c, "run")
    /\ \A j \in 1..Len(Top(c).held) : Top(c).held[j] < l
    /\ SetTop(c, [Top(c) EXCEPT !.pc = "cli", !.lk = l, !.eflags = FL_IF[c]])
    /\ UNCHANGED <<locked, cpu, FL_IF, ncli, intena, panicked>>

(* Wrong: intena is overwritten by every nested pushcli. *)
SavedAlways(c) == Top(c).eflags

Saved(c) == IF ncli[c] = 0 THEN Top(c).eflags ELSE intena[c]

pushcli(c) ==
    /\ At(c, "cli")
    /\ FL_IF' = [FL_IF EXCEPT ![c] = FALSE]
    /\ ncli' = [ncli EXCEPT ![c] = @ + 1]
    /\ intena' = [intena EXCEPT ![c] = Saved(c)]
    /\ SetTop(c, [Top(c) EXCEPT !.pc = "test"])
    /\ UNCHANGED <<locked, cpu, panicked>>

Test(c) ==
    /\ At(c, "test")
    /\ panicked' = holding(c, Top(c).lk)
    /\ SetTop(c, [Top(c) EXCEPT !.pc = "xchg"])
    /\ UNCHANGED <<locked, cpu, FL_IF, ncli, intena>>

(* One xchg that finds the lock free; the ones before it change nothing. *)
xchg(c) ==
    /\ At(c, "xchg")
    /\ ~locked[Top(c).lk]
    /\ locked' = [locked EXCEPT ![Top(c).lk] = TRUE]
    /\ SetTop(c, [Top(c) EXCEPT !.pc = "own", !.held = Append(@, Top(c).lk)])
    /\ UNCHANGED <<cpu, FL_IF, ncli, intena, panicked>>

Own(c) ==
    /\ At(c, "own")
    /\ cpu' = [cpu EXCEPT ![Top(c).lk] = c]
    /\ SetTop(c, [Top(c) EXCEPT !.pc = "run", !.lk = NULL])
    /\ UNCHANGED <<locked, FL_IF, ncli, intena, panicked>>

-----------------------------------------------------------------------------
release(c) ==
    /\ At(c, "run")
    /\ Top(c).held # <<>>
    /\ LET l == Top(c).held[Len(Top(c).held)] IN
          /\ panicked' = ~holding(c, l)
          /\ cpu' = [cpu EXCEPT ![l] = NULL]
          /\ SetTop(c, [Top(c) EXCEPT !.pc = "drop", !.lk = l])
    /\ UNCHANGED <<locked, FL_IF, ncli, intena>>

Drop(c) ==
    /\ At(c, "drop")
    /\ locked' = [locked EXCEPT ![Top(c).lk] = FALSE]
    /\ SetTop(c, [Top(c) EXCEPT !.pc = "popcli",
                                !.held = SubSeq(@, 1, Len(@) - 1)])
    /\ UNCHANGED <<cpu, FL_IF, ncli, intena, panicked>>

popcli(c) ==
    /\ At(c, "popcli")
    /\ panicked' = (FL_IF[c] \/ ncli[c] = 0)
    /\ ncli' = [ncli EXCEPT ![c] = @ - 1]
    /\ FL_IF' = [FL_IF EXCEPT ![c] = ncli[c] = 1 /\ intena[c]]
    /\ SetTop(c, [Top(c) EXCEPT !.pc = "run", !.lk = NULL])
    /\ UNCHANGED <<locked, cpu, intena>>

-----------------------------------------------------------------------------
(* A device interrupts a processor; its handler starts with interrupts off *)
(* and returns, holding nothing, to flags that had them on.                *)
Interrupt(c) ==
    /\ ~panicked /\ FL_IF[c] /\ Len(frames[c]) = 1
    /\ frames' = [frames EXCEPT ![c] = Append(@, Idle)]
    /\ FL_IF' = [FL_IF EXCEPT ![c] = FALSE]
    /\ UNCHANGED <<locked, cpu, ncli, intena, panicked>>

Return(c) ==
    /\ At(c, "run") /\ Len(frames[c]) = 2 /\ Top(c).held = <<>>
    /\ frames' = [frames EXCEPT ![c] = <<@[1]>>]
    /\ FL_IF' = [FL_IF EXCEPT ![c] = TRUE]
    /\ UNCHANGED <<locked, cpu, ncli, intena, panicked>>

Next ==
    \E c \in CPU :
        \/ \E l \in Lock : acquire(c, l)
        \/ pushcli(c) \/ Test(c) \/ xchg(c) \/ Own(c)
        \/ release(c) \/ Drop(c) \/ popcli(c)
        \/ Interrupt(c) \/ Return(c)

Spec == Init /\ [][Next]_vars

-----------------------------------------------------------------------------
Holds(c, i, l) == \E j \in 1..Len(frames[c][i].held) : frames[c][i].held[j] = l

(***************************************************************************)
(* A lock has at most one holder over all processors and all the contexts  *)
(* on them, an interrupted thread's included, and no processor panics:     *)
(* acquire never meets a lock its own processor holds (a handler would     *)
(* spin for ever), release and popcli never find their count or flag       *)
(* wrong.                                                                  *)
(***************************************************************************)
Exclusion ==
    /\ ~panicked
    /\ \A c, d \in CPU, l \in Lock :
           \A i \in 1..Len(frames[c]), j \in 1..Len(frames[d]) :
               Holds(c, i, l) /\ Holds(d, j, l) => c = d /\ i = j

(***************************************************************************)
(* A processor that holds no lock and is not inside acquire or release has *)
(* the interrupt flag it started with: on in a thread, off in a handler.   *)
(* Nested acquires and releases, with interrupts taken between their       *)
(* steps, neither leave interrupts off nor turn them on too early.         *)
(***************************************************************************)
FlagRestored ==
    \A c \in CPU :
        Top(c).pc = "run" => FL_IF[c] = (Len(frames[c]) = 1 /\ Top(c).held = <<>>)

-----------------------------------------------------------------------------
(* The inductive invariant.  Only the running context of a processor holds *)
(* locks: one that was interrupted had the flag on, so it is outside       *)
(* acquire and release, or before the cli of pushcli.                      *)
InHeld(c, l) == Holds(c, Len(frames[c]), l)

TypeOK ==
    /\ locked \in [Lock -> BOOLEAN]
    /\ cpu \in [Lock -> CPU \cup {NULL}]
    /\ FL_IF \in [CPU -> BOOLEAN]
    /\ ncli \in [CPU -> Nat]
    /\ intena \in [CPU -> BOOLEAN]
    /\ frames \in [CPU -> Seq(Context)]
    /\ panicked = FALSE

FrameInv(c) ==
    /\ Len(frames[c]) \in {1, 2}
    /\ Len(frames[c]) = 2 => /\ frames[c][1].held = <<>>
                             /\ frames[c][1].pc \in {"run", "cli"}
                             /\ frames[c][1].pc = "cli" =>
                                    frames[c][1].lk \in Lock /\ frames[c][1].eflags

(* The running context takes its locks in order. *)
OrderInv(c) ==
    LET f == Top(c) IN
    /\ f.pc # "run" => f.lk \in Lock
    /\ \A i, j \in 1..Len(f.held) : i < j => f.held[i] < f.held[j]
    /\ f.pc \in {"cli", "test", "xchg"} => \A j \in 1..Len(f.held) : f.held[j] < f.lk
    /\ f.pc \in {"own", "drop"} => Len(f.held) > 0 /\ f.lk = f.held[Len(f.held)]

(* ncli counts the locks held and the one acquire or release is busy with; *)
(* the flag is off while it counts, and intena is what it was before.      *)
FlagInv(c) ==
    LET f == Top(c) IN
    /\ ncli[c] = Len(f.held) + (IF f.pc \in {"test", "xchg", "popcli"} THEN 1 ELSE 0)
    /\ FL_IF[c] <=> (Len(frames[c]) = 1 /\ ncli[c] = 0)
    /\ f.pc = "cli" => (f.eflags <=> FL_IF[c])
    /\ ncli[c] > 0 => (intena[c] <=> Len(frames[c]) = 1)

OwnerInv ==
    /\ \A c \in CPU, l \in Lock : InHeld(c, l) => locked[l]
    /\ \A c, d \in CPU, l \in Lock : InHeld(c, l) /\ InHeld(d, l) => c = d
    /\ \A c \in CPU, l \in Lock : cpu[l] = c => InHeld(c, l)
    /\ \A c \in CPU, l \in Lock :
           InHeld(c, l) => cpu[l] = c \/ (Top(c).pc \in {"own", "drop"} /\ Top(c).lk = l)
    /\ \A c \in CPU : Top(c).pc = "drop" => cpu[Top(c).lk] = NULL

SpinInv == TypeOK /\ (\A c \in CPU : FrameInv(c) /\ OrderInv(c) /\ FlagInv(c)) /\ OwnerInv
=============================================================================
