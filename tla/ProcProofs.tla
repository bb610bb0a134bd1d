----------------------------- MODULE ProcProofs -----------------------------
(***************************************************************************)
(* ProcInv is an invariant of Proc for any number of slots and CPUs, and   *)
(* with it every safety property of Proc.  First the facts the proofs      *)
(* share: what the types and the parts of the invariant say, and which     *)
(* steps leave which part alone.  Then one lemma per step: the scheduler,  *)
(* the timer and the two ways to sleep; the steps that create, end and     *)
(* free a process; the system calls that change a process's own state.     *)
(***************************************************************************)
EXTENDS Proc, WellFoundedInduction, TLAPS

USE Zenon

(* A nonempty set of naturals has a least element. *)
LEMMA MinExists ==
  ASSUME NEW S \in SUBSET Nat, S # {}
  PROVE  \E i \in S : \A j \in S : i <= j
<1>1. PICK x \in S : \A y \in S : ~ (<<y, x>> \in OpToRel(<, Nat))
  BY NatLessThanWellFounded, WFMin
<1>2. \A y \in S : ~ (y < x)
  BY <1>1 DEF OpToRel
<1> QED
  BY <1>2, SMT

(* Least names a member of the set. *)
LEMMA LeastIn ==
  ASSUME NEW S \in SUBSET Slot, S # {}
  PROVE  Least(S) \in S
<1>1. S \in SUBSET Nat
  BY SlotAssumption, SMT DEF Slot
<1> QED
  BY <1>1, MinExists DEF Least

(* The scheduler switches to a slot that is RUNNABLE. *)
LEMMA HighPRunnable ==
  ASSUME priority \in [Slot -> Nat], NEW p \in Runnable
  PROVE  HighP(p) \in Runnable
<1> DEFINE best == {i \in Runnable : \A j \in Runnable : priority[i] <= priority[j]}
           P == {priority[i] : i \in Runnable}
<1>1. P \in SUBSET Nat
  BY DEF Runnable
<1>2. priority[p] \in P
  OBVIOUS
<1>3. P # {}
  BY <1>2
<1> HIDE DEF P
<1>4. PICK m \in P : \A q \in P : m <= q
  BY <1>1, <1>3, MinExists
<1>5. PICK i \in Runnable : m = priority[i]
  BY DEF P
<1>6. i \in best
  BY <1>4, <1>5 DEF P
<1>7. best \in SUBSET Slot
  BY DEF Runnable
<1>8. Least(best) \in best
  BY <1>6, <1>7, LeastIn
<1> QED
  BY <1>8 DEF HighP

(* The types without the Boolean-valued killed. *)
SlotTypes ==
  /\ state \in [Slot -> States]
  /\ pid \in [Slot -> Nat] /\ nextpid \in Nat
  /\ parent \in [Slot -> Slot \cup {0}]
  /\ chan \in [Slot -> Slot \cup {0, Ticks}]
  /\ priority \in [Slot -> Nat]
  /\ ctx \in [Slot -> {"run", "forkret", "yield", "wait", "ticks", "zombie"}]
  /\ pc \in [Slot -> {"user", "fork", "forked", "name", "exit", "wait", "check",
                      "sleep", "relock"}]
  /\ np \in [Slot -> Slot \cup {0}]
  /\ left \in [Slot -> 0 .. MaxSleep]

CpuTypes ==
  /\ plock \in CPU \cup {NoCPU} /\ tickslock \in CPU \cup {NoCPU}
  /\ cpuproc \in [CPU -> Slot \cup {0}]
  /\ mode \in [CPU -> {"idle", "scan", "run", "sched"}]
  /\ pos \in [CPU -> 1 .. NPROC + 1]
  /\ intr \in [CPU -> {"none", "wakeup", "yield"}]

(* The type invariant in two parts, with the one Boolean variable apart. *)
LEMMA Types == TypeOK <=> SlotTypes /\ CpuTypes /\ killed \in [Slot -> BOOLEAN]
BY DEF TypeOK, SlotTypes, CpuTypes

(* The same of the next state. *)
LEMMA TypesNext == TypeOK' <=> SlotTypes' /\ CpuTypes' /\ killed' \in [Slot -> BOOLEAN]
BY DEF TypeOK, SlotTypes, CpuTypes

(* The slots are the numbers from 1 on, init among them, and 0 is none. *)
LEMMA SlotFacts ==
  /\ initproc \in Slot /\ 0 \notin Slot /\ Ticks \notin Slot
  /\ \A i \in Slot : i \in Nat /\ i + 1 \in 1 .. NPROC + 1
BY SlotAssumption, SMT DEF Slot, initproc, Ticks

(* The thread on a CPU in mode "run" is RUNNING, and on no other CPU. *)
LEMMA OnCpu ==
  ASSUME SlotTypes, CpuTypes, CpuInv, NEW c \in CPU, mode[c] \in {"run", "sched"}
  PROVE  /\ cpuproc[c] \in Slot
         /\ mode[c] = "run" => state[cpuproc[c]] = "RUNNING"
         /\ \A d \in CPU : cpuproc[d] = cpuproc[c] => d = c
BY SMT DEF SlotTypes, CpuTypes, CpuInv

-----------------------------------------------------------------------------
(* Steps of the scheduler and of sleep move slots among these states only. *)
Awake == {"SLEEPING", "RUNNABLE", "RUNNING"}
Moves == \A j \in Slot : state'[j] # state[j] => state[j] \in Awake /\ state'[j] \in Awake

(* The places of fork and exit, which the slots' invariants speak of. *)
LifePlaces == {"fork", "forked", "exit"}
KeepsPlaces == \A j \in Slot : pc'[j] # pc[j] => pc'[j] \notin LifePlaces

(* A step that only moves processes between sleeping, runnable and running
   keeps what is said of their lives. *)
LEMMA MovesKeep ==
  ASSUME SlotTypes, ForkInv, InitInv, PidInv, LivingParent,
         SlotTypes', Moves, KeepsPlaces, UNCHANGED <<np, parent, pid, nextpid>>
  PROVE  ForkInv' /\ InitInv' /\ PidInv' /\ LivingParent'
<1>1. ForkInv'
  BY SMT DEF SlotTypes, ForkInv, Moves, KeepsPlaces, LifePlaces, Awake
<1>2. InitInv'
  BY SlotFacts DEF SlotTypes, InitInv, Moves, KeepsPlaces, LifePlaces, Awake
<1>3. PidInv'
  BY SMT DEF SlotTypes, PidInv, PidUnique, Moves, Awake
<1>4. LivingParent'
  BY SMT DEF SlotTypes, LivingParent, Moves, Awake
<1> QED
  BY <1>1, <1>2, <1>3, <1>4

(* The same when nothing of the slots changes but chan, ctx, left or priority. *)
LEMMA SlotsKeep ==
  ASSUME ForkInv, InitInv, PidInv, LivingParent,
         UNCHANGED <<state, pc, np, parent, pid, nextpid>>
  PROVE  ForkInv' /\ InitInv' /\ PidInv' /\ LivingParent'
BY DEF ForkInv, InitInv, PidInv, PidUnique, LivingParent

(* A step that changes neither the states nor what the CPUs run keeps CpuInv. *)
LEMMA CpuKeep ==
  ASSUME CpuInv, UNCHANGED <<state, cpuproc, mode>>
  PROVE  CpuInv'
BY SMT DEF CpuInv

(* The conjuncts of the invariant. *)
LEMMA InvParts ==
  ProcInv <=> /\ SlotTypes /\ CpuTypes /\ killed \in [Slot -> BOOLEAN]
              /\ CpuInv /\ LockInv /\ TickInv /\ NoLostWakeup
              /\ ForkInv /\ InitInv /\ PidInv /\ LivingParent
BY Types DEF ProcInv

(* The same of the next state. *)
LEMMA InvPartsNext ==
  ProcInv' <=> /\ SlotTypes' /\ CpuTypes' /\ killed' \in [Slot -> BOOLEAN]
               /\ CpuInv' /\ LockInv' /\ TickInv' /\ NoLostWakeup'
               /\ ForkInv' /\ InitInv' /\ PidInv' /\ LivingParent'
BY TypesNext DEF ProcInv

(* A thread that is at no place of sys_sleep with tickslock goes to another one. *)
LEMMA TickKeep ==
  ASSUME SlotTypes, CpuTypes, CpuInv, TickInv, NEW c \in CPU, mode[c] = "run",
         NEW l, l \notin {"check", "sleep"}, pc[cpuproc[c]] \notin {"check", "sleep"},
         pc' = [pc EXCEPT ![cpuproc[c]] = l],
         UNCHANGED <<tickslock, cpuproc, mode, intr, left>>
  PROVE  TickInv'
<1> DEFINE i == cpuproc[c]
<1>a. i \in Slot /\ \A d \in CPU : cpuproc[d] = i => d = c
  BY OnCpu
<1>b. \A j \in Slot : pc'[j] \in {"check", "sleep"} => pc[j] = pc'[j]
  BY <1>a DEF SlotTypes
<1>c. ASSUME NEW d \in CPU, tickslock = d, pc[cpuproc[d]] \in {"check", "sleep"}
      PROVE  cpuproc[d] # i
  BY <1>c
<1>d. ASSUME NEW d \in CPU, tickslock = d, cpuproc[d] \in Slot,
             pc[cpuproc[d]] \in {"check", "sleep"}
      PROVE  pc'[cpuproc[d]] \in {"check", "sleep"}
  BY <1>a, <1>c, <1>d DEF SlotTypes
<1>e. \A d \in CPU : mode[d] = "run" => cpuproc[d] \in Slot
  BY OnCpu
<1> QED
  BY <1>b, <1>d, <1>e DEF TickInv

(* A thread goes to a place outside fork; np counts in fork only. *)
LEMMA PlaceKeep ==
  ASSUME SlotTypes, ForkInv, InitInv, PidInv, LivingParent,
         NEW i \in Slot, NEW l, l \notin {"fork", "forked"}, l = "exit" => i # initproc,
         pc' = [pc EXCEPT ![i] = l], \A j \in Slot \ {i} : np'[j] = np[j],
         UNCHANGED <<state, parent, pid, nextpid>>
  PROVE  ForkInv' /\ InitInv' /\ PidInv' /\ LivingParent'
<1>1. ForkInv'
  BY SMT DEF SlotTypes, ForkInv
<1>2. InitInv'
  BY SlotFacts DEF SlotTypes, InitInv
<1>3. PidInv' /\ LivingParent'
  BY DEF PidInv, PidUnique, LivingParent
<1> QED
  BY <1>1, <1>2, <1>3

-----------------------------------------------------------------------------
(* scheduler takes ptable.lock. *)
LEMMA SchedAcquireInv ==
  ASSUME ProcInv, NEW c \in CPU, SchedAcquire(c)
  PROVE  ProcInv'
<1>0. /\ SlotTypes /\ CpuTypes /\ killed \in [Slot -> BOOLEAN]
      /\ CpuInv /\ LockInv /\ TickInv /\ NoLostWakeup
      /\ ForkInv /\ InitInv /\ PidInv /\ LivingParent
  BY InvParts
<1> USE <1>0
<1>1. SlotTypes' /\ CpuTypes' /\ killed' \in [Slot -> BOOLEAN]
  <2>1. pos' \in [CPU -> 1 .. NPROC + 1]
    BY SlotAssumption, SMT DEF SchedAcquire, CpuTypes
  <2> QED
    BY <2>1 DEF SchedAcquire, slotvars, SlotTypes, CpuTypes
<1>2. CpuInv'
  BY SMT DEF SchedAcquire, slotvars, CpuTypes, CpuInv
<1>3. LockInv'
  BY CPUAssumption DEF SchedAcquire, slotvars, CpuTypes, LockInv
<1>4. TickInv'
  BY DEF SchedAcquire, slotvars, CpuTypes, TickInv
<1>5. NoLostWakeup'
  BY DEF SchedAcquire, slotvars, NoLostWakeup, Zombies, Kids
<1>6. ForkInv' /\ InitInv' /\ PidInv' /\ LivingParent'
  BY SlotsKeep DEF SchedAcquire, slotvars
<1> QED
  BY <1>1, <1>2, <1>3, <1>4, <1>5, <1>6, InvPartsNext

(* scheduler ends its pass over the table. *)
LEMMA SchedEndInv ==
  ASSUME ProcInv, NEW c \in CPU, SchedEnd(c)
  PROVE  ProcInv'
<1>0. /\ SlotTypes /\ CpuTypes /\ killed \in [Slot -> BOOLEAN]
      /\ CpuInv /\ LockInv /\ TickInv /\ NoLostWakeup
      /\ ForkInv /\ InitInv /\ PidInv /\ LivingParent
  BY InvParts
<1> USE <1>0
<1>1. SlotTypes' /\ CpuTypes' /\ killed' \in [Slot -> BOOLEAN]
  BY DEF SchedEnd, slotvars, SlotTypes, CpuTypes
<1>2. CpuInv'
  BY SlotFacts, SMT DEF SchedEnd, slotvars, SlotTypes, CpuTypes, CpuInv
<1>3. LockInv'
  BY CPUAssumption DEF SchedEnd, slotvars, CpuTypes, LockInv
<1>4. TickInv'
  BY SMT DEF SchedEnd, slotvars, SlotTypes, CpuTypes, TickInv
<1>5. NoLostWakeup'
  BY DEF SchedEnd, slotvars, NoLostWakeup, Zombies, Kids
<1>6. ForkInv' /\ InitInv' /\ PidInv' /\ LivingParent'
  BY SlotsKeep DEF SchedEnd, slotvars
<1> QED
  BY <1>1, <1>2, <1>3, <1>4, <1>5, <1>6, InvPartsNext

(* sched switches to the CPU's scheduler. *)
LEMMA SwtchOutInv ==
  ASSUME ProcInv, NEW c \in CPU, SwtchOut(c)
  PROVE  ProcInv'
<1>0. /\ SlotTypes /\ CpuTypes /\ killed \in [Slot -> BOOLEAN]
      /\ CpuInv /\ LockInv /\ TickInv /\ NoLostWakeup
      /\ ForkInv /\ InitInv /\ PidInv /\ LivingParent
  BY InvParts
<1> USE <1>0
<1>1. SlotTypes' /\ CpuTypes' /\ killed' \in [Slot -> BOOLEAN]
  BY DEF SwtchOut, slotvars, SlotTypes, CpuTypes
<1>2. CpuInv'
  BY SlotFacts, SMT DEF SwtchOut, slotvars, SlotTypes, CpuTypes, CpuInv
<1>3. LockInv'
  BY CPUAssumption DEF SwtchOut, slotvars, CpuTypes, LockInv
<1>4. TickInv'
  BY SMT DEF SwtchOut, slotvars, SlotTypes, CpuTypes, TickInv
<1>5. NoLostWakeup'
  BY DEF SwtchOut, slotvars, NoLostWakeup, Zombies, Kids
<1>6. ForkInv' /\ InitInv' /\ PidInv' /\ LivingParent'
  BY SlotsKeep DEF SwtchOut, slotvars
<1> QED
  BY <1>1, <1>2, <1>3, <1>4, <1>5, <1>6, InvPartsNext

(* A process returns from sched and releases ptable.lock. *)
LEMMA ResumeInv ==
  ASSUME ProcInv, NEW c \in CPU, Resume(c)
  PROVE  ProcInv'
<1>0. /\ SlotTypes /\ CpuTypes /\ killed \in [Slot -> BOOLEAN]
      /\ CpuInv /\ LockInv /\ TickInv /\ NoLostWakeup
      /\ ForkInv /\ InitInv /\ PidInv /\ LivingParent
  BY InvParts
<1> USE <1>0
<1>a. cpuproc[c] \in Slot /\ state[cpuproc[c]] = "RUNNING" /\ plock = c
      /\ \A d \in CPU : cpuproc[d] = cpuproc[c] => d = c
  BY OnCpu DEF Resume, LockInv
<1>1. SlotTypes' /\ CpuTypes' /\ killed' \in [Slot -> BOOLEAN]
  BY <1>a DEF Resume, SlotTypes, CpuTypes
<1>2. CpuInv'
  BY SMT DEF Resume, CpuInv
<1>3. LockInv'
  BY <1>a, SMT DEF Resume, SlotTypes, CpuTypes, LockInv
<1>4. TickInv'
  BY DEF Resume, TickInv
<1>5. NoLostWakeup'
  BY <1>a DEF Resume, SlotTypes, NoLostWakeup, Zombies, Kids
<1>6. ForkInv' /\ InitInv' /\ PidInv' /\ LivingParent'
  BY SlotsKeep DEF Resume
<1> QED
  BY <1>1, <1>2, <1>3, <1>4, <1>5, <1>6, InvPartsNext

(* The timer interrupts a CPU. *)
LEMMA TimerInv ==
  ASSUME ProcInv, NEW c \in CPU, Timer(c)
  PROVE  ProcInv'
<1>0. /\ SlotTypes /\ CpuTypes /\ killed \in [Slot -> BOOLEAN]
      /\ CpuInv /\ LockInv /\ TickInv /\ NoLostWakeup
      /\ ForkInv /\ InitInv /\ PidInv /\ LivingParent
  BY InvParts
<1> USE <1>0
<1>1. SlotTypes' /\ CpuTypes' /\ killed' \in [Slot -> BOOLEAN]
  <2>1. left' \in [Slot -> 0 .. MaxSleep]
    BY BoundAssumption, SMT DEF Timer, SlotTypes
  <2>2. tickslock' \in CPU \cup {NoCPU} /\ intr' \in [CPU -> {"none", "wakeup", "yield"}]
    BY DEF Timer, CpuTypes
  <2> QED
    BY <2>1, <2>2 DEF Timer, SlotTypes, CpuTypes
<1>2. CpuInv'
  BY SMT DEF Timer, CpuInv
<1>3. LockInv'
  BY DEF Timer, LockInv
<1>4. TickInv'
  BY CPUAssumption, SMT DEF Timer, SlotTypes, CpuTypes, TickInv
<1>5. NoLostWakeup'
  <2>1. CASE c = cpu0
    BY <2>1 DEF Timer, CpuTypes, NoLostWakeup, Zombies, Kids
  <2>2. CASE c # cpu0
    BY <2>2 DEF Timer, CpuTypes, NoLostWakeup, Zombies, Kids
  <2> QED
    BY <2>1, <2>2
<1>6. ForkInv' /\ InitInv' /\ PidInv' /\ LivingParent'
  BY SlotsKeep DEF Timer
<1> QED
  BY <1>1, <1>2, <1>3, <1>4, <1>5, <1>6, InvPartsNext

(* scheduler switches to the most urgent runnable process. *)
LEMMA SchedPickInv ==
  ASSUME ProcInv, NEW c \in CPU, SchedPick(c)
  PROVE  ProcInv'
<1>0. /\ SlotTypes /\ CpuTypes /\ killed \in [Slot -> BOOLEAN]
      /\ CpuInv /\ LockInv /\ TickInv /\ NoLostWakeup
      /\ ForkInv /\ InitInv /\ PidInv /\ LivingParent
  BY InvParts
<1> USE <1>0
<1> DEFINE ahead == {i \in Runnable : i >= pos[c]}
<1>a. ahead \in SUBSET Slot /\ ahead # {} /\ ahead \subseteq Runnable
  BY DEF SchedPick, Runnable
<1>b. HighP(Least(ahead)) \in Runnable
  BY <1>a, LeastIn, HighPRunnable DEF SlotTypes
<1> HIDE DEF ahead
<1>c. PICK h \in Slot :
        /\ state[h] = "RUNNABLE" /\ mode[c] = "scan"
        /\ state' = [state EXCEPT ![h] = "RUNNING"]
        /\ cpuproc' = [cpuproc EXCEPT ![c] = h]
        /\ mode' = [mode EXCEPT ![c] = "run"]
        /\ pos' = [pos EXCEPT ![c] = h + 1]
        /\ UNCHANGED <<pid, parent, killed, chan, priority, ctx, pc, np, left,
                       nextpid, plock, tickslock, intr>>
  BY <1>b DEF SchedPick, Runnable, ahead
<1>d. plock = c /\ \A d \in CPU : cpuproc[d] # h
  <2>1. plock = c
    BY <1>c DEF LockInv
  <2>2. ASSUME NEW d \in CPU, cpuproc[d] = h PROVE FALSE
    <3>1. mode[d] = "sched"
      BY <1>c, <2>2, SlotFacts, SMT DEF CpuInv, CpuTypes
    <3>2. plock = d
      BY <3>1 DEF LockInv
    <3> QED
      BY <1>c, <2>1, <3>1, <3>2
  <2> QED
    BY <2>1, <2>2
<1>1. SlotTypes' /\ CpuTypes' /\ killed' \in [Slot -> BOOLEAN]
  <2>1. pos' \in [CPU -> 1 .. NPROC + 1]
    BY <1>c, SlotFacts DEF CpuTypes
  <2> QED
    BY <1>c, <2>1 DEF SlotTypes, CpuTypes, States
<1>2. CpuInv'
  BY <1>c, <1>d, SlotFacts, SMT DEF SlotTypes, CpuTypes, CpuInv
<1>3. LockInv'
  BY <1>c, <1>d DEF CpuTypes, LockInv
<1>4. TickInv'
  BY <1>c, <1>d, SMT DEF CpuTypes, SlotTypes, TickInv
<1>5. NoLostWakeup'
  BY <1>c, SMT DEF SlotTypes, NoLostWakeup, Zombies, Kids
<1>6. ForkInv' /\ InitInv' /\ PidInv' /\ LivingParent'
  BY <1>1, <1>c, MovesKeep DEF SlotTypes, Moves, KeepsPlaces, Awake
<1> QED
  BY <1>1, <1>2, <1>3, <1>4, <1>5, <1>6, InvPartsNext

(* cpu0's tick wakes those that sleep on ticks. *)
LEMMA TickWakeupInv ==
  ASSUME ProcInv, NEW c \in CPU, TickWakeup(c)
  PROVE  ProcInv'
<1>0. /\ SlotTypes /\ CpuTypes /\ killed \in [Slot -> BOOLEAN]
      /\ CpuInv /\ LockInv /\ TickInv /\ NoLostWakeup
      /\ ForkInv /\ InitInv /\ PidInv /\ LivingParent
  BY InvParts
<1> USE <1>0
<1>a. tickslock = c /\ mode[c] \in {"idle", "run"}
  BY DEF TickWakeup, TickInv, CpuTypes
<1>b. Moves /\ \A i \in Slot :
        /\ state'[i] # state[i] => state[i] = "SLEEPING" /\ state'[i] = "RUNNABLE"
        /\ ~ (state'[i] = "SLEEPING" /\ chan[i] = Ticks)
  BY DEF TickWakeup, wakeup1, Moves, Awake
<1>1. SlotTypes' /\ CpuTypes' /\ killed' \in [Slot -> BOOLEAN]
  <2>1. state' \in [Slot -> States]
    BY DEF TickWakeup, wakeup1, SlotTypes, States
  <2>2. intr' \in [CPU -> {"none", "wakeup", "yield"}] /\ tickslock' \in CPU \cup {NoCPU}
    BY DEF TickWakeup, CpuTypes
  <2> QED
    BY <2>1, <2>2 DEF TickWakeup, SlotTypes, CpuTypes
<1>2. CpuInv'
  <2>1. \A d \in CPU : mode[d] # "sched"
    BY CPUAssumption DEF TickWakeup, LockInv
  <2> QED
    BY <1>b, <2>1, SMT DEF TickWakeup, SlotTypes, CpuTypes, CpuInv
<1>3. LockInv'
  BY DEF TickWakeup, LockInv
<1>4. TickInv'
  BY <1>a, CPUAssumption, SMT DEF TickWakeup, SlotTypes, CpuTypes, TickInv
<1>5. NoLostWakeup'
  BY <1>b, SMTT(20) DEF TickWakeup, SlotTypes, NoLostWakeup, Zombies, Kids
<1>6. ForkInv' /\ InitInv' /\ PidInv' /\ LivingParent'
  BY <1>1, <1>b, MovesKeep DEF TickWakeup, KeepsPlaces
<1> QED
  BY <1>1, <1>2, <1>3, <1>4, <1>5, <1>6, InvPartsNext

(* A tick makes a process give up the CPU. *)
LEMMA yieldInv ==
  ASSUME ProcInv, NEW c \in CPU, yield(c)
  PROVE  ProcInv'
<1>0. /\ SlotTypes /\ CpuTypes /\ killed \in [Slot -> BOOLEAN]
      /\ CpuInv /\ LockInv /\ TickInv /\ NoLostWakeup
      /\ ForkInv /\ InitInv /\ PidInv /\ LivingParent
  BY InvParts
<1> USE <1>0
<1> DEFINE i == cpuproc[c]
<1>a. i \in Slot /\ state[i] = "RUNNING" /\ mode[c] = "run" /\ tickslock' # c
      /\ \A d \in CPU : cpuproc[d] = i => d = c
  BY OnCpu, CPUAssumption DEF yield, TickInv
<1>b. plock \in {NoCPU, c} /\ plock' = c
  BY DEF yield, Sched
<1>c. state' = [state EXCEPT ![i] = "RUNNABLE"]
  BY DEF yield
<1>1. SlotTypes' /\ CpuTypes' /\ killed' \in [Slot -> BOOLEAN]
  BY <1>a DEF yield, Sched, SlotTypes, CpuTypes, States
<1>2. CpuInv'
  <2>1. \A d \in CPU \ {c} : cpuproc[d] # i
    BY <1>a
  <2> QED
    BY <1>a, <1>c, <2>1, SlotFacts, SMT DEF yield, Sched, SlotTypes, CpuTypes, CpuInv
<1>3. LockInv'
  <2>1. \A d \in CPU \ {c} : plock # d /\ cpuproc[d] # i
    BY <1>a, <1>b, CPUAssumption
  <2> QED
    BY <1>a, <2>1, SMT DEF yield, Sched, SlotTypes, CpuTypes, LockInv
<1>4. TickInv'
  BY <1>a, SMT DEF yield, Sched, SlotTypes, CpuTypes, TickInv
<1>5. NoLostWakeup'
  BY <1>a, <1>c, SMT DEF yield, SlotTypes, CpuTypes, NoLostWakeup, Zombies, Kids
<1>6. ForkInv' /\ InitInv' /\ PidInv' /\ LivingParent'
  <2>1. Moves
    BY <1>a, <1>c DEF SlotTypes, Moves, Awake
  <2>2. KeepsPlaces /\ UNCHANGED <<np, parent, pid, nextpid>>
    BY <1>a DEF yield, SlotTypes, KeepsPlaces, LifePlaces
  <2> QED
    BY <1>1, <2>1, <2>2, MovesKeep
<1> QED
  BY <1>1, <1>2, <1>3, <1>4, <1>5, <1>6, InvPartsNext

(* wait finds no zombie and sleeps. *)
LEMMA WaitSleepInv ==
  ASSUME ProcInv, NEW c \in CPU, WaitSleep(c)
  PROVE  ProcInv'
<1>0. /\ SlotTypes /\ CpuTypes /\ killed \in [Slot -> BOOLEAN]
      /\ CpuInv /\ LockInv /\ TickInv /\ NoLostWakeup
      /\ ForkInv /\ InitInv /\ PidInv /\ LivingParent
  BY InvParts
<1> USE <1>0
<1> DEFINE i == cpuproc[c]
<1>a. i \in Slot /\ state[i] = "RUNNING" /\ mode[c] = "run" /\ tickslock' # c
      /\ \A d \in CPU : cpuproc[d] = i => d = c
  BY OnCpu, CPUAssumption DEF WaitSleep, InWait, Running, TickInv
<1>b. plock \in {NoCPU, c} /\ plock' = c
  BY DEF WaitSleep, InWait, Running, Sched
<1>c. state' = [state EXCEPT ![i] = "SLEEPING"]
  BY DEF WaitSleep
<1>1. SlotTypes' /\ CpuTypes' /\ killed' \in [Slot -> BOOLEAN]
  BY <1>a DEF WaitSleep, InWait, Running, Sched, SlotTypes, CpuTypes, States
<1>2. CpuInv'
  <2>1. \A d \in CPU \ {c} : cpuproc[d] # i
    BY <1>a
  <2> QED
    BY <1>a, <1>c, <2>1, SlotFacts, SMTT(30) DEF WaitSleep, InWait, Running, Sched, SlotTypes, CpuTypes, CpuInv
<1>3. LockInv'
  <2>1. \A d \in CPU \ {c} : plock # d /\ cpuproc[d] # i
    BY <1>a, <1>b, CPUAssumption
  <2> QED
    BY <1>a, <2>1, SMTT(30) DEF WaitSleep, InWait, Running, Sched, SlotTypes, CpuTypes, LockInv
<1>4. TickInv'
  BY <1>a, SMTT(30) DEF WaitSleep, InWait, Running, Sched, SlotTypes, CpuTypes, TickInv
<1>5. NoLostWakeup'
  BY <1>a, <1>c, SlotFacts, SMTT(20) DEF WaitSleep, SlotTypes, NoLostWakeup, Zombies, Kids
<1>6. ForkInv' /\ InitInv' /\ PidInv' /\ LivingParent'
  <2>1. Moves
    BY <1>a, <1>c, ZenonT(30) DEF SlotTypes, Moves, Awake
  <2>2. UNCHANGED <<pc, np, parent, pid, nextpid>>
    BY DEF WaitSleep
  <2>3. KeepsPlaces
    BY <2>2 DEF KeepsPlaces
  <2> QED
    BY <1>1, <2>1, <2>2, <2>3, MovesKeep
<1> QED
  BY <1>1, <1>2, <1>3, <1>4, <1>5, <1>6, InvPartsNext

(* sys_sleep trades tickslock for ptable.lock and sleeps. *)
LEMMA sleepInv ==
  ASSUME ProcInv, NEW c \in CPU, sleep(c)
  PROVE  ProcInv'
<1>0. /\ SlotTypes /\ CpuTypes /\ killed \in [Slot -> BOOLEAN]
      /\ CpuInv /\ LockInv /\ TickInv /\ NoLostWakeup
      /\ ForkInv /\ InitInv /\ PidInv /\ LivingParent
  BY InvParts
<1> USE <1>0
<1> DEFINE i == cpuproc[c]
<1>a. i \in Slot /\ state[i] = "RUNNING" /\ mode[c] = "run" /\ tickslock' # c
      /\ \A d \in CPU : cpuproc[d] = i => d = c
  BY OnCpu, CPUAssumption DEF sleep, Running, TickInv
<1>b. plock \in {NoCPU, c} /\ plock' = c
  BY DEF sleep, Running, Sched
<1>c. state' = [state EXCEPT ![i] = "SLEEPING"]
  BY DEF sleep
<1>1. SlotTypes' /\ CpuTypes' /\ killed' \in [Slot -> BOOLEAN]
  BY <1>a DEF sleep, Running, Sched, SlotTypes, CpuTypes, States
<1>2. CpuInv'
  <2>1. \A d \in CPU \ {c} : cpuproc[d] # i
    BY <1>a
  <2> QED
    BY <1>a, <1>c, <2>1, SlotFacts, SMTT(20) DEF sleep, Running, Sched, SlotTypes, CpuTypes, CpuInv
<1>3. LockInv'
  <2>1. \A d \in CPU \ {c} : plock # d /\ cpuproc[d] # i
    BY <1>a, <1>b, CPUAssumption
  <2> QED
    BY <1>a, <2>1, SMTT(20) DEF sleep, Running, Sched, SlotTypes, CpuTypes, LockInv
<1>4. TickInv'
  <2>1. tickslock = c /\ left[i] > 0 /\ intr[c] = "none"
    BY <1>a DEF sleep, Running, TickInv
  <2> QED
    BY <1>a, <2>1, CPUAssumption, SMTT(30) DEF sleep, Running, Sched, SlotTypes, CpuTypes, TickInv
<1>5. NoLostWakeup'
  <2>0. left[i] > 0
    BY <1>a DEF sleep, TickInv
  <2>1. left[i] # 0
    BY <2>0, SMTT(30)
  <2> QED
    BY <1>a, <1>c, <2>1, SlotFacts, SMTT(20) DEF sleep, SlotTypes, NoLostWakeup, Zombies, Kids
<1>6. ForkInv' /\ InitInv' /\ PidInv' /\ LivingParent'
  <2>1. Moves
    BY <1>a, <1>c DEF SlotTypes, Moves, Awake
  <2>2. KeepsPlaces /\ UNCHANGED <<np, parent, pid, nextpid>>
    BY <1>a DEF sleep, SlotTypes, KeepsPlaces, LifePlaces
  <2> QED
    BY <1>1, <2>1, <2>2, MovesKeep
<1> QED
  BY <1>1, <1>2, <1>3, <1>4, <1>5, <1>6, InvPartsNext

(* allocproc takes an UNUSED slot for fork. *)
LEMMA allocprocInv ==
  ASSUME ProcInv, NEW c \in CPU, allocproc(c)
  PROVE  ProcInv'
<1>0. /\ SlotTypes /\ CpuTypes /\ killed \in [Slot -> BOOLEAN]
      /\ CpuInv /\ LockInv /\ TickInv /\ NoLostWakeup
      /\ ForkInv /\ InitInv /\ PidInv /\ LivingParent
  BY InvParts
<1> USE <1>0
<1> DEFINE i == cpuproc[c]
           unused == {j \in Slot : state[j] = "UNUSED"}
<1>a. i \in Slot /\ mode[c] = "run" /\ pc[i] = "user" /\ state[i] = "RUNNING"
  BY OnCpu DEF allocproc, Calls, Running
<1>b. Least(unused) \in unused
  BY LeastIn DEF allocproc
<1>c. PICK p \in Slot :
        /\ state[p] = "UNUSED" /\ nextpid <= MaxPid
        /\ state' = [state EXCEPT ![p] = "EMBRYO"]
        /\ pid' = [pid EXCEPT ![p] = nextpid]
        /\ nextpid' = nextpid + 1
        /\ priority' = [priority EXCEPT ![p] = DefaultPriority]
        /\ np' = [np EXCEPT ![i] = p]
        /\ ctx' = [ctx EXCEPT ![p] = "forkret"]
        /\ pc' = [pc EXCEPT ![i] = "fork", ![p] = "user"]
        /\ UNCHANGED <<parent, killed, chan, left, plock, tickslock, cpuproc, mode,
                       pos, intr>>
  BY <1>b DEF allocproc, cpuvars
<1>d. p # i /\ \A d \in CPU : cpuproc[d] # p
  BY <1>a, <1>c, SlotFacts, SMT DEF CpuInv, CpuTypes
<1>1. SlotTypes' /\ CpuTypes' /\ killed' \in [Slot -> BOOLEAN]
  BY <1>a, <1>c, SMT DEF SlotTypes, CpuTypes, States, DefaultPriority
<1>2. CpuInv'
  BY <1>c, <1>d, SMT DEF SlotTypes, CpuTypes, CpuInv
<1>3. LockInv'
  BY <1>c, <1>d, SMT DEF SlotTypes, CpuTypes, LockInv
<1>4. TickInv'
  <2>1. \A j \in Slot : pc'[j] \in {"check", "sleep"} => pc[j] = pc'[j]
    BY <1>a, <1>c, <1>d DEF SlotTypes
  <2>2. \A j \in Slot \ {p} : pc[j] \in {"check", "sleep"} => pc'[j] = pc[j]
    BY <1>a, <1>c, <1>d DEF SlotTypes
  <2>3. \A d \in CPU : mode[d] = "run" => cpuproc[d] \in Slot \ {p}
    BY <1>d, OnCpu
  <2>4. \A d \in CPU : mode[d] = "run" /\ pc[cpuproc[d]] \in {"check", "sleep"} =>
                        pc'[cpuproc[d]] \in {"check", "sleep"}
    BY <2>2, <2>3
  <2>5. \A j \in Slot : pc'[j] \in {"check", "sleep"} => pc[j] \in {"check", "sleep"}
    BY <2>1
  <2>6. \A j \in Slot : pc'[j] = "sleep" => pc[j] = "sleep"
    BY <2>1
  <2> QED
    BY <1>c, <2>4, <2>5, <2>6 DEF TickInv
<1>5. NoLostWakeup'
  BY <1>c, SMT DEF SlotTypes, NoLostWakeup, Zombies, Kids
<1>6. ForkInv' /\ InitInv' /\ PidInv' /\ LivingParent'
  <2>1. ForkInv'
    BY <1>a, <1>c, <1>d, SMT DEF SlotTypes, ForkInv
  <2>2. InitInv'
    BY <1>a, <1>c, <1>d, SlotFacts DEF SlotTypes, InitInv
  <2>3. PidInv'
    BY <1>c, SMT DEF SlotTypes, PidInv, PidUnique
  <2>4. LivingParent'
    BY <1>c DEF SlotTypes, LivingParent
  <2> QED
    BY <2>1, <2>2, <2>3, <2>4
<1> QED
  BY <1>1, <1>2, <1>3, <1>4, <1>5, <1>6, InvPartsNext

(* fork gives the slot back when copyuvm fails. *)
LEMMA ForkFailInv ==
  ASSUME ProcInv, NEW c \in CPU, ForkFail(c)
  PROVE  ProcInv'
<1>0. /\ SlotTypes /\ CpuTypes /\ killed \in [Slot -> BOOLEAN]
      /\ CpuInv /\ LockInv /\ TickInv /\ NoLostWakeup
      /\ ForkInv /\ InitInv /\ PidInv /\ LivingParent
  BY InvParts
<1> USE <1>0
<1> DEFINE i == cpuproc[c]
                e == np[i]
<1>a. i \in Slot /\ mode[c] = "run" /\ state[i] = "RUNNING"
  BY OnCpu DEF ForkFail, Running
<1>b. e \in Slot /\ state[e] = "EMBRYO" /\ e # i /\ \A d \in CPU : cpuproc[d] # e
  BY <1>a, SlotFacts, SMTT(30) DEF ForkFail, ForkInv, CpuInv, CpuTypes
<1>c. /\ pc[cpuproc[c]] \notin {"check", "sleep"}
      /\ pc' = [pc EXCEPT ![cpuproc[c]] = "user"] /\ "user" \notin {"check", "sleep"}
      /\ UNCHANGED <<tickslock, cpuproc, mode, intr, left>>
  BY DEF ForkFail, Running, Enter
<1>1. SlotTypes' /\ CpuTypes' /\ killed' \in [Slot -> BOOLEAN]
  BY <1>a, <1>b DEF ForkFail, Running, Enter, SlotTypes, CpuTypes, States
<1>2. CpuInv'
  BY <1>b, SMT DEF ForkFail, Running, Enter, SlotTypes, CpuTypes, CpuInv
<1>3. LockInv'
  BY DEF ForkFail, Running, Enter, LockInv
<1>4. TickInv'
  BY <1>a, <1>c, TickKeep
<1>5. NoLostWakeup'
  BY <1>a, <1>b, SMT DEF ForkFail, Running, Enter, SlotTypes, NoLostWakeup, Zombies, Kids
<1>6. ForkInv' /\ InitInv' /\ PidInv' /\ LivingParent'
  <2>1. ForkInv'
    BY <1>a, <1>b, SMT DEF ForkFail, Running, Enter, SlotTypes, ForkInv
  <2>2. InitInv'
    BY <1>a, <1>b, SlotFacts DEF ForkFail, Running, Enter, SlotTypes, InitInv
  <2>3. PidInv'
    BY <1>b DEF ForkFail, Running, Enter, SlotTypes, PidInv, PidUnique
  <2>4. LivingParent'
    BY <1>a, <1>b, SMTT(30) DEF ForkFail, Running, Enter, SlotTypes, LivingParent
  <2> QED
    BY <2>1, <2>2, <2>3, <2>4
<1> QED
  BY <1>1, <1>2, <1>3, <1>4, <1>5, <1>6, InvPartsNext

(* fork sets the child's parent, without a lock. *)
LEMMA ForkParentInv ==
  ASSUME ProcInv, NEW c \in CPU, ForkParent(c)
  PROVE  ProcInv'
<1>0. /\ SlotTypes /\ CpuTypes /\ killed \in [Slot -> BOOLEAN]
      /\ CpuInv /\ LockInv /\ TickInv /\ NoLostWakeup
      /\ ForkInv /\ InitInv /\ PidInv /\ LivingParent
  BY InvParts
<1> USE <1>0
<1> DEFINE i == cpuproc[c]
                e == np[i]
<1>a. i \in Slot /\ mode[c] = "run" /\ state[i] = "RUNNING"
  BY OnCpu DEF ForkParent, Running
<1>b. e \in Slot /\ state[e] = "EMBRYO" /\ e # i /\ \A d \in CPU : cpuproc[d] # e
  BY <1>a, SlotFacts, SMT DEF ForkParent, ForkInv, CpuInv, CpuTypes
<1>c. /\ pc[cpuproc[c]] \notin {"check", "sleep"}
      /\ pc' = [pc EXCEPT ![cpuproc[c]] = "forked"] /\ "forked" \notin {"check", "sleep"}
      /\ UNCHANGED <<tickslock, cpuproc, mode, intr, left>>
  BY DEF ForkParent, Running, Enter
<1>1. SlotTypes' /\ CpuTypes' /\ killed' \in [Slot -> BOOLEAN]
  BY <1>a, <1>b DEF ForkParent, Running, Enter, SlotTypes, CpuTypes, States
<1>2. CpuInv'
  BY <1>b, SMT DEF ForkParent, Running, Enter, SlotTypes, CpuTypes, CpuInv
<1>3. LockInv'
  BY DEF ForkParent, Running, Enter, LockInv
<1>4. TickInv'
  BY <1>a, <1>c, TickKeep
<1>5. NoLostWakeup'
  BY <1>a, <1>b, SMT DEF ForkParent, Running, Enter, SlotTypes, NoLostWakeup, Zombies, Kids
<1>6. ForkInv' /\ InitInv' /\ PidInv' /\ LivingParent'
  <2>1. ForkInv'
    <3>1. /\ pc' = [pc EXCEPT ![i] = "forked"] /\ pc[i] = "fork"
          /\ parent' = [parent EXCEPT ![e] = i]
          /\ UNCHANGED <<np, state>>
      BY DEF ForkParent, Running, Enter
    <3>2. \A j \in Slot : pc'[j] \in {"fork", "forked"} <=> pc[j] \in {"fork", "forked"}
      BY <1>a, <3>1 DEF SlotTypes
    <3>3. \A j \in Slot : pc'[j] = "forked" => parent'[np[j]] = j
      BY <1>a, <1>b, <3>1 DEF SlotTypes, ForkInv
    <3> QED
      BY <3>1, <3>2, <3>3, SMT DEF ForkInv
  <2>2. InitInv'
    BY <1>a, <1>b, SlotFacts DEF ForkParent, Running, Enter, SlotTypes, InitInv
  <2>3. PidInv'
    BY <1>b DEF ForkParent, Running, Enter, SlotTypes, PidInv, PidUnique
  <2>4. LivingParent'
    BY <1>a, <1>b DEF ForkParent, Running, Enter, SlotTypes, LivingParent
  <2> QED
    BY <2>1, <2>2, <2>3, <2>4
<1> QED
  BY <1>1, <1>2, <1>3, <1>4, <1>5, <1>6, InvPartsNext

(* fork makes the child RUNNABLE. *)
LEMMA ForkRunnableInv ==
  ASSUME ProcInv, NEW c \in CPU, ForkRunnable(c)
  PROVE  ProcInv'
<1>0. /\ SlotTypes /\ CpuTypes /\ killed \in [Slot -> BOOLEAN]
      /\ CpuInv /\ LockInv /\ TickInv /\ NoLostWakeup
      /\ ForkInv /\ InitInv /\ PidInv /\ LivingParent
  BY InvParts
<1> USE <1>0
<1> DEFINE i == cpuproc[c]
                e == np[i]
<1>a. i \in Slot /\ mode[c] = "run" /\ state[i] = "RUNNING"
  BY OnCpu DEF ForkRunnable, Running
<1>b. e \in Slot /\ state[e] = "EMBRYO" /\ e # i /\ \A d \in CPU : cpuproc[d] # e
  BY <1>a, SlotFacts, SMT DEF ForkRunnable, ForkInv, CpuInv, CpuTypes
<1>c. /\ pc[cpuproc[c]] \notin {"check", "sleep"}
      /\ pc' = [pc EXCEPT ![cpuproc[c]] = "name"] /\ "name" \notin {"check", "sleep"}
      /\ UNCHANGED <<tickslock, cpuproc, mode, intr, left>>
  BY DEF ForkRunnable, Running, Enter
<1>d. parent[e] = i
  BY <1>a DEF ForkRunnable, ForkInv
<1>1. SlotTypes' /\ CpuTypes' /\ killed' \in [Slot -> BOOLEAN]
  BY <1>a, <1>b DEF ForkRunnable, Running, Enter, SlotTypes, CpuTypes, States
<1>2. CpuInv'
  BY <1>b, SMT DEF ForkRunnable, Running, Enter, SlotTypes, CpuTypes, CpuInv
<1>3. LockInv'
  BY DEF ForkRunnable, Running, Enter, LockInv
<1>4. TickInv'
  BY <1>a, <1>c, TickKeep
<1>5. NoLostWakeup'
  BY <1>a, <1>b, SMTT(30) DEF ForkRunnable, Running, Enter, SlotTypes, NoLostWakeup, Zombies, Kids
<1>6. ForkInv' /\ InitInv' /\ PidInv' /\ LivingParent'
  <2>1. ForkInv'
    BY <1>a, <1>b, SMT DEF ForkRunnable, Running, Enter, SlotTypes, ForkInv
  <2>2. InitInv'
    BY <1>a, <1>b, SlotFacts DEF ForkRunnable, Running, Enter, SlotTypes, InitInv
  <2>3. PidInv'
    BY <1>b DEF ForkRunnable, Running, Enter, SlotTypes, PidInv, PidUnique
  <2>4. LivingParent'
    BY <1>a, <1>b, <1>d, SlotFacts, SMTT(20) DEF ForkRunnable, Running, Enter, SlotTypes, LivingParent
  <2> QED
    BY <2>1, <2>2, <2>3, <2>4
<1> QED
  BY <1>1, <1>2, <1>3, <1>4, <1>5, <1>6, InvPartsNext

(* wait frees a zombie child. *)
LEMMA WaitReapInv ==
  ASSUME ProcInv, NEW c \in CPU, WaitReap(c)
  PROVE  ProcInv'
<1>0. /\ SlotTypes /\ CpuTypes /\ killed \in [Slot -> BOOLEAN]
      /\ CpuInv /\ LockInv /\ TickInv /\ NoLostWakeup
      /\ ForkInv /\ InitInv /\ PidInv /\ LivingParent
  BY InvParts
<1> USE <1>0
<1> DEFINE i == cpuproc[c]
<1>a. i \in Slot /\ mode[c] = "run" /\ state[i] = "RUNNING" /\ pc[i] = "wait"
      /\ plock \in {NoCPU, c}
  BY OnCpu DEF WaitReap, InWait, Running
<1>b. Least(Zombies(i)) \in Zombies(i)
  BY LeastIn DEF WaitReap, Zombies, Kids
<1>c. PICK z \in Slot :
        /\ state[z] = "ZOMBIE"
        /\ state' = [state EXCEPT ![z] = "UNUSED"]
        /\ pid' = [pid EXCEPT ![z] = 0]
        /\ parent' = [parent EXCEPT ![z] = 0]
        /\ killed' = [killed EXCEPT ![z] = FALSE]
        /\ plock' = NoCPU
        /\ pc' = [pc EXCEPT ![i] = "user"]
        /\ UNCHANGED <<ctx, cpuproc, mode, pos, intr, chan, priority, np, left,
                       nextpid, tickslock>>
  BY <1>b DEF WaitReap, Zombies, Kids, Enter
<1>d. ASSUME NEW d \in CPU, cpuproc[d] = z PROVE FALSE
  <2>1. mode[d] = "sched"
    BY <1>c, <1>d, SlotFacts, SMT DEF CpuInv, CpuTypes
  <2>2. plock = d
    BY <2>1 DEF LockInv
  <2> QED
    BY <1>a, <2>1, <2>2, CPUAssumption
<1>1. SlotTypes' /\ CpuTypes' /\ killed' \in [Slot -> BOOLEAN]
  <2>1. killed' \in [Slot -> BOOLEAN]
    BY <1>c
  <2> QED
    BY <1>a, <1>c, <2>1 DEF SlotTypes, CpuTypes, States
<1>2. CpuInv'
  BY <1>c, <1>d, SMTT(30) DEF SlotTypes, CpuTypes, CpuInv
<1>3. LockInv'
  <2>1. \A d \in CPU \ {c} : plock # d
    BY <1>a, CPUAssumption
  <2>2. ctx[i] = "run"
    BY DEF WaitReap, InWait, Running
  <2> QED
    BY <1>a, <1>c, <2>1, <2>2 DEF LockInv
<1>4. TickInv'
  <2>1. "user" \notin {"check", "sleep"} /\ pc[cpuproc[c]] \notin {"check", "sleep"}
    BY <1>a
  <2> QED
    BY <1>a, <1>c, <2>1, TickKeep
<1>5. NoLostWakeup'
  BY <1>c, SlotFacts, SMTT(30) DEF SlotTypes, NoLostWakeup, Zombies, Kids
<1>6. ForkInv' /\ InitInv' /\ PidInv' /\ LivingParent'
  <2>1. ForkInv'
    BY <1>a, <1>c, SMTT(30) DEF SlotTypes, ForkInv
  <2>2. InitInv'
    BY <1>a, <1>c, SlotFacts DEF SlotTypes, InitInv
  <2>3. PidInv'
    BY <1>c DEF SlotTypes, PidInv, PidUnique
  <2>4. LivingParent'
    BY <1>c, ZenonT(30) DEF SlotTypes, LivingParent
  <2> QED
    BY <2>1, <2>2, <2>3, <2>4
<1> QED
  BY <1>1, <1>2, <1>3, <1>4, <1>5, <1>6, InvPartsNext

(* exit hands its children to init, wakes who waits and becomes a ZOMBIE. *)
LEMMA exitInv ==
  ASSUME ProcInv, NEW c \in CPU, exit(c)
  PROVE  ProcInv'
<1>0. /\ SlotTypes /\ CpuTypes /\ killed \in [Slot -> BOOLEAN]
      /\ CpuInv /\ LockInv /\ TickInv /\ NoLostWakeup
      /\ ForkInv /\ InitInv /\ PidInv /\ LivingParent
  BY InvParts
<1> USE <1>0
<1> DEFINE i == cpuproc[c]
<1>a. i \in Slot /\ mode[c] = "run" /\ state[i] = "RUNNING" /\ pc[i] = "exit"
      /\ i # initproc /\ tickslock # c /\ intr[c] = "none" /\ plock = NoCPU
      /\ \A d \in CPU : cpuproc[d] = i => d = c
  <2>1. mode[c] = "run" /\ intr[c] = "none" /\ pc[i] = "exit" /\ plock = NoCPU
    BY DEF exit, Running
  <2>2. i \in Slot /\ state[i] = "RUNNING" /\ \A d \in CPU : cpuproc[d] = i => d = c
    BY <2>1, OnCpu
  <2>3. i # initproc
    BY <2>1 DEF InitInv
  <2>4. tickslock # c
    BY <2>1 DEF TickInv
  <2> QED
    BY <2>1, <2>2, <2>3, <2>4
<1>b. /\ plock' = c
      /\ ctx' = [ctx EXCEPT ![i] = "zombie"]
      /\ mode' = [mode EXCEPT ![c] = "sched"]
      /\ parent' = [j \in Slot |-> IF parent[j] = i THEN initproc ELSE parent[j]]
      /\ UNCHANGED <<pid, killed, chan, priority, pc, np, left, nextpid, tickslock,
                     cpuproc, pos, intr>>
  BY DEF exit, Sched
<1>c. /\ state' \in [Slot -> States]
      /\ state'[i] = "ZOMBIE"
      /\ \A j \in Slot \ {i} :
           state'[j] # state[j] => state[j] = "SLEEPING" /\ state'[j] = "RUNNABLE"
  BY <1>a, ZenonT(30) DEF exit, wakeup1, SlotTypes, States
<1>d. \A j \in Slot \ {i} : state'[j] = "SLEEPING" =>
        /\ chan[j] # parent[i]
        /\ (chan[j] = initproc => \A k \in Slot : parent[k] = i => state[k] # "ZOMBIE")
  BY <1>a DEF exit, wakeup1, SlotTypes
<1>1. SlotTypes' /\ CpuTypes' /\ killed' \in [Slot -> BOOLEAN]
  <2>1. parent' \in [Slot -> Slot \cup {0}]
    BY <1>b, SlotFacts DEF SlotTypes
  <2> QED
    BY <1>a, <1>b, <1>c, <2>1 DEF SlotTypes, CpuTypes
<1>2. CpuInv'
  <2>1. \A d \in CPU \ {c} : cpuproc[d] # i /\ mode[d] # "sched"
    BY <1>a, CPUAssumption DEF LockInv
  <2>2. mode'[c] = "sched" /\ \A d \in CPU \ {c} : mode'[d] = mode[d]
    BY <1>b DEF CpuTypes
  <2>3. \A d \in CPU : cpuproc[d] = 0 <=> mode'[d] \in {"idle", "scan"}
    BY <1>a, <2>2, SlotFacts DEF CpuInv
  <2>4. \A d \in CPU : mode'[d] = "run" => state'[cpuproc[d]] = "RUNNING"
    <3> SUFFICES ASSUME NEW d \in CPU, mode'[d] = "run"
                 PROVE  state'[cpuproc[d]] = "RUNNING"
      OBVIOUS
    <3>1. d # c /\ mode[d] = "run"
      BY <2>2
    <3>2. cpuproc[d] \in Slot \ {i} /\ state[cpuproc[d]] = "RUNNING"
      BY <2>1, <3>1, SMT DEF CpuInv, CpuTypes
    <3> QED
      BY <1>c, <3>2
  <2>5. \A d \in CPU : mode'[d] = "sched" => d = c
    BY <2>1, <2>2
  <2>6. \A j \in Slot : state'[j] = "RUNNING" => state[j] = "RUNNING" /\ j # i
    BY <1>c
  <2>7. \A j \in Slot : state'[j] = "RUNNING" =>
          \E d \in CPU : cpuproc[d] = j /\ mode'[d] = "run"
    BY <2>2, <2>6, SMT DEF CpuInv
  <2> QED
    BY <1>b, <1>c, <2>3, <2>4, <2>5, <2>7, SMTT(30) DEF CpuInv
<1>3. LockInv'
  <2>1. \A d \in CPU \ {c} : plock # d /\ cpuproc[d] # i
    BY <1>a, CPUAssumption
  <2> QED
    BY <1>a, <1>b, <2>1, SMT DEF SlotTypes, CpuTypes, LockInv
<1>4. TickInv'
  BY <1>a, <1>b, SMT DEF SlotTypes, CpuTypes, TickInv
<1>5. NoLostWakeup'
  <2> SUFFICES ASSUME NEW j \in Slot, state'[j] = "SLEEPING"
               PROVE  /\ (chan[j] = j => \A k \in Slot : parent'[k] = j => state'[k] # "ZOMBIE")
                      /\ (chan[j] = Ticks /\ left[j] = 0 => \E d \in CPU : intr[d] = "wakeup")
    BY <1>b DEF NoLostWakeup, Zombies, Kids
  <2>1. j # i /\ state[j] = "SLEEPING"
    BY <1>c
  <2>2. ASSUME chan[j] = j, NEW k \in Slot, parent'[k] = j
        PROVE  state'[k] # "ZOMBIE"
    <3>1. \A m \in Slot : parent[m] = j => state[m] # "ZOMBIE"
      BY <2>1, <2>2 DEF NoLostWakeup, Zombies, Kids
    <3>2. CASE parent[k] = i
      <4>1. j = initproc
        BY <1>b, <2>2, <3>2, ZenonT(30)
      <4>2. state[k] # "ZOMBIE"
        BY <1>d, <2>1, <2>2, <3>2, <4>1
      <4>3. k # i
        BY <3>2 DEF InitInv
      <4> QED
        BY <1>c, <4>2, <4>3
    <3>3. CASE parent[k] # i
      BY <1>b, <1>c, <1>d, <2>1, <2>2, <3>1, <3>3
    <3> QED
      BY <3>2, <3>3, SMTT(20)
  <2>3. chan[j] = Ticks /\ left[j] = 0 => \E d \in CPU : intr[d] = "wakeup"
    BY <2>1 DEF NoLostWakeup
  <2> QED
    BY <2>2, <2>3, SMTT(20)
<1>6. ForkInv' /\ InitInv' /\ PidInv' /\ LivingParent'
  <2>0. \A j \in Slot : state'[j] \in {"UNUSED", "EMBRYO"} <=> state[j] \in {"UNUSED", "EMBRYO"}
    BY <1>a, <1>c
  <2>1. ForkInv'
    <3>1. \A j \in Slot : state[j] = "EMBRYO" => state'[j] = "EMBRYO"
      BY <1>a, <1>c
    <3>2. \A j \in Slot : pc[j] = "forked" => parent'[np[j]] = j
      BY <1>a, <1>b DEF ForkInv
    <3> QED
      BY <1>b, <3>1, <3>2 DEF ForkInv
  <2>2. InitInv'
    BY <1>a, <1>b, <1>c, SlotFacts DEF SlotTypes, InitInv
  <2>3. PidInv'
    <3>1. \A j \in Slot : state'[j] # "UNUSED" => state[j] # "UNUSED"
      BY <1>a, <1>c
    <3> QED
      BY <1>b, <3>1 DEF PidInv, PidUnique
  <2>4. LivingParent'
    BY <1>a, <1>b, <1>c, SlotFacts, SMT DEF SlotTypes, InitInv, LivingParent
  <2> QED
    BY <2>1, <2>2, <2>3, <2>4
<1> QED
  BY <1>1, <1>2, <1>3, <1>4, <1>5, <1>6, InvPartsNext

(* fork returns to the parent. *)
LEMMA ForkNameInv ==
  ASSUME ProcInv, NEW c \in CPU, ForkName(c)
  PROVE  ProcInv'
<1>0. /\ SlotTypes /\ CpuTypes /\ killed \in [Slot -> BOOLEAN]
      /\ CpuInv /\ LockInv /\ TickInv /\ NoLostWakeup
      /\ ForkInv /\ InitInv /\ PidInv /\ LivingParent
  BY InvParts
<1> USE <1>0
<1>a. cpuproc[c] \in Slot /\ mode[c] = "run"
  BY OnCpu DEF ForkName, Running, Enter
<1>b. /\ pc[cpuproc[c]] \notin {"check", "sleep"}
      /\ pc' = [pc EXCEPT ![cpuproc[c]] = "user"]
      /\ "user" \notin {"check", "sleep"} /\ "user" \notin {"fork", "forked"}
      /\ "user" # "exit"
      /\ UNCHANGED <<tickslock, cpuproc, mode, intr, left>>
  BY DEF ForkName, Running, Enter
<1>c. UNCHANGED <<state, parent, pid, nextpid>> /\ \A j \in Slot \ {cpuproc[c]} : np'[j] = np[j]
  BY <1>a DEF ForkName, Running, Enter, SlotTypes
<1>1. SlotTypes' /\ CpuTypes' /\ killed' \in [Slot -> BOOLEAN]
  BY <1>a DEF ForkName, Running, Enter, SlotTypes, CpuTypes
<1>2. CpuInv'
  BY SMT DEF ForkName, Running, Enter, CpuInv
<1>3. LockInv'
  BY DEF ForkName, Running, Enter, LockInv
<1>4. TickInv'
  BY <1>a, <1>b, TickKeep
<1>5. NoLostWakeup'
  BY DEF ForkName, Running, Enter, NoLostWakeup, Zombies, Kids
<1>6. ForkInv' /\ InitInv' /\ PidInv' /\ LivingParent'
  BY <1>a, <1>b, <1>c, PlaceKeep
<1> QED
  BY <1>1, <1>2, <1>3, <1>4, <1>5, <1>6, InvPartsNext

(* A process calls exit. *)
LEMMA ExitStartInv ==
  ASSUME ProcInv, NEW c \in CPU, ExitStart(c)
  PROVE  ProcInv'
<1>0. /\ SlotTypes /\ CpuTypes /\ killed \in [Slot -> BOOLEAN]
      /\ CpuInv /\ LockInv /\ TickInv /\ NoLostWakeup
      /\ ForkInv /\ InitInv /\ PidInv /\ LivingParent
  BY InvParts
<1> USE <1>0
<1>a. cpuproc[c] \in Slot /\ mode[c] = "run"
  BY OnCpu DEF ExitStart, Running, Enter
<1>b. /\ pc[cpuproc[c]] \notin {"check", "sleep"}
      /\ pc' = [pc EXCEPT ![cpuproc[c]] = "exit"]
      /\ "exit" \notin {"check", "sleep"} /\ "exit" \notin {"fork", "forked"}
      /\ cpuproc[c] # initproc
      /\ UNCHANGED <<tickslock, cpuproc, mode, intr, left>>
  BY DEF ExitStart, Running, Enter
<1>c. UNCHANGED <<state, parent, pid, nextpid>> /\ \A j \in Slot \ {cpuproc[c]} : np'[j] = np[j]
  BY <1>a DEF ExitStart, Running, Enter, SlotTypes
<1>1. SlotTypes' /\ CpuTypes' /\ killed' \in [Slot -> BOOLEAN]
  BY <1>a DEF ExitStart, Running, Enter, SlotTypes, CpuTypes
<1>2. CpuInv'
  BY CpuKeep DEF ExitStart, Running, Enter
<1>3. LockInv'
  BY DEF ExitStart, Running, Enter, LockInv
<1>4. TickInv'
  BY <1>a, <1>b, TickKeep
<1>5. NoLostWakeup'
  BY DEF ExitStart, Running, Enter, NoLostWakeup, Zombies, Kids
<1>6. ForkInv' /\ InitInv' /\ PidInv' /\ LivingParent'
  BY <1>a, <1>b, <1>c, PlaceKeep
<1> QED
  BY <1>1, <1>2, <1>3, <1>4, <1>5, <1>6, InvPartsNext

(* A trap kills the process. *)
LEMMA FaultInv ==
  ASSUME ProcInv, NEW c \in CPU, Fault(c)
  PROVE  ProcInv'
<1>0. /\ SlotTypes /\ CpuTypes /\ killed \in [Slot -> BOOLEAN]
      /\ CpuInv /\ LockInv /\ TickInv /\ NoLostWakeup
      /\ ForkInv /\ InitInv /\ PidInv /\ LivingParent
  BY InvParts
<1> USE <1>0
<1>a. cpuproc[c] \in Slot /\ mode[c] = "run"
  BY OnCpu DEF Fault, Running, Enter
<1>b. /\ pc[cpuproc[c]] \notin {"check", "sleep"}
      /\ pc' = [pc EXCEPT ![cpuproc[c]] = "exit"]
      /\ "exit" \notin {"check", "sleep"} /\ "exit" \notin {"fork", "forked"}
      /\ cpuproc[c] # initproc
      /\ UNCHANGED <<tickslock, cpuproc, mode, intr, left>>
  BY DEF Fault, Running, Enter
<1>c. UNCHANGED <<state, parent, pid, nextpid>> /\ \A j \in Slot \ {cpuproc[c]} : np'[j] = np[j]
  BY <1>a DEF Fault, Running, Enter, SlotTypes
<1>1. SlotTypes' /\ CpuTypes' /\ killed' \in [Slot -> BOOLEAN]
  <2>1. killed' \in [Slot -> BOOLEAN]
    BY <1>a DEF Fault
  <2> QED
    BY <1>a, <2>1 DEF Fault, Running, Enter, SlotTypes, CpuTypes
<1>2. CpuInv'
  BY SMT DEF Fault, Running, Enter, CpuInv
<1>3. LockInv'
  BY DEF Fault, Running, Enter, LockInv
<1>4. TickInv'
  BY <1>a, <1>b, TickKeep
<1>5. NoLostWakeup'
  BY DEF Fault, Running, Enter, NoLostWakeup, Zombies, Kids
<1>6. ForkInv' /\ InitInv' /\ PidInv' /\ LivingParent'
  BY <1>a, <1>b, <1>c, PlaceKeep
<1> QED
  BY <1>1, <1>2, <1>3, <1>4, <1>5, <1>6, InvPartsNext

(* A process calls wait. *)
LEMMA WaitStartInv ==
  ASSUME ProcInv, NEW c \in CPU, WaitStart(c)
  PROVE  ProcInv'
<1>0. /\ SlotTypes /\ CpuTypes /\ killed \in [Slot -> BOOLEAN]
      /\ CpuInv /\ LockInv /\ TickInv /\ NoLostWakeup
      /\ ForkInv /\ InitInv /\ PidInv /\ LivingParent
  BY InvParts
<1> USE <1>0
<1>a. cpuproc[c] \in Slot /\ mode[c] = "run"
  BY OnCpu DEF WaitStart, Calls, Running, Enter
<1>b. /\ pc[cpuproc[c]] \notin {"check", "sleep"}
      /\ pc' = [pc EXCEPT ![cpuproc[c]] = "wait"]
      /\ "wait" \notin {"check", "sleep"} /\ "wait" \notin {"fork", "forked"}
      /\ "wait" # "exit"
      /\ UNCHANGED <<tickslock, cpuproc, mode, intr, left>>
  BY DEF WaitStart, Calls, Running, Enter
<1>c. UNCHANGED <<state, parent, pid, nextpid>> /\ \A j \in Slot \ {cpuproc[c]} : np'[j] = np[j]
  BY <1>a DEF WaitStart, Calls, Running, Enter, SlotTypes
<1>1. SlotTypes' /\ CpuTypes' /\ killed' \in [Slot -> BOOLEAN]
  BY <1>a DEF WaitStart, Calls, Running, Enter, SlotTypes, CpuTypes
<1>2. CpuInv'
  BY CpuKeep DEF WaitStart, Calls, Running, Enter
<1>3. LockInv'
  BY DEF WaitStart, Calls, Running, Enter, LockInv
<1>4. TickInv'
  BY <1>a, <1>b, TickKeep
<1>5. NoLostWakeup'
  BY DEF WaitStart, Calls, Running, Enter, NoLostWakeup, Zombies, Kids
<1>6. ForkInv' /\ InitInv' /\ PidInv' /\ LivingParent'
  BY <1>a, <1>b, <1>c, PlaceKeep
<1> QED
  BY <1>1, <1>2, <1>3, <1>4, <1>5, <1>6, InvPartsNext

(* wait has no child to wait for, or was killed. *)
LEMMA WaitFailInv ==
  ASSUME ProcInv, NEW c \in CPU, WaitFail(c)
  PROVE  ProcInv'
<1>0. /\ SlotTypes /\ CpuTypes /\ killed \in [Slot -> BOOLEAN]
      /\ CpuInv /\ LockInv /\ TickInv /\ NoLostWakeup
      /\ ForkInv /\ InitInv /\ PidInv /\ LivingParent
  BY InvParts
<1> USE <1>0
<1>a. cpuproc[c] \in Slot /\ mode[c] = "run"
  BY OnCpu DEF WaitFail, InWait, Running, Enter
<1>b. /\ pc[cpuproc[c]] \notin {"check", "sleep"}
      /\ pc' = [pc EXCEPT ![cpuproc[c]] = "user"]
      /\ "user" \notin {"check", "sleep"} /\ "user" \notin {"fork", "forked"}
      /\ "user" # "exit"
      /\ UNCHANGED <<tickslock, cpuproc, mode, intr, left>>
  BY DEF WaitFail, InWait, Running, Enter
<1>c. UNCHANGED <<state, parent, pid, nextpid>> /\ \A j \in Slot \ {cpuproc[c]} : np'[j] = np[j]
  BY <1>a DEF WaitFail, InWait, Running, Enter, SlotTypes
<1>1. SlotTypes' /\ CpuTypes' /\ killed' \in [Slot -> BOOLEAN]
  BY <1>a DEF WaitFail, InWait, Running, Enter, SlotTypes, CpuTypes
<1>2. CpuInv'
  BY ZenonT(30) DEF WaitFail, InWait, Running, Enter, CpuInv
<1>3. LockInv'
  <2>1. \A d \in CPU \ {c} : plock # d
    BY CPUAssumption DEF WaitFail, InWait
  <2> QED
    BY <1>a, <2>1 DEF WaitFail, InWait, Running, Enter, LockInv
<1>4. TickInv'
  BY <1>a, <1>b, TickKeep
<1>5. NoLostWakeup'
  BY DEF WaitFail, InWait, Running, Enter, NoLostWakeup, Zombies, Kids
<1>6. ForkInv' /\ InitInv' /\ PidInv' /\ LivingParent'
  BY <1>a, <1>b, <1>c, PlaceKeep
<1> QED
  BY <1>1, <1>2, <1>3, <1>4, <1>5, <1>6, InvPartsNext

(* A process calls sleep. *)
LEMMA sys_sleepInv ==
  ASSUME ProcInv, NEW c \in CPU, NEW n \in 1 .. MaxSleep, sys_sleep(c, n)
  PROVE  ProcInv'
<1>0. /\ SlotTypes /\ CpuTypes /\ killed \in [Slot -> BOOLEAN]
      /\ CpuInv /\ LockInv /\ TickInv /\ NoLostWakeup
      /\ ForkInv /\ InitInv /\ PidInv /\ LivingParent
  BY InvParts
<1> USE <1>0
<1> DEFINE i == cpuproc[c]
<1>a. i \in Slot /\ mode[c] = "run" /\ intr[c] = "none" /\ state[i] = "RUNNING"
      /\ \A d \in CPU : cpuproc[d] = i => d = c
  BY OnCpu DEF sys_sleep, Calls, Running, Enter
<1>b. UNCHANGED <<state, parent, pid, nextpid, np, chan, cpuproc, mode, intr>>
  BY DEF sys_sleep, Calls, Running, Enter
<1>1. SlotTypes' /\ CpuTypes' /\ killed' \in [Slot -> BOOLEAN]
  <2>1. left' \in [Slot -> 0 .. MaxSleep]
    BY <1>a, BoundAssumption, SMT DEF sys_sleep, SlotTypes
  <2> QED
    BY <1>a, <2>1 DEF sys_sleep, Calls, Running, Enter, SlotTypes, CpuTypes
<1>2. CpuInv'
  <2>1. state' = state /\ cpuproc' = cpuproc /\ mode' = mode
    BY <1>b
  <2> QED
    BY <2>1, SMT DEF CpuInv
<1>3. LockInv'
  BY DEF sys_sleep, Calls, Running, Enter, LockInv
<1>4. TickInv'
  <2>1. \A j \in Slot : pc[j] \notin {"check", "sleep"}
    BY CPUAssumption DEF sys_sleep, TickInv
  <2>2. \A d \in CPU : tickslock # d
    BY CPUAssumption DEF sys_sleep
  <2>3. pc' = [pc EXCEPT ![i] = "check"] /\ tickslock' = c
    BY DEF sys_sleep, Enter
  <2>4. pc'[i] = "check" /\ \A j \in Slot \ {i} : pc'[j] = pc[j]
    BY <1>a, <2>3 DEF SlotTypes
  <2>5. \A d \in CPU : intr[d] # "wakeup"
    BY <2>2 DEF TickInv
  <2>6. \A j \in Slot : pc'[j] \in {"check", "sleep"} => j = i /\ pc'[j] = "check"
    BY <2>1, <2>4
  <2>7. cpuproc' = cpuproc /\ mode' = mode /\ intr' = intr
    BY <1>b
  <2>8. \A d \in CPU : intr[d] = "yield" => mode[d] = "run" /\ d # c
    BY <1>a DEF TickInv
  <2> QED
    BY <1>a, <2>3, <2>4, <2>5, <2>6, <2>7, <2>8 DEF TickInv
<1>5. NoLostWakeup'
  BY <1>a, <1>b, SMTT(20) DEF sys_sleep, Calls, Running, Enter, SlotTypes, NoLostWakeup, Zombies, Kids
<1>6. ForkInv' /\ InitInv' /\ PidInv' /\ LivingParent'
  <2>1. pc' = [pc EXCEPT ![i] = "check"]
    BY DEF sys_sleep, Calls, Running, Enter
  <2>2. "check" \notin {"fork", "forked"} /\ "check" # "exit"
    OBVIOUS
  <2> QED
    BY <1>a, <1>b, <2>1, <2>2, PlaceKeep
<1> QED
  BY <1>1, <1>2, <1>3, <1>4, <1>5, <1>6, InvPartsNext

(* sleep takes tickslock again after the wakeup. *)
LEMMA SleepRelockInv ==
  ASSUME ProcInv, NEW c \in CPU, SleepRelock(c)
  PROVE  ProcInv'
<1>0. /\ SlotTypes /\ CpuTypes /\ killed \in [Slot -> BOOLEAN]
      /\ CpuInv /\ LockInv /\ TickInv /\ NoLostWakeup
      /\ ForkInv /\ InitInv /\ PidInv /\ LivingParent
  BY InvParts
<1> USE <1>0
<1> DEFINE i == cpuproc[c]
<1>a. i \in Slot /\ mode[c] = "run" /\ intr[c] = "none" /\ state[i] = "RUNNING"
      /\ \A d \in CPU : cpuproc[d] = i => d = c
  BY OnCpu DEF SleepRelock, Running, Enter
<1>b. UNCHANGED <<state, parent, pid, nextpid, np, chan, cpuproc, mode, intr>>
  BY DEF SleepRelock, Running, Enter
<1>1. SlotTypes' /\ CpuTypes' /\ killed' \in [Slot -> BOOLEAN]
  BY <1>a DEF SleepRelock, Running, Enter, SlotTypes, CpuTypes
<1>2. CpuInv'
  BY SMTT(30) DEF SleepRelock, Running, Enter, CpuInv
<1>3. LockInv'
  BY DEF SleepRelock, Running, Enter, LockInv
<1>4. TickInv'
  <2>1. \A j \in Slot : pc[j] \notin {"check", "sleep"}
    BY CPUAssumption DEF SleepRelock, TickInv
  <2>2. \A d \in CPU : tickslock # d
    BY CPUAssumption DEF SleepRelock
  <2> QED
    BY <1>a, <2>1, <2>2, SMT DEF SleepRelock, Running, Enter, SlotTypes, CpuTypes, TickInv
<1>5. NoLostWakeup'
  BY <1>a, <1>b, SMTT(20) DEF SleepRelock, Running, Enter, SlotTypes, NoLostWakeup, Zombies, Kids
<1>6. ForkInv' /\ InitInv' /\ PidInv' /\ LivingParent'
  <2>1. pc' = [pc EXCEPT ![i] = "check"]
    BY DEF SleepRelock, Running, Enter
  <2>2. "check" \notin {"fork", "forked"} /\ "check" # "exit"
    OBVIOUS
  <2> QED
    BY <1>a, <1>b, <2>1, <2>2, PlaceKeep
<1> QED
  BY <1>1, <1>2, <1>3, <1>4, <1>5, <1>6, InvPartsNext

(* sys_sleep tests the clock and killed. *)
LEMMA SleepCheckInv ==
  ASSUME ProcInv, NEW c \in CPU, SleepCheck(c)
  PROVE  ProcInv'
<1>0. /\ SlotTypes /\ CpuTypes /\ killed \in [Slot -> BOOLEAN]
      /\ CpuInv /\ LockInv /\ TickInv /\ NoLostWakeup
      /\ ForkInv /\ InitInv /\ PidInv /\ LivingParent
  BY InvParts
<1> USE <1>0
<1> DEFINE i == cpuproc[c]
<1>a. i \in Slot /\ mode[c] = "run" /\ intr[c] = "none" /\ state[i] = "RUNNING"
      /\ \A d \in CPU : cpuproc[d] = i => d = c
  BY OnCpu DEF SleepCheck, Running, Enter
<1>b. UNCHANGED <<state, parent, pid, nextpid, np, chan, cpuproc, mode, intr>>
  BY DEF SleepCheck, Running, Enter
<1>c. tickslock = c /\ \A j \in Slot : pc[j] \in {"check", "sleep"} => j = i
  BY <1>a, SMTT(20) DEF SleepCheck, TickInv
<1>d. \/ /\ pc' = [pc EXCEPT ![i] = "user"]
         /\ tickslock' = NoCPU
         /\ left' = [left EXCEPT ![i] = 0]
      \/ /\ pc' = [pc EXCEPT ![i] = "sleep"]
         /\ UNCHANGED <<tickslock, left>>
         /\ left[i] # 0
  BY DEF SleepCheck, Enter
<1>1. SlotTypes' /\ CpuTypes' /\ killed' \in [Slot -> BOOLEAN]
  <2>1. left' \in [Slot -> 0 .. MaxSleep]
    BY <1>a, <1>d, BoundAssumption, SMT DEF SlotTypes
  <2>2. tickslock' \in CPU \cup {NoCPU}
    BY <1>d DEF CpuTypes
  <2>3. SlotTypes'
    BY <1>a, <1>d, <2>1 DEF SleepCheck, Running, Enter, SlotTypes
  <2> QED
    BY <2>2, <2>3 DEF SleepCheck, Running, Enter, CpuTypes
<1>2. CpuInv'
  BY SMTT(20) DEF SleepCheck, Running, Enter, CpuInv
<1>3. LockInv'
  BY DEF SleepCheck, Running, Enter, LockInv
<1>4. TickInv'
  <2>1. CASE pc' = [pc EXCEPT ![i] = "user"] /\ tickslock' = NoCPU /\ left' = [left EXCEPT ![i] = 0]
    <3>1. \A j \in Slot : pc'[j] \notin {"check", "sleep"}
      BY <1>a, <1>c, <2>1 DEF SlotTypes
    <3>2. \A d \in CPU : intr[d] # "wakeup"
      BY <1>a, <1>c DEF TickInv
    <3> QED
      BY <1>b, <2>1, <3>1, <3>2, CPUAssumption DEF TickInv
  <2>2. CASE pc' = [pc EXCEPT ![i] = "sleep"] /\ UNCHANGED <<tickslock, left>> /\ left[i] # 0
    <3>1. left[i] > 0
      BY <1>a, <2>2, BoundAssumption, SMTT(20) DEF SlotTypes
    <3>2. pc'[i] = "sleep" /\ \A j \in Slot \ {i} : pc'[j] = pc[j]
      BY <1>a, <2>2 DEF SlotTypes
    <3> QED
      BY <1>a, <1>b, <1>c, <2>2, <3>1, <3>2, ZenonT(30) DEF TickInv
  <2> QED
    BY <1>d, <2>1, <2>2
<1>5. NoLostWakeup'
  BY <1>a, <1>b, SMT DEF SleepCheck, Running, Enter, SlotTypes, NoLostWakeup, Zombies, Kids
<1>6. ForkInv' /\ InitInv' /\ PidInv' /\ LivingParent'
  <2>1. CASE pc' = [pc EXCEPT ![i] = "user"]
    <3>1. "user" \notin {"fork", "forked"} /\ "user" # "exit"
      OBVIOUS
    <3> QED
      BY <1>a, <1>b, <2>1, <3>1, PlaceKeep
  <2>2. CASE pc' = [pc EXCEPT ![i] = "sleep"]
    <3>1. "sleep" \notin {"fork", "forked"} /\ "sleep" # "exit"
      OBVIOUS
    <3> QED
      BY <1>a, <1>b, <2>2, <3>1, PlaceKeep
  <2> QED
    BY <1>d, <2>1, <2>2, SMTT(20)
<1> QED
  BY <1>1, <1>2, <1>3, <1>4, <1>5, <1>6, InvPartsNext

(* kill marks a process and wakes it. *)
LEMMA killInv ==
  ASSUME ProcInv, NEW c \in CPU, NEW k \in KillPid, kill(c, k)
  PROVE  ProcInv'
<1>0. /\ SlotTypes /\ CpuTypes /\ killed \in [Slot -> BOOLEAN]
      /\ CpuInv /\ LockInv /\ TickInv /\ NoLostWakeup
      /\ ForkInv /\ InitInv /\ PidInv /\ LivingParent
  BY InvParts
<1> USE <1>0
<1> DEFINE hit == {j \in Slot : pid[j] = k}
<1>a. Least(hit) \in Slot
  BY LeastIn DEF kill
<1>b. /\ killed' = [killed EXCEPT ![Least(hit)] = TRUE]
      /\ UNCHANGED <<pid, parent, chan, priority, ctx, pc, np, left, nextpid,
                     plock, tickslock, cpuproc, mode, pos, intr>>
  BY DEF kill, cpuvars
<1>c. \A j \in Slot : state'[j] # state[j] => state[j] = "SLEEPING" /\ state'[j] = "RUNNABLE"
  BY <1>a DEF kill, SlotTypes
<1>1. SlotTypes' /\ CpuTypes' /\ killed' \in [Slot -> BOOLEAN]
  <2>1. state' \in [Slot -> States]
    BY <1>a DEF kill, SlotTypes, States
  <2>2. killed' \in [Slot -> BOOLEAN]
    BY <1>a, <1>b
  <2> QED
    BY <1>b, <2>1, <2>2 DEF SlotTypes, CpuTypes
<1>2. CpuInv'
  BY <1>b, <1>c, SMTT(30) DEF SlotTypes, CpuTypes, CpuInv
<1>3. LockInv'
  BY <1>b DEF LockInv
<1>4. TickInv'
  BY <1>b DEF TickInv
<1>5. NoLostWakeup'
  BY <1>b, <1>c, SMTT(20) DEF SlotTypes, NoLostWakeup, Zombies, Kids
<1>6. ForkInv' /\ InitInv' /\ PidInv' /\ LivingParent'
  BY <1>1, <1>b, <1>c, MovesKeep DEF Moves, KeepsPlaces, Awake
<1> QED
  BY <1>1, <1>2, <1>3, <1>4, <1>5, <1>6, InvPartsNext

(* chpr changes a priority. *)
LEMMA chprInv ==
  ASSUME ProcInv, NEW c \in CPU, NEW k \in KillPid, NEW pr \in Priority, chpr(c, k, pr)
  PROVE  ProcInv'
<1>0. /\ SlotTypes /\ CpuTypes /\ killed \in [Slot -> BOOLEAN]
      /\ CpuInv /\ LockInv /\ TickInv /\ NoLostWakeup
      /\ ForkInv /\ InitInv /\ PidInv /\ LivingParent
  BY InvParts
<1> USE <1>0
<1>a. UNCHANGED <<state, pid, parent, killed, chan, ctx, pc, np, left, nextpid,
                  plock, tickslock, cpuproc, mode, pos, intr>>
  BY DEF chpr, cpuvars
<1>1. SlotTypes' /\ CpuTypes' /\ killed' \in [Slot -> BOOLEAN]
  <2>1. priority' \in [Slot -> Nat]
    BY BoundAssumption DEF chpr, SlotTypes
  <2> QED
    BY <1>a, <2>1 DEF SlotTypes, CpuTypes
<1>2. CpuInv'
  BY <1>a, CpuKeep
<1>3. LockInv'
  BY <1>a DEF LockInv
<1>4. TickInv'
  BY <1>a DEF TickInv
<1>5. NoLostWakeup'
  BY <1>a DEF NoLostWakeup, Zombies, Kids
<1>6. ForkInv' /\ InitInv' /\ PidInv' /\ LivingParent'
  BY <1>a, SlotsKeep
<1> QED
  BY <1>1, <1>2, <1>3, <1>4, <1>5, <1>6, InvPartsNext

-----------------------------------------------------------------------------
(* userinit establishes the invariant. *)
LEMMA InitProcInv == Init => ProcInv
<1> SUFFICES ASSUME Init PROVE ProcInv
  OBVIOUS
<1>1. SlotTypes /\ CpuTypes /\ killed \in [Slot -> BOOLEAN]
  <2>1. pos \in [CPU -> 1 .. NPROC + 1] /\ left \in [Slot -> 0 .. MaxSleep]
    BY SlotAssumption, BoundAssumption, SMT DEF Init
  <2>2. killed \in [Slot -> BOOLEAN]
    BY DEF Init
  <2> QED
    BY <2>1, <2>2 DEF Init, SlotTypes, CpuTypes, States, DefaultPriority
<1>2. CpuInv /\ LockInv
  BY DEF Init, CpuInv, LockInv
<1>3. TickInv
  BY CPUAssumption DEF Init, TickInv
<1>4. NoLostWakeup
  BY DEF Init, NoLostWakeup
<1>5. ForkInv /\ PidInv /\ LivingParent
  BY SlotFacts, SMT DEF Init, ForkInv, PidInv, PidUnique, LivingParent
<1>6. InitInv
  BY SlotFacts DEF Init, InitInv
<1> QED
  BY <1>1, <1>2, <1>3, <1>4, <1>5, <1>6, InvParts

(* Every step preserves it. *)
LEMMA NextProcInv == ProcInv /\ [Next]_vars => ProcInv'
<1> SUFFICES ASSUME ProcInv, [Next]_vars PROVE ProcInv'
  OBVIOUS
<1>1. CASE UNCHANGED vars
  <2>0. UNCHANGED <<state, pid, parent, killed, chan, priority, ctx, pc, np, left, nextpid,
                    plock, tickslock, cpuproc, mode, pos, intr>>
    BY <1>1 DEF vars, slotvars, cpuvars
  <2>1. /\ SlotTypes /\ CpuTypes /\ killed \in [Slot -> BOOLEAN]
        /\ CpuInv /\ LockInv /\ TickInv /\ NoLostWakeup
        /\ ForkInv /\ InitInv /\ PidInv /\ LivingParent
    BY InvParts
  <2>2. SlotTypes' /\ CpuTypes' /\ killed' \in [Slot -> BOOLEAN]
    BY <2>0, <2>1 DEF SlotTypes, CpuTypes
  <2>3. CpuInv'
    BY <2>0, <2>1, CpuKeep
  <2>6. LockInv' /\ TickInv'
    BY <2>0, <2>1 DEF LockInv, TickInv
  <2>4. ForkInv' /\ InitInv' /\ PidInv'
    BY <2>0, <2>1 DEF ForkInv, InitInv, PidInv, PidUnique
  <2>5. NoLostWakeup' /\ LivingParent'
    BY <2>0, <2>1 DEF NoLostWakeup, Zombies, Kids, LivingParent
  <2> QED
    BY <2>2, <2>3, <2>4, <2>5, <2>6, InvPartsNext
<1>2. ASSUME NEW c \in CPU, Kernel(c) PROVE ProcInv'
  BY <1>2, SchedAcquireInv, SchedPickInv, SchedEndInv, SwtchOutInv, ResumeInv, TickWakeupInv, yieldInv, ForkFailInv, ForkParentInv,
     ForkRunnableInv, ForkNameInv, exitInv, WaitReapInv, WaitFailInv, WaitSleepInv, SleepCheckInv, sleepInv, SleepRelockInv
     DEF Kernel
<1>3. ASSUME NEW c \in CPU, User(c) PROVE ProcInv'
  BY <1>3, allocprocInv, ExitStartInv, FaultInv, WaitStartInv, killInv, chprInv, sys_sleepInv
     DEF User
<1> QED
  BY <1>1, <1>2, <1>3, TimerInv DEF Next

(* The invariant of proc.c holds for any number of slots and CPUs. *)
THEOREM ProcInvariant == Spec => []ProcInv
BY InitProcInv, NextProcInv, PTL DEF Spec

(* The process table, the CPUs and the locks keep their types. *)
THEOREM ProcTypeCorrect == Spec => []TypeOK
<1>1. ProcInv => TypeOK
  BY DEF ProcInv
<1> QED
  BY <1>1, ProcInvariant, PTL

(* No kernel stack is used by two CPUs or freed while in use: sched and swtch
   hand ptable.lock over without a gap. *)
THEOREM StackExclusiveHolds == Spec => []StackExclusive
<1>1. ProcInv => StackExclusive
  <2> SUFFICES ASSUME ProcInv PROVE StackExclusive
    OBVIOUS
  <2>1. CpuTypes /\ CpuInv
    BY InvParts
  <2> QED
    BY <2>1 DEF CpuTypes, CpuInv, StackExclusive
<1> QED
  BY <1>1, ProcInvariant, PTL

(* The panics of sched never fire: who enters it holds ptable.lock and no other
   lock, and is not RUNNING. *)
THEOREM SchedPanicFreeHolds == Spec => []SchedPanicFree
<1>1. ProcInv => SchedPanicFree
  <2> SUFFICES ASSUME ProcInv PROVE SchedPanicFree
    OBVIOUS
  <2>1. CpuInv /\ LockInv /\ TickInv
    BY InvParts
  <2> QED
    BY <2>1 DEF CpuInv, LockInv, TickInv, SchedPanicFree
<1> QED
  BY <1>1, ProcInvariant, PTL

(* No wakeup of exit or of the timer is lost: a parent asleep in wait has no
   zombie child, and a sys_sleep whose time is up is about to be woken. *)
THEOREM NoLostWakeupHolds == Spec => []NoLostWakeup
<1>1. ProcInv => NoLostWakeup
  BY DEF ProcInv
<1> QED
  BY <1>1, ProcInvariant, PTL

(* exit leaves no process without a parent that can still wait for it. *)
THEOREM LivingParentHolds == Spec => []LivingParent
<1>1. ProcInv => LivingParent
  BY DEF ProcInv
<1> QED
  BY <1>1, ProcInvariant, PTL

(* allocproc gives no two slots in use the same pid. *)
THEOREM PidUniqueHolds == Spec => []PidUnique
<1>1. ProcInv => PidUnique
  BY DEF ProcInv, PidInv
<1> QED
  BY <1>1, ProcInvariant, PTL
=============================================================================
