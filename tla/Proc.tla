-------------------------------- MODULE Proc --------------------------------
(***************************************************************************)
(* kernel/proc.c with the parts of trap.c and sysproc.c that drive it: the *)
(* process table, fork, exit, wait, kill, chpr, the per-CPU scheduler, and *)
(* sleep/wakeup as sys_sleep and the timer interrupt use them.             *)
(*                                                                         *)
(* ptable.lock is passed from thread to thread through swtch, so it is a   *)
(* variable and entering sched, switching and resuming are steps of their  *)
(* own.  A critical section that does not switch is one step.  Spinlocks   *)
(* are held with interrupts off, so the timer reaches a CPU only when it   *)
(* holds neither lock.                                                     *)
(***************************************************************************)
EXTENDS Integers, FiniteSets

CONSTANTS NPROC,       \* slots of ptable.proc, numbered from 1
          CPU, NoCPU,
          cpu0,        \* the CPU whose timer interrupt advances ticks
          MaxPid,      \* bound on nextpid
          KillPid,     \* pids the processes pass to kill and chpr
          Priority,    \* priorities they pass to chpr
          MaxSleep     \* longest sys_sleep, in ticks

ASSUME SlotAssumption == NPROC \in Nat \ {0}
ASSUME CPUAssumption  == cpu0 \in CPU /\ NoCPU \notin CPU
ASSUME BoundAssumption == MaxPid \in Nat /\ MaxSleep \in Nat
                          /\ KillPid \subseteq Nat /\ Priority \subseteq Nat

VARIABLES
  state, pid, parent, killed, chan, priority,  \* fields of struct proc
  ctx,        \* "run", or where the thread resumes when it is switched to
  pc,         \* what the thread is doing
  np,         \* fork's np
  left,       \* sys_sleep: ticks still to pass before ticks - ticks0 >= n
  nextpid,
  plock,      \* the CPU that holds ptable.lock
  tickslock,  \* the CPU that holds tickslock
  cpuproc,    \* the CPU's proc
  mode,       \* "idle", "scan" (in scheduler), "run", or "sched" (in sched)
  pos,        \* the scheduler's p
  intr        \* what an interrupt handler on the CPU has still to do

slotvars == <<state, pid, parent, killed, chan, priority, ctx, pc, np, left>>
cpuvars  == <<plock, tickslock, cpuproc, mode, pos, intr>>
vars     == <<slotvars, nextpid, cpuvars>>

Slot == 1 .. NPROC
initproc == 1
Ticks == NPROC + 1        \* the channel &ticks; a slot is its own channel
DefaultPriority == 10

Init ==   \* userinit has run, the CPUs enter scheduler
  /\ state = [i \in Slot |-> IF i = initproc THEN "RUNNABLE" ELSE "UNUSED"]
  /\ pid = [i \in Slot |-> IF i = initproc THEN 1 ELSE 0]
  /\ parent = [i \in Slot |-> 0]
  /\ killed = [i \in Slot |-> FALSE]
  /\ chan = [i \in Slot |-> 0]
  /\ priority = [i \in Slot |-> IF i = initproc THEN DefaultPriority ELSE 0]
  /\ ctx = [i \in Slot |-> "forkret"]
  /\ pc = [i \in Slot |-> "user"]
  /\ np = [i \in Slot |-> 0]
  /\ left = [i \in Slot |-> 0]
  /\ nextpid = 2
  /\ plock = NoCPU
  /\ tickslock = NoCPU
  /\ cpuproc = [c \in CPU |-> 0]
  /\ mode = [c \in CPU |-> "idle"]
  /\ pos = [c \in CPU |-> 1]
  /\ intr = [c \in CPU |-> "none"]

-----------------------------------------------------------------------------
Least(S) == CHOOSE i \in S : \A j \in S : i <= j

Runnable == {i \in Slot : state[i] = "RUNNABLE"}

(* The scheduler's highP when its scan meets RUNNABLE slot p. *)
HighP(p) ==
  LET best == {i \in Runnable : \A j \in Runnable : priority[i] <= priority[j]}
  IN IF p \in best THEN p ELSE Least(best)

(* The states after wakeup1(ch) has looked at states st. *)
wakeup1(st, ch) ==
  [i \in Slot |-> IF st[i] = "SLEEPING" /\ chan[i] = ch THEN "RUNNABLE" ELSE st[i]]

(* The thread on c runs its own code: it has resumed, no interrupt is served. *)
Running(c) == mode[c] = "run" /\ intr[c] = "none" /\ ctx[cpuproc[c]] = "run"

(* Wrong: ptable.lock is released before the switch. *)
SchedUnlocked(c, i, resume) ==
  /\ plock' = NoCPU
  /\ ctx' = [ctx EXCEPT ![i] = resume]
  /\ mode' = [mode EXCEPT ![c] = "sched"]

(* Thread i on c, holding ptable.lock, sets its state and calls sched. *)
Sched(c, i, resume) ==
  /\ plock' = c
  /\ ctx' = [ctx EXCEPT ![i] = resume]
  /\ mode' = [mode EXCEPT ![c] = "sched"]

-----------------------------------------------------------------------------
(* scheduler: take ptable.lock and start a scan of the table. *)
SchedAcquire(c) ==
  /\ mode[c] = "idle" /\ intr[c] = "none" /\ plock = NoCPU
  /\ plock' = c
  /\ mode' = [mode EXCEPT ![c] = "scan"]
  /\ pos' = [pos EXCEPT ![c] = 1]
  /\ UNCHANGED <<slotvars, nextpid, tickslock, cpuproc, intr>>

(* Wrong: the scan goes on two slots further. *)
SchedPickSkips(c) ==
  LET ahead == {i \in Runnable : i >= pos[c]}
      h == HighP(Least(ahead))
  IN /\ mode[c] = "scan"
     /\ ahead # {}
     /\ state' = [state EXCEPT ![h] = "RUNNING"]
     /\ cpuproc' = [cpuproc EXCEPT ![c] = h]
     /\ mode' = [mode EXCEPT ![c] = "run"]
     /\ pos' = [pos EXCEPT ![c] = h + 2]
     /\ UNCHANGED <<pid, parent, killed, chan, priority, ctx, pc, np, left, nextpid,
                    plock, tickslock, intr>>

(* Wrong: after a slot ran, the scan starts over. *)
SchedPickFirst(c) ==
  LET ahead == {i \in Runnable : i >= pos[c]}
      h == HighP(Least(ahead))
  IN /\ mode[c] = "scan"
     /\ ahead # {}
     /\ state' = [state EXCEPT ![h] = "RUNNING"]
     /\ cpuproc' = [cpuproc EXCEPT ![c] = h]
     /\ mode' = [mode EXCEPT ![c] = "run"]
     /\ pos' = [pos EXCEPT ![c] = 1]
     /\ UNCHANGED <<pid, parent, killed, chan, priority, ctx, pc, np, left, nextpid,
                    plock, tickslock, intr>>

(* scheduler: the scan meets a RUNNABLE slot and switches to highP. *)
SchedPick(c) ==
  LET ahead == {i \in Runnable : i >= pos[c]}
      h == HighP(Least(ahead))
  IN /\ mode[c] = "scan"
     /\ ahead # {}
     /\ state' = [state EXCEPT ![h] = "RUNNING"]
     /\ cpuproc' = [cpuproc EXCEPT ![c] = h]
     /\ mode' = [mode EXCEPT ![c] = "run"]
     /\ pos' = [pos EXCEPT ![c] = h + 1]
     /\ UNCHANGED <<pid, parent, killed, chan, priority, ctx, pc, np, left, nextpid,
                    plock, tickslock, intr>>

(* scheduler: the end of the table. *)
SchedEnd(c) ==
  /\ mode[c] = "scan"
  /\ \A i \in Runnable : i < pos[c]
  /\ plock' = NoCPU
  /\ mode' = [mode EXCEPT ![c] = "idle"]
  /\ UNCHANGED <<slotvars, nextpid, tickslock, cpuproc, pos, intr>>

(* swtch in sched: back on the scheduler's stack, still holding ptable.lock. *)
SwtchOut(c) ==
  /\ mode[c] = "sched"
  /\ mode' = [mode EXCEPT ![c] = "scan"]
  /\ cpuproc' = [cpuproc EXCEPT ![c] = 0]
  /\ UNCHANGED <<slotvars, nextpid, plock, tickslock, pos, intr>>

(* The thread switched to goes on where it left off: forkret and yield release
   ptable.lock, sleep called by wait keeps it, sleep called by sys_sleep
   releases it and then goes for tickslock. *)
Resume(c) ==
  LET i == cpuproc[c]
  IN /\ mode[c] = "run" /\ ctx[i] # "run"
     /\ ctx' = [ctx EXCEPT ![i] = "run"]
     /\ chan' = IF ctx[i] \in {"wait", "ticks"} THEN [chan EXCEPT ![i] = 0] ELSE chan
     /\ plock' = IF ctx[i] = "wait" THEN plock ELSE NoCPU
     /\ UNCHANGED <<state, pid, parent, killed, priority, pc, np, left, nextpid,
                    tickslock, cpuproc, mode, pos, intr>>

-----------------------------------------------------------------------------
(* A timer interrupt.  cpu0's advances ticks under tickslock; afterwards trap
   makes a RUNNING process yield. *)
Timer(c) ==
  /\ intr[c] = "none" /\ plock # c /\ tickslock # c
  /\ mode[c] \in {"idle", "run"}
  /\ \/ /\ c = cpu0
        /\ tickslock = NoCPU
        /\ tickslock' = c
        /\ left' = [i \in Slot |-> IF left[i] > 0 THEN left[i] - 1 ELSE 0]
        /\ intr' = [intr EXCEPT ![c] = "wakeup"]
     \/ /\ c # cpu0
        /\ mode[c] = "run"
        /\ intr' = [intr EXCEPT ![c] = "yield"]
        /\ UNCHANGED <<left, tickslock>>
  /\ UNCHANGED <<state, pid, parent, killed, chan, priority, ctx, pc, np, nextpid,
                 plock, cpuproc, mode, pos>>

(* Wrong: the handler does not call wakeup. *)
TickNoWakeup(c) ==
  /\ intr[c] = "wakeup" /\ plock = NoCPU
  /\ tickslock' = NoCPU
  /\ intr' = [intr EXCEPT ![c] = IF mode[c] = "run" THEN "yield" ELSE "none"]
  /\ UNCHANGED <<slotvars, nextpid, plock, cpuproc, mode, pos>>

(* The rest of cpu0's handler: wakeup(&ticks), release(&tickslock). *)
TickWakeup(c) ==
  /\ intr[c] = "wakeup" /\ plock = NoCPU
  /\ state' = wakeup1(state, Ticks)
  /\ tickslock' = NoCPU
  /\ intr' = [intr EXCEPT ![c] = IF mode[c] = "run" THEN "yield" ELSE "none"]
  /\ UNCHANGED <<pid, parent, killed, chan, priority, ctx, pc, np, left, nextpid,
                 plock, cpuproc, mode, pos>>

yield(c) ==
  LET i == cpuproc[c]
  IN /\ intr[c] = "yield" /\ plock = NoCPU
     /\ intr' = [intr EXCEPT ![c] = "none"]
     /\ state' = [state EXCEPT ![i] = "RUNNABLE"]
     /\ Sched(c, i, "yield")
     /\ UNCHANGED <<pid, parent, killed, chan, priority, pc, np, left, nextpid,
                    tickslock, cpuproc, pos>>

-----------------------------------------------------------------------------
(* System calls.  trap starts one only for a process that is not killed. *)
Calls(c) == Running(c) /\ pc[cpuproc[c]] = "user" /\ ~killed[cpuproc[c]]

Enter(c, i, label) ==
  /\ pc' = [pc EXCEPT ![i] = label]
  /\ UNCHANGED <<ctx, cpuproc, mode, pos, intr>>

(* fork: allocproc takes the first UNUSED slot. *)
allocproc(c) ==
  LET i == cpuproc[c]
      unused == {j \in Slot : state[j] = "UNUSED"}
      p == Least(unused)
  IN /\ Calls(c) /\ plock = NoCPU
     /\ unused # {} /\ nextpid <= MaxPid
     /\ state' = [state EXCEPT ![p] = "EMBRYO"]
     /\ pid' = [pid EXCEPT ![p] = nextpid]
     /\ nextpid' = nextpid + 1
     /\ priority' = [priority EXCEPT ![p] = DefaultPriority]
     /\ np' = [np EXCEPT ![i] = p]
     /\ ctx' = [ctx EXCEPT ![p] = "forkret"]
     /\ pc' = [pc EXCEPT ![i] = "fork", ![p] = "user"]
     /\ UNCHANGED <<parent, killed, chan, left, cpuvars>>

(* fork: kalloc (in allocproc) or copyuvm fails; no lock is held, pid stays. *)
ForkFail(c) ==
  LET i == cpuproc[c]
  IN /\ Running(c) /\ pc[i] = "fork"
     /\ state' = [state EXCEPT ![np[i]] = "UNUSED"]
     /\ np' = [np EXCEPT ![i] = 0]
     /\ Enter(c, i, "user")
     /\ UNCHANGED <<pid, parent, killed, chan, priority, left, nextpid, plock, tickslock>>

(* fork: np->parent = proc, with no lock held. *)
ForkParent(c) ==
  LET i == cpuproc[c]
  IN /\ Running(c) /\ pc[i] = "fork"
     /\ parent' = [parent EXCEPT ![np[i]] = i]
     /\ Enter(c, i, "forked")
     /\ UNCHANGED <<state, pid, killed, chan, priority, np, left, nextpid, plock, tickslock>>

(* fork: np->state = RUNNABLE, with no lock held. *)
ForkRunnable(c) ==
  LET i == cpuproc[c]
  IN /\ Running(c) /\ pc[i] = "forked"
     /\ state' = [state EXCEPT ![np[i]] = "RUNNABLE"]
     /\ Enter(c, i, "name")
     /\ UNCHANGED <<pid, parent, killed, chan, priority, np, left, nextpid,
                    plock, tickslock>>

(* fork: the name is copied into np, which may be running by now (ProcName). *)
ForkName(c) ==
  LET i == cpuproc[c]
  IN /\ Running(c) /\ pc[i] = "name"
     /\ np' = [np EXCEPT ![i] = 0]
     /\ Enter(c, i, "user")
     /\ UNCHANGED <<state, pid, parent, killed, chan, priority, left, nextpid,
                    plock, tickslock>>

(* exit, called by the process or by trap for a killed one: the files are closed
   before ptable.lock is taken.  init does not exit (exit panics on it). *)
ExitStart(c) ==
  LET i == cpuproc[c]
  IN /\ Running(c) /\ pc[i] = "user" /\ i # initproc
     /\ Enter(c, i, "exit")
     /\ UNCHANGED <<state, pid, parent, killed, chan, priority, np, left, nextpid,
                    plock, tickslock>>

(* trap's default case: a process that faults in user space is killed. *)
Fault(c) ==
  LET i == cpuproc[c]
  IN /\ Running(c) /\ pc[i] = "user" /\ i # initproc
     /\ killed' = [killed EXCEPT ![i] = TRUE]
     /\ Enter(c, i, "exit")
     /\ UNCHANGED <<state, pid, parent, chan, priority, np, left, nextpid, plock, tickslock>>

(* Wrong: the parent is not woken. *)
exitSilent(c) ==
  LET i == cpuproc[c]
      orphans == {j \in Slot : parent[j] = i}
  IN /\ Running(c) /\ pc[i] = "exit" /\ plock = NoCPU
     /\ parent' = [j \in Slot |-> IF j \in orphans THEN initproc ELSE parent[j]]
     /\ state' = [state EXCEPT ![i] = "ZOMBIE"]
     /\ Sched(c, i, "zombie")
     /\ UNCHANGED <<pid, killed, chan, priority, pc, np, left, nextpid, tickslock,
                    cpuproc, pos, intr>>

(* exit, under ptable.lock: wake the parent, hand the children to init. *)
exit(c) ==
  LET i == cpuproc[c]
      orphans == {j \in Slot : parent[j] = i}
      woken == wakeup1(state, parent[i])
      all == IF \E j \in orphans : state[j] = "ZOMBIE"
             THEN wakeup1(woken, initproc) ELSE woken
  IN /\ Running(c) /\ pc[i] = "exit" /\ plock = NoCPU
     /\ parent' = [j \in Slot |-> IF j \in orphans THEN initproc ELSE parent[j]]
     /\ state' = [all EXCEPT ![i] = "ZOMBIE"]
     /\ Sched(c, i, "zombie")
     /\ UNCHANGED <<pid, killed, chan, priority, pc, np, left, nextpid, tickslock,
                    cpuproc, pos, intr>>

WaitStart(c) ==
  /\ Calls(c)
  /\ Enter(c, cpuproc[c], "wait")
  /\ UNCHANGED <<state, pid, parent, killed, chan, priority, np, left, nextpid,
                 plock, tickslock>>

Kids(i) == {j \in Slot : parent[j] = i}
Zombies(i) == {j \in Kids(i) : state[j] = "ZOMBIE"}

(* wait is at its loop: it takes ptable.lock, or holds it since sleep returned. *)
InWait(c) ==
  Running(c) /\ pc[cpuproc[c]] = "wait" /\ plock \in {NoCPU, c}

(* wait: free the first zombie child. *)
WaitReap(c) ==
  LET i == cpuproc[c]
      z == Least(Zombies(i))
  IN /\ InWait(c) /\ Zombies(i) # {}
     /\ state' = [state EXCEPT ![z] = "UNUSED"]
     /\ pid' = [pid EXCEPT ![z] = 0]
     /\ parent' = [parent EXCEPT ![z] = 0]
     /\ killed' = [killed EXCEPT ![z] = FALSE]
     /\ plock' = NoCPU
     /\ Enter(c, i, "user")
     /\ UNCHANGED <<chan, priority, np, left, nextpid, tickslock>>

(* wait: no children, or killed. *)
WaitFail(c) ==
  LET i == cpuproc[c]
  IN /\ InWait(c) /\ Zombies(i) = {}
     /\ Kids(i) = {} \/ killed[i]
     /\ plock' = NoCPU
     /\ Enter(c, i, "user")
     /\ UNCHANGED <<state, pid, parent, killed, chan, priority, np, left, nextpid, tickslock>>

(* wait: sleep(proc, &ptable.lock). *)
WaitSleep(c) ==
  LET i == cpuproc[c]
  IN /\ InWait(c) /\ Zombies(i) = {}
     /\ Kids(i) # {} /\ ~killed[i]
     /\ chan' = [chan EXCEPT ![i] = i]
     /\ state' = [state EXCEPT ![i] = "SLEEPING"]
     /\ Sched(c, i, "wait")
     /\ UNCHANGED <<pid, parent, killed, priority, pc, np, left, nextpid, tickslock,
                    cpuproc, pos, intr>>

(* Wrong: a sleeping process is marked and left asleep. *)
killAsleep(c, k) ==
  LET hit == {j \in Slot : pid[j] = k}
  IN /\ Calls(c) /\ plock = NoCPU /\ hit # {}
     /\ killed' = [killed EXCEPT ![Least(hit)] = TRUE]
     /\ UNCHANGED <<state, pid, parent, chan, priority, ctx, pc, np, left, nextpid, cpuvars>>

(* kill: the first slot with that pid, whatever its state; none: -1. *)
kill(c, k) ==
  LET hit == {j \in Slot : pid[j] = k}
      p == Least(hit)
  IN /\ Calls(c) /\ plock = NoCPU /\ hit # {}
     /\ killed' = [killed EXCEPT ![p] = TRUE]
     /\ state' = IF state[p] = "SLEEPING" THEN [state EXCEPT ![p] = "RUNNABLE"] ELSE state
     /\ UNCHANGED <<pid, parent, chan, priority, ctx, pc, np, left, nextpid, cpuvars>>

chpr(c, k, pr) ==
  LET hit == {j \in Slot : pid[j] = k}
  IN /\ Calls(c) /\ plock = NoCPU /\ hit # {}
     /\ priority' = [priority EXCEPT ![Least(hit)] = pr]
     /\ UNCHANGED <<state, pid, parent, killed, chan, ctx, pc, np, left, nextpid, cpuvars>>

(* sys_sleep(n): acquire(&tickslock), ticks0 = ticks. *)
sys_sleep(c, n) ==
  LET i == cpuproc[c]
  IN /\ Calls(c) /\ i # initproc /\ tickslock = NoCPU
     /\ tickslock' = c
     /\ left' = [left EXCEPT ![i] = n]
     /\ Enter(c, i, "check")
     /\ UNCHANGED <<state, pid, parent, killed, chan, priority, np, nextpid, plock>>

(* sys_sleep's loop test, with tickslock held: return, or go to sleep. *)
SleepCheck(c) ==
  LET i == cpuproc[c]
      done == left[i] = 0 \/ killed[i]
  IN /\ Running(c) /\ pc[i] = "check"
     /\ tickslock' = IF done THEN NoCPU ELSE tickslock
     /\ left' = IF done THEN [left EXCEPT ![i] = 0] ELSE left
     /\ Enter(c, i, IF done THEN "user" ELSE "sleep")
     /\ UNCHANGED <<state, pid, parent, killed, chan, priority, np, nextpid, plock>>

(* sleep(&ticks, &tickslock): acquire(&ptable.lock), release(&tickslock), sched. *)
sleep(c) ==
  LET i == cpuproc[c]
  IN /\ Running(c) /\ pc[i] = "sleep" /\ plock = NoCPU
     /\ tickslock' = NoCPU
     /\ chan' = [chan EXCEPT ![i] = Ticks]
     /\ state' = [state EXCEPT ![i] = "SLEEPING"]
     /\ pc' = [pc EXCEPT ![i] = "relock"]
     /\ Sched(c, i, "ticks")
     /\ UNCHANGED <<pid, parent, killed, priority, np, left, nextpid, cpuproc, pos, intr>>

(* sleep: reacquire tickslock. *)
SleepRelock(c) ==
  LET i == cpuproc[c]
  IN /\ Running(c) /\ pc[i] = "relock" /\ plock # c /\ tickslock = NoCPU
     /\ tickslock' = c
     /\ Enter(c, i, "check")
     /\ UNCHANGED <<state, pid, parent, killed, chan, priority, np, left, nextpid, plock>>

-----------------------------------------------------------------------------
Kernel(c) ==   \* steps a CPU takes on its own
  \/ SchedAcquire(c) \/ SchedPick(c) \/ SchedEnd(c) \/ SwtchOut(c) \/ Resume(c)
  \/ TickWakeup(c) \/ yield(c)
  \/ ForkFail(c) \/ ForkParent(c) \/ ForkRunnable(c) \/ ForkName(c)
  \/ exit(c) \/ WaitReap(c) \/ WaitFail(c) \/ WaitSleep(c)
  \/ SleepCheck(c) \/ sleep(c) \/ SleepRelock(c)

User(c) ==     \* what a process asks for
  \/ allocproc(c) \/ ExitStart(c) \/ Fault(c) \/ WaitStart(c)
  \/ \E k \in KillPid : kill(c, k)
  \/ \E k \in KillPid, pr \in Priority : chpr(c, k, pr)
  \/ \E n \in 1 .. MaxSleep : sys_sleep(c, n)

Next == \E c \in CPU : Kernel(c) \/ User(c) \/ Timer(c)

Spec == Init /\ [][Next]_vars

(* What process i must do when it has the CPU: finish its system call, exit once
   killed; init's program always calls wait again. *)
Progress(c, i) ==
  /\ cpuproc[c] = i
  /\ \/ ForkFail(c) \/ ForkParent(c) \/ ForkRunnable(c) \/ ForkName(c)
     \/ exit(c) \/ WaitReap(c) \/ WaitFail(c) \/ WaitSleep(c)
     \/ SleepCheck(c) \/ sleep(c) \/ SleepRelock(c)
     \/ killed[i] /\ ExitStart(c)
     \/ i = initproc /\ WaitStart(c)

(* A CPU keeps executing its scheduler and its interrupt handlers; a timer
   interrupt that comes while interrupts are off stays pending; between two
   interrupts a CPU executes something, so neither a process that keeps getting
   the CPU nor an idle scheduler is interrupted for ever before its next step. *)
FairSpec ==
  /\ Spec
  /\ \A c \in CPU :
       /\ SF_vars(SchedAcquire(c))
       /\ WF_vars(SchedPick(c) \/ SchedEnd(c) \/ SwtchOut(c)
                  \/ Resume(c) \/ TickWakeup(c) \/ yield(c))
       /\ SF_vars(Timer(c))
       /\ \A i \in Slot : SF_vars(Progress(c, i))

-----------------------------------------------------------------------------
States == {"UNUSED", "EMBRYO", "SLEEPING", "RUNNABLE", "RUNNING", "ZOMBIE"}

(* Every field of the process table, every CPU and both locks have their types;
   the scheduler's p stays within the table or one past its end. *)
TypeOK ==
  /\ state \in [Slot -> States]
  /\ pid \in [Slot -> Nat] /\ nextpid \in Nat
  /\ parent \in [Slot -> Slot \cup {0}]
  /\ killed \in [Slot -> BOOLEAN]
  /\ chan \in [Slot -> Slot \cup {0, Ticks}]
  /\ priority \in [Slot -> Nat]
  /\ ctx \in [Slot -> {"run", "forkret", "yield", "wait", "ticks", "zombie"}]
  /\ pc \in [Slot -> {"user", "fork", "forked", "name", "exit", "wait", "check", "sleep", "relock"}]
  /\ np \in [Slot -> Slot \cup {0}]
  /\ left \in [Slot -> 0 .. MaxSleep]
  /\ plock \in CPU \cup {NoCPU} /\ tickslock \in CPU \cup {NoCPU}
  /\ cpuproc \in [CPU -> Slot \cup {0}]
  /\ mode \in [CPU -> {"idle", "scan", "run", "sched"}]
  /\ pos \in [CPU -> 1 .. NPROC + 1]
  /\ intr \in [CPU -> {"none", "wakeup", "yield"}]

(* No kernel stack is in use on two CPUs, a slot whose stack is in use is not
   free, and a RUNNING slot is on some CPU: sched hands the CPU back with ptable.lock
   held, so wait cannot free a zombie that has not switched away yet and no
   scheduler can pick a thread whose registers are not saved. *)
StackExclusive ==
  /\ \A c, d \in CPU : cpuproc[c] # 0 /\ cpuproc[c] = cpuproc[d] => c = d
  /\ \A c \in CPU : cpuproc[c] # 0 => state[cpuproc[c]] \notin {"UNUSED", "EMBRYO"}
  /\ \A i \in Slot : state[i] = "RUNNING" => \E c \in CPU : cpuproc[c] = i

(* The panics of sched never fire: a thread in sched holds ptable.lock, no
   other lock (ncli = 1), and is not RUNNING. *)
SchedPanicFree ==
  \A c \in CPU : mode[c] = "sched" =>
    /\ plock = c /\ tickslock # c
    /\ state[cpuproc[c]] # "RUNNING"

(* No wakeup is lost: a parent asleep in wait has no zombie child, and a process
   asleep in sys_sleep whose time is up has the timer's wakeup still coming. *)
NoLostWakeup ==
  \A i \in Slot : state[i] = "SLEEPING" =>
    /\ (chan[i] = i => Zombies(i) = {})
    /\ (chan[i] = Ticks /\ left[i] = 0 => \E c \in CPU : intr[c] = "wakeup")

(* Every process has a parent that can still wait for it: exit hands the
   children of an exiting process to init before it becomes a zombie. *)
LivingParent ==
  \A i \in Slot \ {initproc} : state[i] \notin {"UNUSED", "EMBRYO"} =>
    parent[i] # 0 /\ state[parent[i]] \notin {"UNUSED", "EMBRYO", "ZOMBIE"}

(* allocproc gives no two slots in use one pid. *)
PidUnique ==
  \A i, j \in Slot :
    state[i] # "UNUSED" /\ state[j] # "UNUSED" /\ pid[i] = pid[j] => i = j

(* Every sys_sleep returns: its time passes and the wakeup reaches it. *)
SleepReturns == \A i \in Slot \ {initproc} : pc[i] = "sleep" ~> pc[i] = "user"

(* A process that is killed exits, wherever the kill meets it: it is woken from
   its sleep and trap sends it to exit. *)
KilledExits ==
  \A i \in Slot \ {initproc} :
    killed[i] /\ state[i] # "UNUSED" ~> state[i] \in {"ZOMBIE", "UNUSED"}

(* init frees every zombie that is handed to it. *)
OrphanReaped ==
  \A i \in Slot \ {initproc} :
    state[i] = "ZOMBIE" /\ parent[i] = initproc ~> state[i] = "UNUSED"

(* At equal priorities no RUNNABLE process starves: the scan goes on after the
   slot that ran last. *)
RunnableRuns == \A i \in Slot : state[i] = "RUNNABLE" ~> state[i] = "RUNNING"

-----------------------------------------------------------------------------
(* A CPU has a thread exactly when it runs one or is inside its sched; a thread
   that runs is RUNNING and one in sched is not any more. *)
CpuInv ==
  /\ \A c \in CPU :
       /\ cpuproc[c] = 0 <=> mode[c] \in {"idle", "scan"}
       /\ mode[c] = "run" => state[cpuproc[c]] = "RUNNING"
       /\ mode[c] = "sched" => state[cpuproc[c]] \in {"RUNNABLE", "SLEEPING", "ZOMBIE"}
  /\ \A c, d \in CPU : cpuproc[c] # 0 /\ cpuproc[c] = cpuproc[d] => c = d
  /\ \A i \in Slot : state[i] = "RUNNING" => \E c \in CPU : cpuproc[c] = i /\ mode[c] = "run"

(* ptable.lock is held from sched to the code after the next swtch. *)
LockInv ==
  \A c \in CPU :
    /\ mode[c] \in {"scan", "sched"} => plock = c
    /\ mode[c] = "run" /\ ctx[cpuproc[c]] # "run" => plock = c

(* Who holds tickslock: the timer's handler on cpu0, or a thread of sys_sleep
   between its test and its sleep, for which time does not pass. *)
TickInv ==
  /\ \A c \in CPU :
       /\ tickslock = c =>
            \/ intr[c] = "wakeup" /\ mode[c] \in {"idle", "run"}
            \/ mode[c] = "run" /\ intr[c] = "none" /\ pc[cpuproc[c]] \in {"check", "sleep"}
       /\ intr[c] = "wakeup" => tickslock = c
       /\ intr[c] = "yield" => mode[c] = "run" /\ tickslock # c
  /\ \A i \in Slot : pc[i] \in {"check", "sleep"} =>
       /\ tickslock \in CPU /\ cpuproc[tickslock] = i
       /\ mode[tickslock] = "run" /\ intr[tickslock] = "none"
  /\ \A i \in Slot : pc[i] = "sleep" => left[i] > 0

(* fork works on a slot of its own, which nobody else touches. *)
ForkInv ==
  /\ \A i \in Slot : pc[i] \in {"fork", "forked"} =>
       np[i] \in Slot /\ state[np[i]] = "EMBRYO"
  /\ \A i, j \in Slot :
       pc[i] \in {"fork", "forked"} /\ pc[j] \in {"fork", "forked"} /\ np[i] = np[j] => i = j
  /\ \A i \in Slot : pc[i] = "forked" => parent[np[i]] = i

(* init lives for ever and has no parent; nobody is its own child. *)
InitInv ==
  /\ state[initproc] \notin {"UNUSED", "EMBRYO", "ZOMBIE"}
  /\ pc[initproc] # "exit" /\ parent[initproc] = 0
  /\ \A i \in Slot : parent[i] # i

(* Pids are handed out once. *)
PidInv == (\A i \in Slot : state[i] # "UNUSED" => pid[i] < nextpid) /\ PidUnique

(* The inductive invariant of proc.c: a slot is RUNNING exactly on one CPU, a
   CPU inside sched and swtch holds ptable.lock, no tick passes between the test
   of sys_sleep and its sleep, a slot under construction belongs to one fork,
   init never exits, and the properties above hold. *)
ProcInv ==
  /\ TypeOK /\ CpuInv /\ LockInv /\ TickInv /\ ForkInv /\ InitInv /\ PidInv
  /\ NoLostWakeup /\ LivingParent
=============================================================================
