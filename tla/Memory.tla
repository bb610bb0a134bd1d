------------------------------- MODULE Memory -------------------------------
(***************************************************************************)
(* kernel/kalloc.c, kernel/vm.c, kernel/vm64.c (the X64 build), exec() and *)
(* growproc(): physical pages, the page tables of the processes, and the   *)
(* calls that build, grow, copy and drop them.  Every kalloc() is a step,  *)
(* so the processes compete for the last pages; the kfree()s of one        *)
(* deallocuvm() or freevm() are one step.  A page's content is a tag.      *)
(***************************************************************************)
EXTENDS Integers, Sequences, FiniteSets, SequencesExt

CONSTANTS NPROC, NPage,
          PGSIZE,                  \* in units that let a size be unaligned
          NPTENTRIES, NPDENTRIES,
          Programs,                \* ELF files: sequences of [va, filesz, memsz]
          Deltas,                  \* arguments of sbrk
          MaxCalls                 \* bound: calls of sbrk, fork and exec

ASSUME MemoryAssumption ==
  /\ {NPROC, NPage, PGSIZE, NPTENTRIES} \subseteq Nat \ {0}
  /\ NPDENTRIES \in Nat /\ NPDENTRIES > 3

Proc == 1 .. NPROC
Page == 1 .. NPage
Null == 0
Slot == 0 .. NPDENTRIES - 3          \* the top two entries of pgdir are backpointers
VPage == 0 .. (NPDENTRIES - 2) * NPTENTRIES - 1
\* Contents of a page; p is what process p stores.
ZERO == 0
JUNK == -1
TEXT == -2
ARGS == -3
Slot_(a) == a \div NPTENTRIES
PGROUNDUP(n) == (n + PGSIZE - 1) \div PGSIZE     \* as a page number

VARIABLES
  freelist,   \* kmem.freelist: how often each page is on it
  mem,        \* content of each page
  state,      \* UNUSED, EMBRYO, ALIVE or ZOMBIE, per process slot
  sz, kstack,
  vm,         \* proc->pgdir, per process
  new,        \* the page table a fork or an exec of the process is building
  call,       \* the call each process is in
  lost,       \* auxiliary: pages that nothing refers to any more
  panic,      \* the machine has panicked or faulted
  ncalls

vars == <<freelist, mem, state, sz, kstack, vm, new, call, lost, panic,
          ncalls>>

(* top = <<pml4, pdpt, pgdir>>; tab the page-table pages; pte the leaves.  *)
NoVm == [top |-> <<>>, tab |-> [s \in Slot |-> Null],
         pte |-> [a \in VPage |-> Null], guard |-> {}]
NoCall == [op |-> "none"]

(* setupkvm and inituvm for the first process: initcode in one page. *)
inituvm == [NoVm EXCEPT !.top = <<2, 3, 4>>, !.tab[0] = 5, !.pte[0] = 6]

Init ==
  /\ freelist = [g \in Page |-> IF g > 6 THEN 1 ELSE 0]
  /\ mem = [g \in Page |-> CASE g < 6 -> ZERO [] g = 6 -> TEXT [] OTHER -> JUNK]
  /\ state = [p \in Proc |-> IF p = 1 THEN "ALIVE" ELSE "UNUSED"]
  /\ sz = [p \in Proc |-> IF p = 1 THEN PGSIZE ELSE 0]
  /\ kstack = [p \in Proc |-> IF p = 1 THEN 1 ELSE Null]
  /\ vm = [p \in Proc |-> IF p = 1 THEN inituvm ELSE NoVm]
  /\ new = [p \in Proc |-> NoVm]
  /\ call = [p \in Proc |-> NoCall]
  /\ lost = {} /\ panic = FALSE /\ ncalls = 0

-----------------------------------------------------------------------------
Range_(f) == {f[x] : x \in DOMAIN f}

(* The page kalloc returns.  Which free page it is makes no difference:    *)
(* the list's order is left out.                                           *)
kalloc == LET free == {g \in Page : freelist[g] > 0}
          IN IF free = {} THEN Null ELSE Min(free)
Taken == IF kalloc = Null THEN freelist ELSE [freelist EXCEPT ![kalloc] = @ - 1]
Fill(g, c) == IF g = Null THEN mem ELSE [mem EXCEPT ![g] = c]

(* kfree of every page of sequence s: junk, and a push. *)
Pushed(s) == [g \in Page |-> freelist[g] + Cardinality({i \in DOMAIN s : s[i] = g})]
kfree(s) ==
  /\ freelist' = Pushed(s)
  /\ mem' = [g \in Page |-> IF g \in Range_(s) THEN JUNK ELSE mem[g]]

(* The page table for page a: the one there, or with alloc a new one. *)
walkpgdir(v, a, alloc) ==
  IF v.tab[Slot_(a)] = Null /\ alloc THEN kalloc ELSE v.tab[Slot_(a)]

(* The stack's guard page, and what uva2ka and copyout make of it. *)
clearpteu(v, a) == [v EXCEPT !.guard = {a}]
uva2ka(v, a) == IF a \in v.guard THEN Null ELSE v.pte[a]
copyout(v, a) == uva2ka(v, a) # Null

(* The pages deallocuvm's loop visits from a on: where the page table is   *)
(* missing it skips NPTENTRIES pages.                                      *)
RECURSIVE Visited(_, _, _)
Visited(v, a, end) ==
  IF a >= end THEN <<>>
  ELSE <<a>> \o Visited(v, IF a \in VPage /\ walkpgdir(v, a, FALSE) = Null
                           THEN a + NPTENTRIES ELSE a + 1, end)

(* deallocuvm reaching the backpointers of the page directory takes them   *)
(* for page tables and faults.                                             *)
Faults(v, end, a) == \E i \in DOMAIN Visited(v, a, end) : Visited(v, a, end)[i] \notin VPage
Mapped(v, end, a) == SelectSeq(Visited(v, a, end), LAMBDA x : v.pte[x] # Null)
PagesOf(v, s) == [i \in DOMAIN s |-> v.pte[s[i]]]
(* Wrong: the page is freed and stays mapped. *)
UnmappedNot(v, s) == v
Unmapped(v, s) ==
  [v EXCEPT !.pte = [a \in VPage |-> IF a \in Range_(s) THEN Null ELSE @[a]],
            !.guard = @ \ Range_(s)]

(* Wrong: the page tables are not given back. *)
freevmShallow(v) == PagesOf(v, Mapped(v, (NPDENTRIES - 3) * NPTENTRIES, 0)) \o <<v.top[3]>>

(* What freevm gives to kfree: up to address 0x3fa00000, the page tables,  *)
(* and the directory.                                                      *)
freevm(v) ==
  PagesOf(v, Mapped(v, (NPDENTRIES - 3) * NPTENTRIES, 0))
    \o SelectSeq([i \in 1 .. NPDENTRIES - 2 |-> v.tab[i - 1]], LAMBDA g : g # Null)
    \o <<v.top[3]>>

(* What freevm forgets. *)
Dropped(v) == IF v.top = <<>> THEN {} ELSE {v.top[1], v.top[2]} \ {Null}

-----------------------------------------------------------------------------
Idle(p) == ~panic /\ state[p] = "ALIVE" /\ call[p] = NoCall
Enter(p) == Idle(p) /\ ncalls < MaxCalls /\ ncalls' = ncalls + 1
At(p, l) == ~panic /\ call[p] # NoCall /\ call[p].at = l
Goto(p, l) == call' = [call EXCEPT ![p].at = l]
Panics == panic' = TRUE /\ UNCHANGED <<freelist, mem, state, sz, kstack, vm, new, call, lost>>

(* The page table that p's call works on. *)
Build(p) == IF call[p].op = "grow" THEN vm[p] ELSE new[p]
SetBuild(p, v) ==
  IF call[p].op = "grow" THEN vm' = [vm EXCEPT ![p] = v] /\ UNCHANGED new
                         ELSE new' = [new EXCEPT ![p] = v] /\ UNCHANGED vm

(* Loop over the pages from size lo up to size hi. *)
Loop(op, lo, hi, child, segs) ==
  [op |-> op, at |-> "alloc", lo |-> lo, hi |-> hi, a |-> PGROUNDUP(lo), m |-> Null,
   child |-> child, segs |-> segs]

(* sbrk(n), n > 0: growproc calls allocuvm(pgdir, sz, sz + n). *)
Grow(p, n) ==
  /\ Enter(p) /\ n > 0
  /\ call' = [call EXCEPT ![p] = Loop("grow", sz[p], sz[p] + n, p, <<>>)]
  /\ UNCHANGED <<freelist, mem, state, sz, kstack, vm, new, lost, panic>>

(* sbrk(n), n < 0.  Below zero the unsigned size wraps and deallocuvm does *)
(* nothing; at zero the result reads as an error and proc->sz stays.       *)
Shrink(p, n) ==
  /\ Enter(p) /\ n < 0 /\ sz[p] + n >= 0
  /\ LET s == Mapped(vm[p], PGROUNDUP(sz[p]), PGROUNDUP(sz[p] + n)) IN
       /\ kfree(PagesOf(vm[p], s))
       /\ vm' = [vm EXCEPT ![p] = Unmapped(@, s)]
  /\ sz' = [sz EXCEPT ![p] = IF @ + n = 0 THEN @ ELSE @ + n]
  /\ UNCHANGED <<state, kstack, new, call, lost, panic>>

(* fork: allocproc takes a slot and a kernel stack, copyuvm starts. *)
Fork(p) ==
  /\ Enter(p) /\ kalloc # Null
  /\ \E c \in Proc :
       /\ state[c] = "UNUSED" /\ \A d \in 1 .. c - 1 : state[d] # "UNUSED"
       /\ state' = [state EXCEPT ![c] = "EMBRYO"]
       /\ kstack' = [kstack EXCEPT ![c] = kalloc]
       /\ call' = [call EXCEPT ![p] = [Loop("fork", 0, sz[p], c, <<>>) EXCEPT !.at = "setup"]]
  /\ freelist' = Taken
  /\ UNCHANGED <<mem, sz, vm, new, lost, panic>>

(* exec of a file with a good ELF header; with a bad one nothing changes. *)
Exec(p, prog) ==
  /\ Enter(p)
  /\ call' = [call EXCEPT ![p] = [Loop("exec", 0, 0, p, prog) EXCEPT !.at = "setup"]]
  /\ UNCHANGED <<freelist, mem, state, sz, kstack, vm, new, lost, panic>>

(* setupkvm, one kalloc at a time: pml4, pdpt, pgdir.  It tests none of    *)
(* them: memset(0, 0, PGSIZE) clears the caller's own page 0.  Without a   *)
(* pgdir it returns 0.                                                     *)
Setup(p) ==
  /\ At(p, "setup")
  /\ LET top == Append(new[p].top, kalloc)
         done == Len(top) = 3
         bad == done /\ Null \in Range_(top)
     IN IF bad /\ vm[p].pte[0] = Null THEN Panics ELSE
        /\ freelist' = Taken
        /\ mem' = IF bad THEN [Fill(kalloc, ZERO) EXCEPT ![vm[p].pte[0]] = ZERO]
                         ELSE Fill(kalloc, ZERO)
        /\ new' = [new EXCEPT ![p].top = IF done /\ kalloc = Null THEN <<>> ELSE top]
        /\ lost' = IF done /\ kalloc = Null THEN lost \cup (Range_(top) \ {Null}) ELSE lost
        /\ Goto(p, IF ~done THEN "setup" ELSE IF kalloc = Null THEN "failed"
                   ELSE IF call[p].op = "exec" THEN "seg" ELSE "alloc")
        /\ UNCHANGED <<state, sz, kstack, vm, panic>>

(* Wrong: out of memory, allocuvm keeps what it mapped. *)
AllocPageKeeps(p) ==
  LET c == call[p] IN
  /\ At(p, "alloc") /\ c.a < PGROUNDUP(c.hi)
  /\ IF c.op = "fork" /\ vm[p].pte[c.a] = Null THEN Panics
     ELSE
       /\ freelist' = Taken
       /\ mem' = Fill(kalloc, IF c.op = "fork" THEN mem[vm[p].pte[c.a]] ELSE ZERO)
       /\ call' = [call EXCEPT ![p].at = IF kalloc = Null THEN "failed" ELSE "map", ![p].m = kalloc]
       /\ UNCHANGED <<state, sz, kstack, vm, new, lost, panic>>

(* One turn of the loop of allocuvm or copyuvm: kalloc, then memset or     *)
(* memmove.  allocuvm out of memory gives back what it mapped.             *)
AllocPage(p) ==
  LET c == call[p] v == Build(p) IN
  /\ At(p, "alloc") /\ c.a < PGROUNDUP(c.hi)
  /\ IF c.op = "fork" /\ vm[p].pte[c.a] = Null THEN Panics
     ELSE IF kalloc # Null THEN
       /\ freelist' = Taken
       /\ mem' = Fill(kalloc, IF c.op = "fork" THEN mem[vm[p].pte[c.a]] ELSE ZERO)
       /\ call' = [call EXCEPT ![p].at = "map", ![p].m = kalloc]
       /\ UNCHANGED <<state, sz, kstack, vm, new, lost, panic>>
     ELSE IF c.op = "fork" THEN
       Goto(p, "failed") /\ UNCHANGED <<freelist, mem, state, sz, kstack, vm, new, lost, panic>>
     ELSE IF Faults(v, PGROUNDUP(c.hi), PGROUNDUP(c.lo)) THEN Panics
     ELSE LET s == Mapped(v, PGROUNDUP(c.hi), PGROUNDUP(c.lo)) IN
       /\ kfree(PagesOf(v, s)) /\ SetBuild(p, Unmapped(v, s))
       /\ Goto(p, "failed")
       /\ UNCHANGED <<state, sz, kstack, lost, panic>>

(* mappages of the page: walkpgdir adds a page table where there is none.  *)
(* Without memory for it allocuvm goes on to the next page, and copyuvm    *)
(* gives up; the page itself is lost.  copyuvm keeps the flags of the      *)
(* parent's entry.                                                         *)
MapPage(p) ==
  LET c == call[p] v == Build(p)
      tab == walkpgdir(v, c.a, TRUE)
      fresh == walkpgdir(v, c.a, FALSE) = Null
  IN
  /\ At(p, "map")
  /\ IF v.pte[c.a] # Null THEN Panics
     ELSE IF tab = Null THEN
       /\ lost' = lost \cup {c.m}
       /\ call' = [call EXCEPT ![p].at = IF c.op = "fork" THEN "failed" ELSE "alloc",
                               ![p].a = @ + 1, ![p].m = Null]
       /\ UNCHANGED <<freelist, mem, state, sz, kstack, vm, new, panic>>
     ELSE
       /\ freelist' = IF fresh THEN Taken ELSE freelist
       /\ mem' = IF fresh THEN Fill(tab, ZERO) ELSE mem
       /\ SetBuild(p, [v EXCEPT !.tab[Slot_(c.a)] = tab, !.pte[c.a] = c.m,
                                !.guard = IF c.op = "fork" THEN @ \cup ({c.a} \cap vm[p].guard)
                                                           ELSE @])
       /\ call' = [call EXCEPT ![p].at = "alloc", ![p].a = @ + 1, ![p].m = Null]
       /\ UNCHANGED <<state, sz, kstack, lost, panic>>

(* Wrong: the last, partial page is left out. *)
LoopDoneEarly(p) == At(p, "alloc") /\ call[p].a >= call[p].hi \div PGSIZE
(* The loop is over. *)
LoopDone(p) == At(p, "alloc") /\ call[p].a >= PGROUNDUP(call[p].hi)

(* switchuvm or the scheduler loads the page table: without pml4 or pdpt   *)
(* the machine faults.                                                     *)
Loadable(v) == v.top[1] # Null /\ v.top[2] # Null

GrowDone(p) ==
  /\ LoopDone(p) /\ call[p].op = "grow"
  /\ sz' = [sz EXCEPT ![p] = call[p].hi]
  /\ call' = [call EXCEPT ![p] = NoCall]
  /\ UNCHANGED <<freelist, mem, state, kstack, vm, new, lost, panic>>

ForkDone(p) ==
  LET c == call[p].child IN
  /\ LoopDone(p) /\ call[p].op = "fork"
  /\ IF ~Loadable(new[p]) THEN Panics ELSE
     /\ vm' = [vm EXCEPT ![c] = new[p]]
     /\ new' = [new EXCEPT ![p] = NoVm]
     /\ sz' = [sz EXCEPT ![c] = sz[p]]
     /\ state' = [state EXCEPT ![c] = "ALIVE"]
     /\ call' = [call EXCEPT ![p] = NoCall]
     /\ UNCHANGED <<freelist, mem, kstack, lost, panic>>

-----------------------------------------------------------------------------
(* exec: the next program header.  readi may fail; after the last header   *)
(* two more pages are allocated.                                           *)
Segment(p) ==
  LET c == call[p] s == Head(c.segs) IN
  /\ At(p, "seg")
  /\ \/ c.segs # <<>> /\ Goto(p, "failed")
     \/ c.segs # <<>> /\ s.memsz >= s.filesz /\ s.va + s.memsz > 0
          /\ call' = [call EXCEPT ![p] = IF s.va + s.memsz < c.hi
                        THEN [c EXCEPT !.at = "load"]
                        ELSE Loop("exec", c.hi, s.va + s.memsz, p, c.segs)]
     \/ c.segs = <<>>
          /\ call' = [call EXCEPT ![p] = Loop("exec", PGROUNDUP(c.hi) * PGSIZE,
                                              (PGROUNDUP(c.hi) + 2) * PGSIZE, p, <<>>)]
  /\ UNCHANGED <<freelist, mem, state, sz, kstack, vm, new, lost, panic>>

SegmentDone(p) ==
  /\ LoopDone(p) /\ call[p].op = "exec" /\ call[p].segs # <<>>
  /\ Goto(p, "load")
  /\ UNCHANGED <<freelist, mem, state, sz, kstack, vm, new, lost, panic>>

(* loaduvm: a missing page table is a panic; a missing page is written at  *)
(* physical address 0, which no process uses.                              *)
Load(p) ==
  LET s == Head(call[p].segs)
      pages == {a \in VPage : a * PGSIZE >= s.va /\ a * PGSIZE < s.va + s.filesz}
      v == new[p]
  IN
  /\ At(p, "load")
  /\ \/ Goto(p, "failed") /\ UNCHANGED <<freelist, mem, state, sz, kstack, vm, new, lost, panic>>
     \/ (\E a \in pages : walkpgdir(v, a, FALSE) = Null) /\ Panics
     \/ /\ \A a \in pages : walkpgdir(v, a, FALSE) # Null
        /\ mem' = [g \in Page |-> IF \E a \in pages : v.pte[a] = g THEN TEXT ELSE mem[g]]
        /\ call' = [call EXCEPT ![p].at = "seg", ![p].segs = Tail(@)]
        /\ UNCHANGED <<freelist, state, sz, kstack, vm, new, lost, panic>>

(* The user stack is there: clearpteu makes the lower page inaccessible,   *)
(* the arguments are copied out to the upper one, which fails if they do   *)
(* not fit or the page is missing, and the new image is put in place.      *)
Commit(p) ==
  LET c == call[p]
      top == PGROUNDUP(c.hi) - 1
      v == clearpteu(new[p], top - 1)
  IN
  /\ LoopDone(p) /\ c.op = "exec" /\ c.segs = <<>>
  /\ \/ walkpgdir(v, top - 1, FALSE) # Null
          /\ Goto(p, "failed")
          /\ UNCHANGED <<freelist, mem, state, sz, kstack, vm, new, lost, panic>>
     \/ (walkpgdir(v, top - 1, FALSE) = Null \/ walkpgdir(v, top, FALSE) = Null
           \/ ~Loadable(v)) /\ Panics
     \/ /\ walkpgdir(v, top - 1, FALSE) # Null /\ copyout(v, top) /\ Loadable(v)
        /\ LET old == freevm(vm[p]) IN
             /\ freelist' = Pushed(old)
             /\ mem' = [g \in Page |-> IF g = v.pte[top] THEN ARGS
                                       ELSE IF g \in Range_(old) THEN JUNK ELSE mem[g]]
             /\ lost' = lost \cup Dropped(vm[p])
        /\ vm' = [vm EXCEPT ![p] = v]
        /\ new' = [new EXCEPT ![p] = NoVm]
        /\ sz' = [sz EXCEPT ![p] = c.hi]
        /\ call' = [call EXCEPT ![p] = NoCall]
        /\ UNCHANGED <<state, kstack, panic>>

(* The call returns -1.  exec and fork free the new page table; fork gives *)
(* back the kernel stack and the slot.                                     *)
Failed(p) ==
  LET c == call[p]
      table == IF c.op = "grow" \/ new[p].top = <<>> THEN <<>> ELSE freevm(new[p])
      stack == IF c.op = "fork" THEN <<kstack[c.child]>> ELSE <<>>
  IN
  /\ At(p, "failed")
  /\ kfree(table \o stack)
  /\ lost' = lost \cup Dropped(new[p])
  /\ new' = [new EXCEPT ![p] = NoVm]
  /\ kstack' = IF c.op = "fork" THEN [kstack EXCEPT ![c.child] = Null] ELSE kstack
  /\ state' = IF c.op = "fork" THEN [state EXCEPT ![c.child] = "UNUSED"] ELSE state
  /\ call' = [call EXCEPT ![p] = NoCall]
  /\ UNCHANGED <<sz, vm, panic>>

-----------------------------------------------------------------------------
Exit(p) ==
  /\ Idle(p) /\ p # 1
  /\ state' = [state EXCEPT ![p] = "ZOMBIE"]
  /\ UNCHANGED <<freelist, mem, sz, kstack, vm, new, call, lost, panic>>

(* wait() finds the zombie c; that it is a child of p, Proc models. *)
Wait(p, c) ==
  /\ Idle(p) /\ state[c] = "ZOMBIE"
  /\ kfree(<<kstack[c]>> \o freevm(vm[c]))
  /\ lost' = lost \cup Dropped(vm[c])
  /\ state' = [state EXCEPT ![c] = "UNUSED"]
  /\ vm' = [vm EXCEPT ![c] = NoVm]
  /\ kstack' = [kstack EXCEPT ![c] = Null]
  /\ sz' = [sz EXCEPT ![c] = 0]
  /\ UNCHANGED <<new, call, panic>>

(* A store into page a, by the program or by a system call for it. *)
Store(p, a) ==
  /\ Idle(p) /\ copyout(vm[p], a)
  /\ mem' = [mem EXCEPT ![vm[p].pte[a]] = p]
  /\ UNCHANGED <<freelist, state, sz, kstack, vm, new, call, lost, panic>>

Step(p) ==
  \/ Setup(p) \/ AllocPage(p) \/ MapPage(p) \/ GrowDone(p) \/ ForkDone(p)
  \/ Segment(p) \/ SegmentDone(p) \/ Load(p) \/ Commit(p) \/ Failed(p)
  \/ Exit(p) \/ (\E c \in Proc : Wait(p, c)) \/ Store(p, 0)

Next ==
  \/ \E p \in Proc :
       \/ \E n \in Deltas : Grow(p, n) \/ Shrink(p, n)
       \/ \E prog \in Programs : Exec(p, prog)
       \/ Fork(p)
       \/ UNCHANGED ncalls /\ Step(p)

Spec == Init /\ [][Next]_vars

-----------------------------------------------------------------------------
(* The references process p and its call hold to pages. *)
Refs(p) ==
  vm[p].top \o new[p].top \o <<kstack[p], IF call[p] = NoCall THEN Null ELSE call[p].m>>
    \o [i \in 1 .. NPDENTRIES - 2 |-> vm[p].tab[i - 1]]
    \o [i \in 1 .. NPDENTRIES - 2 |-> new[p].tab[i - 1]]
    \o [i \in 1 .. Cardinality(VPage) |-> vm[p].pte[i - 1]]
    \o [i \in 1 .. Cardinality(VPage) |-> new[p].pte[i - 1]]
Held(p) == Range_(Refs(p)) \ {Null}
OnList == {g \in Page : freelist[g] > 0}

(* No page has two uses: one that is free is in no page table, one that is *)
(* mapped is mapped once, and nothing is freed twice; and a page without a *)
(* use was dropped at one of the three places that drop pages: freevm      *)
(* (pml4 and pdpt), setupkvm out of memory, and mappages out of memory.    *)
PageAccounting ==
  /\ \A g \in Page : freelist[g] <= 1
  /\ \A p \in Proc : Cardinality(Held(p)) = Len(SelectSeq(Refs(p), LAMBDA g : g # Null))
  /\ \A p \in Proc : Held(p) \cap (OnList \cup lost) = {}
  /\ \A p, q \in Proc : p # q => Held(p) \cap Held(q) = {}
  /\ UNION {Held(p) : p \in Proc} \cup OnList \cup lost = Page

Image(p) == [a \in {x \in VPage : vm[p].pte[x] # Null} |-> mem[vm[p].pte[a]]]

(* A page that process p maps changes only by p's own stores and calls:    *)
(* nothing another process does, running out of memory included, shows in  *)
(* p's memory.                                                             *)
Isolation ==
  [][\A p \in Proc : \A a \in VPage :
       LET g == vm[p].pte[a] IN
       (g # Null /\ vm'[p].pte[a] = g /\ mem'[g] # mem[g])
         => mem'[g] = p \/ call'[p] # call[p]]_vars

(* The child that fork makes runnable has its parent's size and, page by   *)
(* page, its parent's memory.                                              *)
ChildIsCopy ==
  [][\A c \in Proc : (state[c] = "EMBRYO" /\ state'[c] = "ALIVE") =>
       \E p \in Proc \ {c} : /\ call[p] # NoCall /\ call'[p] = NoCall
                             /\ sz'[c] = sz[p] /\ Image(c)' = Image(p)]_vars

(* Between calls no page is mapped at or above proc->sz: a growproc that   *)
(* ran out of memory has given back what it took.                          *)
NothingBeyondSize ==
  \A p \in Proc : call[p] = NoCall =>
    \A a \in VPage : vm[p].pte[a] # Null => a < PGROUNDUP(sz[p])
=============================================================================
