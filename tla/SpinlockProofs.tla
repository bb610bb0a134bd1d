--------------------------- MODULE SpinlockProofs ---------------------------
(***************************************************************************)
(* Exclusion and FlagRestored hold for any set of processors and any set   *)
(* of locks.  There is one lemma per action; what an action leaves alone   *)
(* is settled once, in OthersKeep, HeldTop and OwnersKeep.                 *)
(***************************************************************************)
EXTENDS Spinlock, SequenceTheorems, TLAPS

(* The locks are ordered by numbers, and the null pointer is no processor. *)
LockAssumption == Lock \subseteq Nat /\ NULL \notin CPU

Local(c) == FrameInv(c) /\ OrderInv(c) /\ FlagInv(c)

Holder(f, l) == \E j \in 1..Len(f.held) : f.held[j] = l

-----------------------------------------------------------------------------
(* The running context of a processor is a context. *)
LEMMA TopType ==
    ASSUME TypeOK, NEW c \in CPU, FrameInv(c)
    PROVE  /\ Top(c) \in Context
           /\ Len(frames[c]) \in {1, 2}
           /\ frames[c] \in Seq(Context)
<1>1. frames[c] \in Seq(Context)
  BY DEF TypeOK
<1>2. Len(frames[c]) \in {1, 2}
  BY DEF FrameInv
<1>a. 1 \in 1..1 /\ 2 \in 1..2
  OBVIOUS
<1>3. Len(frames[c]) \in 1..Len(frames[c])
  BY <1>2, <1>a, Zenon
<1>4. frames[c][Len(frames[c])] \in Context
  BY <1>1, <1>3, ElementOfSeq, Zenon
<1> QED
  BY <1>1, <1>2, <1>4, Zenon DEF Top

(* Replacing the last of one or two elements. *)
LEMMA LastSet ==
    ASSUME NEW S, NEW s \in Seq(S), Len(s) \in {1, 2}, NEW e \in S
    PROVE  /\ [s EXCEPT ![Len(s)] = e] \in Seq(S)
           /\ Len([s EXCEPT ![Len(s)] = e]) = Len(s)
           /\ [s EXCEPT ![Len(s)] = e][Len(s)] = e
           /\ Len(s) = 2 => [s EXCEPT ![Len(s)] = e][1] = s[1]
<1>1. CASE Len(s) = 1
  <2>1. 1 \in 1..Len(s)
    BY <1>1
  <2> QED
    BY <1>1, <2>1, ExceptSeq
<1>2. CASE Len(s) = 2
  <2>1. 1 \in 1..Len(s) /\ 2 \in 1..Len(s)
    BY <1>2
  <2>2. /\ [s EXCEPT ![2] = e] \in Seq(S)
        /\ Len([s EXCEPT ![2] = e]) = Len(s)
    BY <2>1, ExceptSeq
  <2>3. [s EXCEPT ![2] = e][2] = e /\ [s EXCEPT ![2] = e][1] = s[1]
    BY <2>1
  <2> QED
    BY <1>2, <2>2, <2>3
<1> QED
  BY <1>1, <1>2

(* What replacing the running context of c changes. *)
Replaced(c, f) ==
    /\ frames' \in [CPU -> Seq(Context)]
    /\ Len(frames[c])' = Len(frames[c])
    /\ Top(c)' = f
    /\ Len(frames[c]) = 2 => frames'[c][1] = frames[c][1]
    /\ \A d \in CPU \ {c} : frames'[d] = frames[d] /\ Top(d)' = Top(d)

LEMMA TopSet ==
    ASSUME TypeOK, NEW c \in CPU, FrameInv(c), NEW f \in Context, SetTop(c, f)
    PROVE  Replaced(c, f) /\ FrameInv(c)'
<1>1. frames[c] \in Seq(Context) /\ Len(frames[c]) \in {1, 2}
  BY TopType
<1>2. frames' = [frames EXCEPT ![c] = [frames[c] EXCEPT ![Len(frames[c])] = f]]
  BY DEF SetTop
<1>3. frames'[c] = [frames[c] EXCEPT ![Len(frames[c])] = f]
  BY <1>2 DEF TypeOK
<1>4. frames'[c] \in Seq(Context) /\ Len(frames'[c]) = Len(frames[c])
  BY <1>1, <1>3, LastSet
<1>5. frames'[c][Len(frames[c])] = f
  BY <1>1, <1>3, LastSet
<1>6. \A d \in CPU \ {c} : frames'[d] = frames[d]
  BY <1>2 DEF TypeOK
<1>7. frames' \in [CPU -> Seq(Context)]
  BY <1>2, <1>3, <1>4 DEF TypeOK
<1>8. Len(frames[c]) = 2 => frames'[c][1] = frames[c][1]
  BY <1>1, <1>3, LastSet
<1>9. Replaced(c, f)
  BY <1>4, <1>5, <1>6, <1>7, <1>8 DEF Top, Replaced
<1> QED
  BY <1>9 DEF Replaced, FrameInv

(* A processor whose state an action leaves alone keeps its invariant. *)
LEMMA OthersKeep ==
    ASSUME NEW c \in CPU, Local(c),
           frames'[c] = frames[c], ncli'[c] = ncli[c],
           FL_IF'[c] = FL_IF[c], intena'[c] = intena[c]
    PROVE  Local(c)'
<1>1. Top(c)' = Top(c)
  BY Zenon DEF Top
<1>2. FrameInv(c)'
  BY Zenon DEF Local, FrameInv
<1>3. OrderInv(c)'
  BY <1>1, Zenon DEF Local, OrderInv
<1>4. FlagInv(c)'
  BY <1>1, Zenon DEF Local, FlagInv
<1> QED
  BY <1>2, <1>3, <1>4, Zenon DEF Local

(* A lock is held by a processor when its running context holds it. *)
LEMMA HeldTop ==
    /\ \A c, l : InHeld(c, l) <=> Holder(Top(c), l)
    /\ \A c, l : InHeld(c, l)' <=> Holder(Top(c)', l)
BY DEF InHeld, Holds, Holder, Top

(* A step that changes no lock and no holder keeps the owners right, if    *)
(* the context of c neither enters nor leaves the two places where the     *)
(* holder of a lock is not yet, or no longer, written in it.               *)
LEMMA OwnersKeep ==
    ASSUME OwnerInv, NEW c \in CPU, UNCHANGED <<locked, cpu>>,
           Top(c)'.held = Top(c).held,
           Top(c)'.pc \notin {"own", "drop"}, Top(c).pc \notin {"own", "drop"},
           \A d \in CPU \ {c} : Top(d)' = Top(d)
    PROVE  OwnerInv'
<1>1. \A d \in CPU, l \in Lock : InHeld(d, l)' <=> InHeld(d, l)
  BY HeldTop DEF Holder
<1>2. \A d \in CPU : Top(d).pc \in {"own", "drop"} \/ Top(d)'.pc \in {"own", "drop"}
                        => Top(d)' = Top(d)
  OBVIOUS
<1>3. \A l \in Lock : locked'[l] = locked[l] /\ cpu'[l] = cpu[l]
  BY Zenon
<1>4. \A d \in CPU, l \in Lock : InHeld(d, l)' => locked'[l]
  BY <1>1, <1>3, Zenon DEF OwnerInv
<1>5. \A d, e \in CPU, l \in Lock : InHeld(d, l)' /\ InHeld(e, l)' => d = e
  BY <1>1, Zenon DEF OwnerInv
<1>6. ASSUME NEW d \in CPU, NEW l \in Lock, cpu'[l] = d
      PROVE  InHeld(d, l)'
  <2>1. cpu[l] = d
    BY <1>3, <1>6
  <2>2. InHeld(d, l)
    BY <2>1, Zenon DEF OwnerInv
  <2> QED
    BY <1>1, <2>2, Zenon
<1>7. ASSUME NEW d \in CPU, NEW l \in Lock, InHeld(d, l)'
      PROVE  cpu'[l] = d \/ (Top(d)'.pc \in {"own", "drop"} /\ Top(d)'.lk = l)
  <2>1. cpu[l] = d \/ (Top(d).pc \in {"own", "drop"} /\ Top(d).lk = l)
    BY <1>1, <1>7, Zenon DEF OwnerInv
  <2> QED
    BY <1>2, <1>3, <2>1, Zenon
<1>8. ASSUME NEW d \in CPU, Top(d)'.pc = "drop"
      PROVE  cpu'[Top(d)'.lk] = NULL
  <2>1. Top(d)' = Top(d)
    BY <1>2, <1>8
  <2> QED
    BY <1>8, <2>1, Zenon DEF OwnerInv
<1> QED
  BY <1>4, <1>5, <1>6, <1>7, <1>8, Zenon DEF OwnerInv

(* Between the xchg and the write of lk->cpu, and between its clearing and *)
(* the xchg of release, the lock is held.                                  *)
LEMMA HeadOwned ==
    ASSUME SpinInv, NEW c \in CPU, Top(c).pc \in {"own", "drop"}
    PROVE  InHeld(c, Top(c).lk)
<1>1. TypeOK /\ FrameInv(c) /\ OrderInv(c)
  BY DEF SpinInv
<1>2. Top(c).held \in Seq(Lock)
  BY <1>1, TopType DEF Context
<1>3. Len(Top(c).held) > 0 /\ Top(c).lk = Top(c).held[Len(Top(c).held)]
  BY <1>1 DEF OrderInv
<1>4. Len(Top(c).held) \in 1..Len(Top(c).held)
  BY <1>2, <1>3
<1> QED
  BY <1>3, <1>4, HeldTop DEF Holder

(* A step of c alone: its own invariant and the owners are left to show. *)
LEMMA OneMoves ==
    ASSUME SpinInv, NEW c \in CPU, TypeOK', Local(c)', OwnerInv',
           \A d \in CPU \ {c} : /\ frames'[d] = frames[d]
                                /\ ncli'[d] = ncli[d]
                                /\ FL_IF'[d] = FL_IF[d]
                                /\ intena'[d] = intena[d]
    PROVE  SpinInv'
<1>1. ASSUME NEW d \in CPU \ {c} PROVE Local(d)'
  BY <1>1, OthersKeep DEF SpinInv, Local
<1> QED
  BY <1>1, Zenon DEF SpinInv, Local

-----------------------------------------------------------------------------
(* pushcli, first step, in acquire. *)
LEMMA acquireKeeps ==
    ASSUME LockAssumption, SpinInv, NEW c \in CPU, NEW l \in Lock, acquire(c, l)
    PROVE  SpinInv'
<1> DEFINE f == [Top(c) EXCEPT !.pc = "cli", !.lk = l, !.eflags = FL_IF[c]]
<1>1. TypeOK /\ FrameInv(c) /\ OrderInv(c) /\ FlagInv(c) /\ OwnerInv
  BY DEF SpinInv
<1>2. Top(c) \in Context /\ Top(c).pc = "run"
  BY <1>1, TopType DEF acquire, At
<1>3. f \in Context /\ f.held = Top(c).held /\ f.pc = "cli" /\ f.lk = l /\ f.eflags = FL_IF[c]
  BY <1>1, <1>2, Zenon DEF Context, TypeOK
<1>4. SetTop(c, f) /\ UNCHANGED <<locked, cpu, FL_IF, ncli, intena, panicked>>
  BY DEF acquire
<1>5. Replaced(c, f) /\ FrameInv(c)'
  BY <1>1, <1>3, <1>4, TopSet
<1> HIDE DEF f
<1>6. TypeOK'
  BY <1>1, <1>4, <1>5 DEF TypeOK, Replaced
<1>7. OrderInv(c)'
  BY <1>1, <1>3, <1>5 DEF OrderInv, acquire, Replaced
<1>8. FlagInv(c)'
  BY <1>1, <1>2, <1>3, <1>4, <1>5, Zenon DEF FlagInv, Replaced
<1>9. OwnerInv'
  BY <1>1, <1>2, <1>3, <1>4, <1>5, OwnersKeep DEF Replaced
<1> QED
  BY <1>4, <1>5, <1>6, <1>7, <1>8, <1>9, OneMoves DEF Local, Replaced

(* pushcli, second step: the flag goes off and the count up. *)
LEMMA pushcliKeeps ==
    ASSUME LockAssumption, SpinInv, NEW c \in CPU, pushcli(c)
    PROVE  SpinInv'
<1> DEFINE f == [Top(c) EXCEPT !.pc = "test"]
<1>1. TypeOK /\ FrameInv(c) /\ OrderInv(c) /\ FlagInv(c) /\ OwnerInv
  BY DEF SpinInv
<1>2. Top(c) \in Context /\ Top(c).pc = "cli" /\ Len(frames[c]) \in {1, 2} /\ Len(Top(c).held) \in Nat
  BY <1>1, TopType DEF pushcli, At, Context
<1>3. f \in Context /\ f.held = Top(c).held /\ f.pc = "test" /\ f.lk = Top(c).lk
  BY <1>1, <1>2 DEF Context
<1>4. SetTop(c, f) /\ UNCHANGED <<locked, cpu, panicked>>
  BY DEF pushcli
<1>5. Replaced(c, f) /\ FrameInv(c)'
  BY <1>1, <1>3, <1>4, TopSet
<1> HIDE DEF f
<1>6. /\ FL_IF' \in [CPU -> BOOLEAN] /\ FL_IF'[c] = FALSE
      /\ ncli' \in [CPU -> Nat] /\ ncli'[c] = ncli[c] + 1
      /\ intena' \in [CPU -> BOOLEAN] /\ intena'[c] = Saved(c)
      /\ \A d \in CPU \ {c} : ncli'[d] = ncli[d] /\ FL_IF'[d] = FL_IF[d] /\ intena'[d] = intena[d]
  BY <1>1, <1>2 DEF pushcli, TypeOK, Context, Saved
<1>7. TypeOK'
  BY <1>1, <1>4, <1>5, <1>6 DEF TypeOK, Replaced
<1>8. OrderInv(c)'
  BY <1>1, <1>2, <1>3, <1>5 DEF OrderInv, Replaced
<1>9. FlagInv(c)'
  <2>1. ncli[c] = Len(Top(c).held) /\ ncli[c] \in Nat
    BY <1>1, <1>2 DEF FlagInv, TypeOK
  <2>2. ncli'[c] = Len(f.held) + 1 /\ ncli'[c] > 0 /\ ncli'[c] # 0
    BY <1>2, <1>3, <1>6, <2>1
  <2>3. intena'[c] <=> Len(frames[c]) = 1
    <3>1. CASE ncli[c] = 0
      <4>1. intena'[c] = Top(c).eflags
        BY <1>6, <3>1 DEF Saved
      <4>2. Top(c).eflags <=> FL_IF[c]
        BY <1>1, <1>2 DEF FlagInv
      <4>3. FL_IF[c] <=> Len(frames[c]) = 1
        BY <1>1, <3>1, Zenon DEF FlagInv
      <4> QED
        BY <4>1, <4>2, <4>3
    <3>2. CASE ncli[c] # 0
      <4>1. intena'[c] = intena[c]
        BY <1>6, <3>2 DEF Saved
      <4>2. ncli[c] > 0
        BY <2>1, <3>2
      <4>3. intena[c] <=> Len(frames[c]) = 1
        BY <1>1, <4>2 DEF FlagInv
      <4> QED
        BY <4>1, <4>3
    <3> QED
      BY <3>1, <3>2
  <2> QED
    BY <1>3, <1>5, <1>6, <2>2, <2>3, Zenon DEF FlagInv, Replaced
<1>10. OwnerInv'
  BY <1>1, <1>2, <1>3, <1>4, <1>5, OwnersKeep DEF Replaced
<1> QED
  BY <1>5, <1>6, <1>7, <1>8, <1>9, <1>10, OneMoves DEF Local, Replaced

(* holding: acquire never meets a lock its own processor holds. *)
LEMMA TestKeeps ==
    ASSUME LockAssumption, SpinInv, NEW c \in CPU, Test(c)
    PROVE  SpinInv'
<1> DEFINE f == [Top(c) EXCEPT !.pc = "xchg"]
<1>1. TypeOK /\ FrameInv(c) /\ OrderInv(c) /\ FlagInv(c) /\ OwnerInv
  BY DEF SpinInv
<1>2. Top(c) \in Context /\ Top(c).pc = "test" /\ Top(c).lk \in Lock
  BY <1>1, TopType DEF Test, At, OrderInv
<1>3. f \in Context /\ f.held = Top(c).held /\ f.pc = "xchg" /\ f.lk = Top(c).lk
  BY <1>2 DEF Context
<1>4. SetTop(c, f) /\ UNCHANGED <<locked, cpu, FL_IF, ncli, intena>>
  BY DEF Test
<1>5. Replaced(c, f) /\ FrameInv(c)'
  BY <1>1, <1>3, <1>4, TopSet
<1> HIDE DEF f
<1>6. ~Holder(Top(c), Top(c).lk)
  <2>1. \A j \in 1..Len(Top(c).held) : Top(c).held[j] < Top(c).lk
    BY <1>1, <1>2 DEF OrderInv
  <2>2. Top(c).lk \in Nat
    BY <1>2, Zenon DEF LockAssumption
  <2>3. ~(Top(c).lk < Top(c).lk)
    BY <2>2
  <2> QED
    BY <2>1, <2>3, Zenon DEF Holder
<1>7. panicked' = FALSE
  BY <1>1, <1>2, <1>6, HeldTop, Zenon DEF Test, holding, OwnerInv
<1>8. TypeOK'
  BY <1>1, <1>4, <1>5, <1>7 DEF TypeOK, Replaced
<1>9. OrderInv(c)'
  BY <1>1, <1>2, <1>3, <1>5 DEF OrderInv, Replaced
<1>10. FlagInv(c)'
  BY <1>1, <1>2, <1>3, <1>4, <1>5, Zenon DEF FlagInv, Replaced
<1>11. OwnerInv'
  BY <1>1, <1>2, <1>3, <1>4, <1>5, OwnersKeep DEF Replaced
<1> QED
  BY <1>4, <1>5, <1>8, <1>9, <1>10, <1>11, OneMoves DEF Local, Replaced
(* The xchg that takes the lock. *)
LEMMA xchgKeeps ==
    ASSUME LockAssumption, SpinInv, NEW c \in CPU, xchg(c)
    PROVE  SpinInv'
<1> DEFINE k == Top(c).lk
           f == [Top(c) EXCEPT !.pc = "own", !.held = Append(@, k)]
<1>1. TypeOK /\ FrameInv(c) /\ OrderInv(c) /\ FlagInv(c) /\ OwnerInv
  BY DEF SpinInv
<1>2. Top(c) \in Context /\ Top(c).pc = "xchg" /\ k \in Lock /\ Top(c).held \in Seq(Lock)
  BY <1>1, TopType DEF xchg, At, OrderInv, Context
<1>3. f \in Context /\ f.held = Append(Top(c).held, k) /\ f.pc = "own" /\ f.lk = k
  <2>1. Append(Top(c).held, k) \in Seq(Lock)
    BY <1>2, AppendProperties
  <2> QED
    BY <1>2, <2>1, Zenon DEF Context
<1>4. SetTop(c, f) /\ UNCHANGED <<cpu, FL_IF, ncli, intena, panicked>>
  BY DEF xchg
<1>5. Replaced(c, f) /\ FrameInv(c)'
  BY <1>1, <1>3, <1>4, TopSet
<1>6. ~locked[k] /\ locked' = [locked EXCEPT ![k] = TRUE]
  BY DEF xchg
<1> HIDE DEF f
<1>7. /\ Len(f.held) = Len(Top(c).held) + 1 /\ Len(Top(c).held) \in Nat
      /\ f.held[Len(f.held)] = k
      /\ \A j \in 1..Len(Top(c).held) : f.held[j] = Top(c).held[j]
  BY <1>2, <1>3, AppendProperties
<1>8. TypeOK'
  BY <1>1, <1>2, <1>4, <1>5, <1>6 DEF TypeOK, Replaced
<1>9. OrderInv(c)'
  <2>1. ASSUME NEW i \in 1..Len(f.held), NEW j \in 1..Len(f.held), i < j
        PROVE  f.held[i] < f.held[j]
    <3>1. i \in 1..Len(Top(c).held)
      BY <1>7, <2>1
    <3>2. CASE j = Len(f.held)
      BY <1>1, <1>2, <1>7, <3>1, <3>2 DEF OrderInv
    <3>3. CASE j # Len(f.held)
      BY <1>1, <1>2, <1>7, <2>1, <3>1, <3>3 DEF OrderInv
    <3> QED
      BY <3>2, <3>3
  <2>2. Len(f.held) > 0
    BY <1>7
  <2>3. Top(c)' = f
    BY <1>5 DEF Replaced
  <2> HIDE DEF k
  <2> QED
    BY <1>2, <1>3, <1>7, <2>1, <2>2, <2>3, Zenon DEF OrderInv
<1>10. FlagInv(c)'
  <2>1. ncli[c] = Len(Top(c).held) + 1
    BY <1>1, <1>2 DEF FlagInv
  <2>2. ncli'[c] = Len(f.held) /\ FL_IF' = FL_IF /\ ncli' = ncli /\ intena' = intena
    BY <1>4, <1>7, <2>1
  <2>3. Top(c)' = f /\ Len(frames[c])' = Len(frames[c])
    BY <1>5 DEF Replaced
  <2>4. Len(f.held) = Len(f.held) + 0
    BY <1>7
  <2> HIDE DEF k
  <2> QED
    BY <1>1, <1>3, <2>2, <2>3, <2>4, Zenon DEF FlagInv
<1>11. OwnerInv'
  <2>1. \A l : Holder(f, l) <=> Holder(Top(c), l) \/ l = k
    BY <1>7, SMTT(30) DEF Holder
  <2>2. \A d \in CPU, l \in Lock : InHeld(d, l)' <=> InHeld(d, l) \/ (d = c /\ l = k)
    BY <1>5, <2>1, HeldTop DEF Replaced
  <2>3. \A l \in Lock : locked'[l] <=> locked[l] \/ l = k
    BY <1>1, <1>2, <1>6 DEF TypeOK
  <2>4. \A d \in CPU : ~InHeld(d, k)
    BY <1>1, <1>2, <1>6 DEF OwnerInv
  <2>5. /\ \A d \in CPU \ {c} : Top(d)' = Top(d)
        /\ Top(c)'.pc = "own" /\ Top(c)'.lk = k /\ cpu' = cpu
    BY <1>3, <1>4, <1>5 DEF Replaced
  <2>6. \A d \in CPU, l \in Lock : InHeld(d, l)' => locked'[l]
    BY <1>1, <2>2, <2>3 DEF OwnerInv
  <2>7. \A d, e \in CPU, l \in Lock : InHeld(d, l)' /\ InHeld(e, l)' => d = e
    BY <1>1, <2>2, <2>4 DEF OwnerInv
  <2>8. \A d \in CPU, l \in Lock : cpu'[l] = d => InHeld(d, l)'
    BY <1>1, <2>2, <2>5, Zenon DEF OwnerInv
  <2>9. \A d \in CPU, l \in Lock :
            InHeld(d, l)' => cpu'[l] = d \/ (Top(d)'.pc \in {"own", "drop"} /\ Top(d)'.lk = l)
    BY <1>1, <1>2, <2>2, <2>5 DEF OwnerInv
  <2>10. \A d \in CPU : Top(d)'.pc = "drop" => cpu'[Top(d)'.lk] = NULL
    BY <1>1, <2>5 DEF OwnerInv
  <2> QED
    BY <2>6, <2>7, <2>8, <2>9, <2>10, Zenon DEF OwnerInv
<1> QED
  BY <1>4, <1>5, <1>8, <1>9, <1>10, <1>11, OneMoves DEF Local, Replaced

(* The holder is written into the lock. *)
LEMMA OwnKeeps ==
    ASSUME LockAssumption, SpinInv, NEW c \in CPU, Own(c)
    PROVE  SpinInv'
<1> DEFINE k == Top(c).lk
           f == [Top(c) EXCEPT !.pc = "run", !.lk = NULL]
<1>1. TypeOK /\ FrameInv(c) /\ OrderInv(c) /\ FlagInv(c) /\ OwnerInv
  BY DEF SpinInv
<1>2. Top(c) \in Context /\ Top(c).pc = "own" /\ k \in Lock
  BY <1>1, TopType DEF Own, At, OrderInv
<1>3. f \in Context /\ f.held = Top(c).held /\ f.pc = "run"
  BY <1>2, Zenon DEF Context
<1>4. SetTop(c, f) /\ UNCHANGED <<locked, FL_IF, ncli, intena, panicked>>
  BY DEF Own
<1>5. Replaced(c, f) /\ FrameInv(c)'
  BY <1>1, <1>3, <1>4, TopSet
<1>6. cpu' = [cpu EXCEPT ![k] = c]
  BY DEF Own
<1> HIDE DEF f
<1>7. TypeOK'
  BY <1>1, <1>2, <1>4, <1>5, <1>6, Zenon DEF TypeOK, Replaced
<1>8. OrderInv(c)'
  BY <1>1, <1>3, <1>5 DEF OrderInv, Replaced
<1>9. FlagInv(c)'
  BY <1>1, <1>2, <1>3, <1>4, <1>5, Zenon DEF FlagInv, Replaced
<1>10. OwnerInv'
  <2>1. \A d \in CPU, l \in Lock : InHeld(d, l)' <=> InHeld(d, l)
    <3>1. \A d \in CPU : Top(d)'.held = Top(d).held
      BY <1>3, <1>5, Zenon DEF Replaced
    <3> QED
      BY <3>1, HeldTop DEF Holder
  <2>2. InHeld(c, k)
    BY <1>1, <1>2, HeadOwned
  <2>3. /\ \A d \in CPU \ {c} : Top(d)' = Top(d)
        /\ Top(c)'.pc = "run" /\ locked' = locked
        /\ \A l \in Lock : cpu'[l] = IF l = k THEN c ELSE cpu[l]
    BY <1>1, <1>3, <1>4, <1>5, <1>6 DEF Replaced, TypeOK
  <2>4. \A d \in CPU, l \in Lock : cpu'[l] = d => InHeld(d, l)'
    BY <1>1, <2>1, <2>2, <2>3 DEF OwnerInv
  <2>5. \A d \in CPU, l \in Lock :
            InHeld(d, l)' => cpu'[l] = d \/ (Top(d)'.pc \in {"own", "drop"} /\ Top(d)'.lk = l)
    BY <1>1, <1>2, <2>1, <2>2, <2>3 DEF OwnerInv
  <2>6. ASSUME NEW d \in CPU, Top(d)'.pc = "drop" PROVE cpu'[Top(d)'.lk] = NULL
    <3>1. d # c /\ Top(d)' = Top(d) /\ Top(d).pc = "drop"
      BY <2>3, <2>6, Zenon
    <3>2. Top(d).lk \in Lock /\ InHeld(d, Top(d).lk)
      BY <3>1, HeadOwned, Zenon DEF SpinInv, OrderInv
    <3> QED
      BY <1>1, <1>2, <2>2, <2>3, <3>1, <3>2 DEF OwnerInv
  <2> QED
    BY <1>1, <2>1, <2>3, <2>4, <2>5, <2>6, ZenonT(30) DEF OwnerInv
<1> QED
  BY <1>4, <1>5, <1>7, <1>8, <1>9, <1>10, OneMoves DEF Local, Replaced
-----------------------------------------------------------------------------
(* release never finds the lock held by somebody else. *)
LEMMA releaseKeeps ==
    ASSUME LockAssumption, SpinInv, NEW c \in CPU, release(c)
    PROVE  SpinInv'
<1> DEFINE k == Top(c).held[Len(Top(c).held)]
           f == [Top(c) EXCEPT !.pc = "drop", !.lk = k]
<1>1. TypeOK /\ FrameInv(c) /\ OrderInv(c) /\ FlagInv(c) /\ OwnerInv
  BY DEF SpinInv
<1>2. Top(c) \in Context /\ Top(c).pc = "run" /\ Top(c).held \in Seq(Lock)
  BY <1>1, TopType DEF release, At, Context
<1>3. Len(Top(c).held) > 0 /\ Len(Top(c).held) \in 1..Len(Top(c).held) /\ k \in Lock
  <2>1. Top(c).held # <<>>
    BY DEF release
  <2>2. Len(Top(c).held) \in Nat /\ Len(Top(c).held) # 0
    BY <1>2, <2>1, EmptySeq
  <2>3. Len(Top(c).held) \in 1..Len(Top(c).held)
    BY <2>2
  <2> QED
    BY <1>2, <2>2, <2>3, ElementOfSeq
<1>4. f \in Context /\ f.held = Top(c).held /\ f.pc = "drop" /\ f.lk = k
  BY <1>2, <1>3, Zenon DEF Context
<1>5. SetTop(c, f) /\ UNCHANGED <<locked, FL_IF, ncli, intena>> /\ cpu' = [cpu EXCEPT ![k] = NULL]
  BY DEF release
<1>6. Replaced(c, f) /\ FrameInv(c)'
  BY <1>1, <1>4, <1>5, TopSet
<1> HIDE DEF f
<1>7. InHeld(c, k)
  BY <1>3, HeldTop DEF Holder
<1>8. panicked' = FALSE
  <2>1. panicked' = ~holding(c, k)
    BY Zenon DEF release
  <2>2. locked[k] /\ cpu[k] = c
    BY <1>1, <1>2, <1>3, <1>7 DEF OwnerInv
  <2> QED
    BY <2>1, <2>2, Zenon DEF holding
<1> USE <1>3
<1>9. f.lk = f.held[Len(f.held)] /\ Len(f.held) > 0
  BY <1>4
<1> HIDE DEF k
<1>10. TypeOK'
  BY <1>1, <1>5, <1>6, <1>8, Zenon DEF TypeOK, Replaced
<1>11. OrderInv(c)'
  BY <1>1, <1>4, <1>6, <1>9, Zenon DEF OrderInv, Replaced
<1>12. FlagInv(c)'
  BY <1>1, <1>2, <1>4, <1>5, <1>6, Zenon DEF FlagInv, Replaced
<1>13. OwnerInv'
  <2>1. \A d \in CPU, l \in Lock : InHeld(d, l)' <=> InHeld(d, l)
    BY <1>4, <1>6, HeldTop DEF Replaced, Holder
  <2>2. /\ \A d \in CPU \ {c} : Top(d)' = Top(d)
        /\ Top(c)'.pc = "drop" /\ Top(c)'.lk = k /\ locked' = locked
        /\ \A l \in Lock : cpu'[l] = IF l = k THEN NULL ELSE cpu[l]
    BY <1>1, <1>4, <1>5, <1>6 DEF Replaced, TypeOK
  <2>3. \A d \in CPU, l \in Lock : cpu'[l] = d => InHeld(d, l)'
    BY <1>1, <2>1, <2>2 DEF OwnerInv, LockAssumption
  <2>4. \A d \in CPU, l \in Lock :
            InHeld(d, l)' => cpu'[l] = d \/ (Top(d)'.pc \in {"own", "drop"} /\ Top(d)'.lk = l)
    BY <1>1, <1>2, <1>7, <2>1, <2>2 DEF OwnerInv
  <2>5. ASSUME NEW d \in CPU, Top(d)'.pc = "drop" PROVE cpu'[Top(d)'.lk] = NULL
    <3>1. CASE d = c
      BY <2>2, <3>1, Zenon
    <3>2. CASE d # c
      <4>1. Top(d)' = Top(d) /\ Top(d).pc = "drop"
        BY <2>2, <2>5, <3>2, Zenon
      <4>2. Top(d).lk \in Lock
        BY <4>1, Zenon DEF SpinInv, OrderInv
      <4> QED
        BY <1>1, <2>2, <4>1, <4>2 DEF OwnerInv
    <3> QED
      BY <3>1, <3>2
  <2> QED
    BY <1>1, <2>1, <2>2, <2>3, <2>4, <2>5, Zenon DEF OwnerInv
<1> QED
  BY <1>5, <1>6, <1>10, <1>11, <1>12, <1>13, OneMoves DEF Local, Replaced

(* The xchg that frees the lock. *)
LEMMA DropKeeps ==
    ASSUME LockAssumption, SpinInv, NEW c \in CPU, Drop(c)
    PROVE  SpinInv'
<1> DEFINE k == Top(c).lk
           h == Top(c).held
           g == SubSeq(h, 1, Len(h) - 1)
           f == [Top(c) EXCEPT !.pc = "popcli", !.held = g]
<1>1. TypeOK /\ FrameInv(c) /\ OrderInv(c) /\ FlagInv(c) /\ OwnerInv
  BY DEF SpinInv
<1>2. Top(c) \in Context /\ Top(c).pc = "drop" /\ k \in Lock /\ h \in Seq(Lock)
  BY <1>1, TopType DEF Drop, At, OrderInv, Context
<1>3. Len(h) \in Nat /\ Len(h) > 0 /\ h[Len(h)] = k /\ InHeld(c, k)
  BY <1>1, <1>2, HeadOwned DEF OrderInv
<1>4. /\ g \in Seq(Lock) /\ Len(g) \in Nat /\ Len(g) = Len(h) - 1
      /\ \A j \in 1..Len(g) : g[j] = h[j]
  <2>1. \A j \in 1..Len(h) - 1 : h[j] \in Lock
    BY <1>2, <1>3, ElementOfSeq
  <2>2. /\ g \in Seq(Lock)
        /\ Len(g) = IF 1 <= Len(h) - 1 THEN Len(h) - 1 - 1 + 1 ELSE 0
        /\ \A j \in 1..Len(h) - 1 - 1 + 1 : g[j] = h[1 + j - 1]
    <3>1. 1 \in Int /\ Len(h) - 1 \in Int
      BY <1>3
    <3> HIDE DEF h
    <3> QED
      BY <2>1, <3>1, SubSeqProperties
  <2>3. Len(g) = Len(h) - 1
    BY <1>3, <2>2
  <2> HIDE DEF g, h
  <2> QED
    BY <1>3, <2>2, <2>3
<1>5. f \in Context /\ f.held = g /\ f.pc = "popcli" /\ f.lk = k
  <2> HIDE DEF g
  <2> QED
    BY <1>2, <1>4, Zenon DEF Context
<1>6. SetTop(c, f) /\ UNCHANGED <<cpu, FL_IF, ncli, intena, panicked>> /\ locked' = [locked EXCEPT ![k] = FALSE]
  BY DEF Drop
<1>7. Replaced(c, f) /\ FrameInv(c)'
  BY <1>1, <1>5, <1>6, TopSet
<1> HIDE DEF f, g
<1>8. TypeOK'
  BY <1>1, <1>2, <1>6, <1>7 DEF TypeOK, Replaced
<1>9. \A i, j \in 1..Len(h) : i < j => h[i] < h[j]
  BY <1>1 DEF OrderInv
<1>10. OrderInv(c)'
  <2>1. \A i, j \in 1..Len(g) : i < j => g[i] < g[j]
    BY <1>3, <1>4, <1>9
  <2>2. Top(c)' = f
    BY <1>7 DEF Replaced
  <2> QED
    BY <1>2, <1>5, <2>1, <2>2 DEF OrderInv
<1>11. FlagInv(c)'
  <2>1. ncli[c] = Len(h)
    BY <1>1, <1>2, <1>3 DEF FlagInv
  <2>2. ncli'[c] = Len(f.held) + 1 /\ FL_IF' = FL_IF /\ ncli' = ncli /\ intena' = intena
    BY <1>3, <1>4, <1>5, <1>6, <2>1
  <2>3. Top(c)' = f /\ Len(frames[c])' = Len(frames[c])
    BY <1>7 DEF Replaced
  <2> QED
    BY <1>1, <1>5, <2>2, <2>3, Zenon DEF FlagInv
<1>12. OwnerInv'
  <2>1. \A l \in Lock : Holder(f, l) <=> Holder(Top(c), l) /\ l # k
    <3>1. ASSUME NEW l \in Lock, Holder(f, l) PROVE Holder(Top(c), l) /\ l # k
      <4>1. PICK j \in 1..Len(g) : g[j] = l
        BY <1>5, <3>1 DEF Holder
      <4>2. j \in 1..Len(h) /\ j < Len(h) /\ h[j] = l /\ Len(h) \in 1..Len(h)
        BY <1>3, <1>4, <4>1
      <4>3. l < k
        BY <1>3, <1>9, <4>2
      <4>4. l \in Nat
        BY DEF LockAssumption
      <4> QED
        BY <4>2, <4>3, <4>4 DEF Holder
    <3>2. ASSUME NEW l \in Lock, Holder(Top(c), l), l # k PROVE Holder(f, l)
      <4>1. PICK j \in 1..Len(h) : h[j] = l
        BY <3>2 DEF Holder
      <4>2. j # Len(h)
        BY <1>3, <3>2, <4>1
      <4>3. j \in 1..Len(g)
        BY <1>3, <1>4, <4>2
      <4> QED
        BY <1>4, <1>5, <4>1, <4>3, Zenon DEF Holder
    <3> QED
      BY <3>1, <3>2
  <2>2. \A d \in CPU, l \in Lock : InHeld(d, l)' <=> InHeld(d, l) /\ l # k
    <3>1. \A d \in CPU \ {c} : ~InHeld(d, k)
      BY <1>1, <1>2, <1>3, Zenon DEF OwnerInv
    <3> QED
      BY <1>7, <2>1, <3>1, HeldTop DEF Replaced
  <2>3. /\ \A d \in CPU \ {c} : Top(d)' = Top(d)
        /\ Top(c)'.pc = "popcli" /\ cpu' = cpu /\ cpu[k] = NULL
        /\ \A l \in Lock : l # k => locked'[l] = locked[l]
    BY <1>1, <1>2, <1>5, <1>6, <1>7, Zenon DEF Replaced, TypeOK, OwnerInv
  <2> HIDE DEF k
  <2>4. \A d \in CPU, l \in Lock : InHeld(d, l)' => locked'[l]
    BY <1>1, <2>2, <2>3, SMTT(30) DEF OwnerInv
  <2>5. \A d, e \in CPU, l \in Lock : InHeld(d, l)' /\ InHeld(e, l)' => d = e
    BY <1>1, <2>2, Zenon DEF OwnerInv
  <2>6. \A d \in CPU, l \in Lock : cpu'[l] = d => InHeld(d, l)'
    BY <1>1, <2>2, <2>3, Zenon DEF OwnerInv, LockAssumption
  <2>7. \A d \in CPU, l \in Lock :
            InHeld(d, l)' => cpu'[l] = d \/ (Top(d)'.pc \in {"own", "drop"} /\ Top(d)'.lk = l)
    <3>1. Top(c).lk = k
      BY Zenon DEF k
    <3> QED
      BY <1>1, <2>2, <2>3, <3>1 DEF OwnerInv
  <2>8. \A d \in CPU : Top(d)'.pc = "drop" => cpu'[Top(d)'.lk] = NULL
    BY <1>1, <2>3 DEF OwnerInv
  <2> QED
    BY <2>4, <2>5, <2>6, <2>7, <2>8, Zenon DEF OwnerInv
<1> QED
  BY <1>6, <1>7, <1>8, <1>10, <1>11, <1>12, OneMoves DEF Local, Replaced
(* popcli finds the flag off and its count positive, and turns the flag on *)
(* when the last lock of a thread is released.                             *)
LEMMA popcliKeeps ==
    ASSUME LockAssumption, SpinInv, NEW c \in CPU, popcli(c)
    PROVE  SpinInv'
<1> DEFINE f == [Top(c) EXCEPT !.pc = "run", !.lk = NULL]
<1>1. TypeOK /\ FrameInv(c) /\ OrderInv(c) /\ FlagInv(c) /\ OwnerInv
  BY DEF SpinInv
<1>2. Top(c) \in Context /\ Top(c).pc = "popcli" /\ Top(c).held \in Seq(Lock) /\ Len(Top(c).held) \in Nat
  BY <1>1, TopType DEF popcli, At, Context
<1>3. f \in Context /\ f.held = Top(c).held /\ f.pc = "run"
  BY <1>2, Zenon DEF Context
<1>4. SetTop(c, f) /\ UNCHANGED <<locked, cpu, intena>>
  BY DEF popcli
<1>5. Replaced(c, f) /\ FrameInv(c)'
  BY <1>1, <1>3, <1>4, TopSet, Zenon
<1> HIDE DEF f
<1>6. ncli[c] = Len(Top(c).held) + 1 /\ ncli[c] > 0 /\ ncli[c] # 0
  BY <1>1, <1>2 DEF FlagInv
<1>7. ~FL_IF[c] /\ (intena[c] <=> Len(frames[c]) = 1)
  BY <1>1, <1>6, Zenon DEF FlagInv
<1>8. /\ ncli' \in [CPU -> Nat] /\ ncli'[c] = Len(f.held)
      /\ \A d \in CPU \ {c} : ncli'[d] = ncli[d]
  <2>1. ncli[c] - 1 = Len(f.held) /\ ncli[c] - 1 \in Nat
    BY <1>2, <1>3, <1>6
  <2>2. ncli' = [ncli EXCEPT ![c] = ncli[c] - 1] /\ ncli \in [CPU -> Nat]
    BY <1>1 DEF popcli, TypeOK
  <2> QED
    BY <2>1, <2>2
<1>9. /\ FL_IF' \in [CPU -> BOOLEAN] /\ (FL_IF'[c] <=> (ncli[c] = 1 /\ intena[c]))
      /\ \A d \in CPU \ {c} : FL_IF'[d] = FL_IF[d]
  BY <1>1, Zenon DEF popcli, TypeOK
<1>10. panicked' = FALSE
  BY <1>6, <1>7, Zenon DEF popcli
<1>11. TypeOK'
  BY <1>1, <1>4, <1>5, <1>8, <1>9, <1>10 DEF TypeOK, Replaced
<1>12. OrderInv(c)'
  BY <1>1, <1>3, <1>5 DEF OrderInv, Replaced
<1>13. FlagInv(c)'
  <2>1. Top(c)' = f /\ Len(frames[c])' = Len(frames[c])
    BY <1>5 DEF Replaced
  <2>2. ncli[c] = 1 <=> ncli'[c] = 0
    BY <1>2, <1>3, <1>6, <1>8
  <2>3. ncli'[c] = Len(f.held) + 0
    BY <1>2, <1>3, <1>8
  <2>4. FL_IF'[c] <=> (Len(frames[c]) = 1 /\ ncli'[c] = 0)
    BY <1>7, <1>9, <2>2
  <2>5. intena'[c] <=> Len(frames[c]) = 1
    BY <1>4, <1>7, Zenon
  <2> QED
    BY <1>3, <2>1, <2>3, <2>4, <2>5, Zenon DEF FlagInv
<1>14. OwnerInv'
  BY <1>1, <1>2, <1>3, <1>4, <1>5, OwnersKeep DEF Replaced
<1> QED
  BY <1>4, <1>5, <1>8, <1>9, <1>11, <1>12, <1>13, <1>14, OneMoves DEF Local, Replaced

-----------------------------------------------------------------------------
(* A thread is interrupted outside acquire and release, or before cli. *)
LEMMA InterruptKeeps ==
    ASSUME LockAssumption, SpinInv, NEW c \in CPU, Interrupt(c)
    PROVE  SpinInv'
<1>1. TypeOK /\ FrameInv(c) /\ OrderInv(c) /\ FlagInv(c) /\ OwnerInv
  BY DEF SpinInv
<1>2. /\ Top(c) \in Context /\ Top(c).held \in Seq(Lock) /\ Len(Top(c).held) \in Nat
      /\ frames[c] \in Seq(Context) /\ Len(frames[c]) = 1 /\ Top(c) = frames[c][1] /\ FL_IF[c]
  <2>1. Top(c) \in Context /\ frames[c] \in Seq(Context)
    BY <1>1, TopType
  <2>2. Len(frames[c]) = 1 /\ FL_IF[c]
    BY DEF Interrupt
  <2>3. Top(c).held \in Seq(Lock)
    BY <2>1 DEF Context
  <2> QED
    BY <2>1, <2>2, <2>3 DEF Top
<1>3. Idle \in Context /\ Idle.pc = "run" /\ Idle.held = <<>> /\ Len(Idle.held) = 0
  BY DEF Idle, Context
<1>4. ncli[c] = 0 /\ Len(Top(c).held) = 0 /\ Top(c).pc \notin {"test", "xchg", "popcli"}
  <2>1. ncli[c] = 0
    BY <1>1, <1>2, Zenon DEF FlagInv
  <2>2. ncli[c] = Len(Top(c).held) + (IF Top(c).pc \in {"test", "xchg", "popcli"} THEN 1 ELSE 0)
    BY <1>1 DEF FlagInv
  <2>3. CASE Top(c).pc \in {"test", "xchg", "popcli"}
    <3>1. ncli[c] = Len(Top(c).held) + 1
      BY <2>2, <2>3
    <3> QED
      BY <1>2, <2>1, <3>1
  <2>4. CASE Top(c).pc \notin {"test", "xchg", "popcli"}
    <3>1. ncli[c] = Len(Top(c).held) + 0
      BY <2>2, <2>4
    <3>2. Len(Top(c).held) = 0
      BY <1>2, <2>1, <3>1
    <3> QED
      BY <2>1, <2>4, <3>2
  <2> QED
    BY <2>3, <2>4
<1>5. Top(c).held = <<>>
  BY <1>2, <1>4, EmptySeq, Zenon
<1>6. Top(c).pc \in {"run", "cli"}
  BY <1>1, <1>2, <1>4 DEF OrderInv, Context
<1>7. Top(c).pc = "cli" => Top(c).lk \in Lock /\ Top(c).eflags
  BY <1>1, <1>2 DEF OrderInv, FlagInv
<1>8. /\ Append(frames[c], Idle) \in Seq(Context)
      /\ Len(Append(frames[c], Idle)) = 2
      /\ Append(frames[c], Idle)[1] = frames[c][1]
      /\ Append(frames[c], Idle)[2] = Idle
  BY <1>2, <1>3, AppendProperties
<1>9. /\ frames' = [frames EXCEPT ![c] = Append(frames[c], Idle)]
      /\ FL_IF' = [FL_IF EXCEPT ![c] = FALSE]
      /\ UNCHANGED <<locked, cpu, ncli, intena, panicked>>
  BY Zenon DEF Interrupt
<1>10. /\ frames' \in [CPU -> Seq(Context)] /\ frames'[c] = Append(frames[c], Idle)
       /\ Top(c)' = Idle
       /\ \A d \in CPU \ {c} : frames'[d] = frames[d] /\ Top(d)' = Top(d)
  BY <1>1, <1>8, <1>9 DEF TypeOK, Top
<1>11. /\ FL_IF' \in [CPU -> BOOLEAN] /\ FL_IF'[c] = FALSE
       /\ \A d \in CPU \ {c} : FL_IF'[d] = FL_IF[d]
  BY <1>1, <1>9 DEF TypeOK
<1>12. TypeOK'
  BY <1>1, <1>9, <1>10, <1>11, Zenon DEF TypeOK
<1>13. FrameInv(c)'
  BY <1>2, <1>5, <1>6, <1>7, <1>8, <1>10, Zenon DEF FrameInv
<1>14. OrderInv(c)'
  BY <1>3, <1>10 DEF OrderInv
<1>15. FlagInv(c)'
  <2>1. Len(frames[c])' = 2 /\ ncli'[c] = 0 /\ ncli'[c] = Len(Idle.held) + 0
    BY <1>3, <1>4, <1>8, <1>9, <1>10
  <2>2. ~(2 = 1) /\ ~(0 > 0)
    OBVIOUS
  <2> QED
    BY <1>3, <1>10, <1>11, <2>1, <2>2, Zenon DEF FlagInv
<1>16. OwnerInv'
  BY <1>1, <1>3, <1>5, <1>6, <1>9, <1>10, OwnersKeep
<1> QED
  BY <1>9, <1>10, <1>11, <1>12, <1>13, <1>14, <1>15, <1>16, OneMoves, Zenon DEF Local

(* The interrupted thread goes on with the flag on. *)
LEMMA ReturnKeeps ==
    ASSUME LockAssumption, SpinInv, NEW c \in CPU, Return(c)
    PROVE  SpinInv'
<1> DEFINE f == frames[c][1]
<1>1. TypeOK /\ FrameInv(c) /\ OrderInv(c) /\ FlagInv(c) /\ OwnerInv
  BY DEF SpinInv
<1>2. Len(frames[c]) = 2 /\ frames[c] \in Seq(Context) /\ Top(c).pc = "run" /\ Top(c).held = <<>>
  BY <1>1, TopType DEF Return, At
<1>3. f \in Context
  <2>1. 1 \in 1..Len(frames[c])
    BY <1>2
  <2> QED
    BY <1>2, <2>1, ElementOfSeq
<1>4. f.held = <<>> /\ f.pc \in {"run", "cli"} /\ (f.pc = "cli" => f.lk \in Lock /\ f.eflags)
  BY <1>1, <1>2 DEF FrameInv
<1>5. ncli[c] = 0
  BY <1>1, <1>2 DEF FlagInv
<1>6. /\ frames' = [frames EXCEPT ![c] = <<f>>]
      /\ FL_IF' = [FL_IF EXCEPT ![c] = TRUE]
      /\ UNCHANGED <<locked, cpu, ncli, intena, panicked>>
  BY DEF Return
<1> HIDE DEF f
<1>7. <<f>> \in Seq(Context) /\ Len(<<f>>) = 1 /\ <<f>>[1] = f
  BY <1>3
<1>8. /\ frames' \in [CPU -> Seq(Context)] /\ frames'[c] = <<f>>
      /\ Top(c)' = f
      /\ \A d \in CPU \ {c} : frames'[d] = frames[d] /\ Top(d)' = Top(d)
  BY <1>1, <1>6, <1>7 DEF TypeOK, Top
<1>9. /\ FL_IF' \in [CPU -> BOOLEAN] /\ FL_IF'[c] = TRUE
      /\ \A d \in CPU \ {c} : FL_IF'[d] = FL_IF[d]
  BY <1>1, <1>6 DEF TypeOK
<1>10. TypeOK'
  BY <1>1, <1>6, <1>8, <1>9 DEF TypeOK
<1>11. FrameInv(c)'
  BY <1>7, <1>8 DEF FrameInv
<1>12. OrderInv(c)'
  BY <1>4, <1>8 DEF OrderInv
<1>13. FlagInv(c)'
  <2>1. Len(frames[c])' = 1 /\ ncli'[c] = 0 /\ ncli'[c] = Len(f.held) + 0 /\ Top(c)' = f
    BY <1>4, <1>5, <1>6, <1>7, <1>8
  <2>2. ~(0 > 0)
    OBVIOUS
  <2> QED
    BY <1>4, <1>9, <2>1, <2>2, Zenon DEF FlagInv
<1>14. OwnerInv'
  BY <1>1, <1>2, <1>4, <1>6, <1>8, OwnersKeep
<1> QED
  BY <1>6, <1>8, <1>9, <1>10, <1>11, <1>12, <1>13, <1>14, OneMoves, Zenon DEF Local

-----------------------------------------------------------------------------
LEMMA InitHolds == ASSUME LockAssumption, Init PROVE SpinInv
<1>1. Idle \in Context /\ Idle.pc = "run" /\ Idle.held = <<>> /\ Len(Idle.held) = 0
  BY DEF Idle, Context
<1>2. <<Idle>> \in Seq(Context) /\ Len(<<Idle>>) = 1 /\ <<Idle>>[1] = Idle
  BY <1>1
<1>3. \A c \in CPU : frames[c] = <<Idle>> /\ Top(c) = Idle
  BY <1>2, Zenon DEF Init, Top
<1>4. TypeOK
  BY <1>2 DEF Init, TypeOK
<1>5. \A c \in CPU : FrameInv(c) /\ OrderInv(c)
  <2> SUFFICES ASSUME NEW c \in CPU PROVE FrameInv(c) /\ OrderInv(c)
    BY Zenon
  <2>1. FrameInv(c)
    <3>1. Len(frames[c]) = 1
      BY <1>2, <1>3
    <3>2. ~(Len(frames[c]) = 2)
      BY <3>1
    <3> QED
      BY <3>1, <3>2 DEF FrameInv
  <2>2. OrderInv(c)
    BY <1>1, <1>3 DEF OrderInv
  <2> QED
    BY <2>1, <2>2
<1>6. \A c \in CPU : FlagInv(c)
  <2> SUFFICES ASSUME NEW c \in CPU PROVE FlagInv(c)
    BY Zenon
  <2>1. Len(frames[c]) = 1 /\ ncli[c] = 0 /\ ncli[c] = Len(Idle.held) + 0 /\ FL_IF[c] = TRUE
    BY <1>1, <1>2, <1>3 DEF Init
  <2>2. ~(0 > 0)
    OBVIOUS
  <2> QED
    BY <1>1, <1>3, <2>1, <2>2, Zenon DEF FlagInv
<1>7. OwnerInv
  <2>1. \A c \in CPU : \A l : ~InHeld(c, l)
    BY <1>1, <1>3, HeldTop DEF Holder
  <2> QED
    BY <1>1, <1>3, <2>1, Zenon DEF OwnerInv, Init, LockAssumption
<1> QED
  BY <1>4, <1>5, <1>6, <1>7 DEF SpinInv

LEMMA StepKeeps == ASSUME LockAssumption, SpinInv, [Next]_vars PROVE SpinInv'
<1>1. CASE Next
  <2>1. PICK c \in CPU :
            \/ \E l \in Lock : acquire(c, l)
            \/ pushcli(c) \/ Test(c) \/ xchg(c) \/ Own(c)
            \/ release(c) \/ Drop(c) \/ popcli(c)
            \/ Interrupt(c) \/ Return(c)
    BY <1>1, Zenon DEF Next
  <2> QED
    BY <2>1, acquireKeeps, pushcliKeeps, TestKeeps, xchgKeeps, OwnKeeps, releaseKeeps,
       DropKeeps, popcliKeeps, InterruptKeeps, ReturnKeeps, Zenon
<1>2. CASE UNCHANGED vars
  <2>1. UNCHANGED <<locked, cpu, FL_IF, ncli, intena, frames, panicked>>
    BY <1>2 DEF vars
  <2>2. TypeOK'
    BY <2>1 DEF SpinInv, TypeOK
  <2>3. ASSUME NEW c \in CPU PROVE FrameInv(c)' /\ OrderInv(c)' /\ FlagInv(c)'
    BY <2>1, OthersKeep DEF SpinInv, Local
  <2>4. \A c : Top(c)' = Top(c) /\ \A l : InHeld(c, l)' <=> InHeld(c, l)
    BY <2>1, Zenon DEF Top, InHeld, Holds
  <2>5. OwnerInv'
    BY <2>1, <2>4 DEF SpinInv, OwnerInv
  <2> QED
    BY <2>2, <2>3, <2>5 DEF SpinInv
<1> QED
  BY <1>1, <1>2

(***************************************************************************)
(* The inductive invariant of spinlock.c holds for any set of processors   *)
(* and any set of locks, with interrupts taken wherever they are enabled.  *)
(***************************************************************************)
THEOREM SpinInvariant == ASSUME LockAssumption PROVE Spec => []SpinInv
<1>1. Init => SpinInv
  BY InitHolds
<1>2. SpinInv /\ [Next]_vars => SpinInv'
  BY StepKeeps
<1> QED
  BY <1>1, <1>2, PTL DEF Spec

(* An interrupted context holds nothing. *)
LEMMA HoldsOnTop ==
    ASSUME SpinInv, NEW c \in CPU, NEW l, NEW i \in 1..Len(frames[c]), Holds(c, i, l)
    PROVE  i = Len(frames[c]) /\ InHeld(c, l)
<1>1. FrameInv(c)
  BY DEF SpinInv
<1>2. CASE i = Len(frames[c])
  BY <1>2 DEF InHeld
<1>3. CASE i # Len(frames[c])
  <2>1. i = 1 /\ Len(frames[c]) = 2
    <3>1. Len(frames[c]) = 1 \/ Len(frames[c]) = 2
      BY <1>1 DEF FrameInv
    <3>2. ASSUME Len(frames[c]) = 1 PROVE FALSE
      <4>1. i \in 1..1
        BY <3>2
      <4> QED
        BY <1>3, <3>2, <4>1
    <3>3. ASSUME Len(frames[c]) = 2 PROVE i = 1
      <4>1. i \in 1..2
        BY <3>3
      <4> QED
        BY <1>3, <3>3, <4>1
    <3> QED
      BY <3>1, <3>2, <3>3
  <2>2. frames[c][1].held = <<>>
    BY <1>1, <2>1 DEF FrameInv
  <2> QED
    BY <2>1, <2>2 DEF Holds
<1> QED
  BY <1>2, <1>3

(***************************************************************************)
(* acquire and release: no lock has two holders, no context waits for a    *)
(* lock of its own processor, and none of the panics of spinlock.c occurs. *)
(***************************************************************************)
THEOREM ExclusionHolds == ASSUME LockAssumption PROVE Spec => []Exclusion
<1>1. SpinInv => Exclusion
  <2> SUFFICES ASSUME SpinInv PROVE Exclusion
    OBVIOUS
  <2>1. ~panicked
    BY Zenon DEF SpinInv, TypeOK
  <2>2. ASSUME NEW c \in CPU, NEW d \in CPU, NEW l \in Lock,
               NEW i \in 1..Len(frames[c]), NEW j \in 1..Len(frames[d]),
               Holds(c, i, l), Holds(d, j, l)
        PROVE  c = d /\ i = j
    <3>1. i = Len(frames[c]) /\ InHeld(c, l) /\ j = Len(frames[d]) /\ InHeld(d, l)
      BY <2>2, HoldsOnTop
    <3> QED
      BY <3>1 DEF SpinInv, OwnerInv
  <2> QED
    BY <2>1, <2>2 DEF Exclusion
<1> QED
  BY <1>1, SpinInvariant, PTL

(***************************************************************************)
(* pushcli and popcli: when the last lock is released the interrupt flag   *)
(* is what it was before the first was taken.                              *)
(***************************************************************************)
THEOREM FlagRestoredHolds == ASSUME LockAssumption PROVE Spec => []FlagRestored
<1>1. SpinInv => FlagRestored
  <2> SUFFICES ASSUME SpinInv, NEW c \in CPU, Top(c).pc = "run"
               PROVE  FL_IF[c] = (Len(frames[c]) = 1 /\ Top(c).held = <<>>)
    BY DEF FlagRestored
  <2>1. TypeOK /\ FrameInv(c) /\ FlagInv(c)
    BY DEF SpinInv
  <2>2. Top(c).held \in Seq(Lock) /\ FL_IF[c] \in BOOLEAN
    BY <2>1, TopType, Zenon DEF Context, TypeOK
  <2>3. ncli[c] = Len(Top(c).held)
    BY <2>1, <2>2 DEF FlagInv
  <2>4. Len(Top(c).held) = 0 <=> Top(c).held = <<>>
    BY <2>2, EmptySeq
  <2>5. FL_IF[c] <=> (Len(frames[c]) = 1 /\ ncli[c] = 0)
    BY <2>1 DEF FlagInv
  <2> QED
    BY <2>2, <2>3, <2>4, <2>5
<1> QED
  BY <1>1, SpinInvariant, PTL
=============================================================================
