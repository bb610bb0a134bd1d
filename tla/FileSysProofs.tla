--------------------------- MODULE FileSysProofs ----------------------------
(***************************************************************************)
(* The steps that take a descriptor - open, dup, pipe and fork - and those *)
(* that begin a call preserve RefInv, so it is an invariant of FileSys:    *)
(* the reference counts of kernel/fs.c and kernel/file.c are exact, for    *)
(* any number of processes, inodes, file structures and descriptors, and   *)
(* any set of path calls.                                                  *)
(***************************************************************************)
EXTENDS FileSysPathProofs

USE Zenon

-----------------------------------------------------------------------------
(* The other calls on files. *)

(* The lowest free file structure and the lowest free descriptor. *)
LEMMA FreeFile ==
  ASSUME RefInv, FreeFiles # {}
  PROVE  Min(FreeFiles) \in File /\ file[Min(FreeFiles)].ref = 0
<1>1. FreeFiles \in SUBSET Nat
  BY SMT DEF FreeFiles, File
<1>2. Min(FreeFiles) \in FreeFiles
  BY <1>1, MinIn
<1> QED
  BY <1>2 DEF FreeFiles

(* The lowest free descriptor. *)
LEMMA FreeFd ==
  ASSUME NEW p, FreeFds(p) # {}
  PROVE  Min(FreeFds(p)) \in FD /\ ofile[p][Min(FreeFds(p))] = None
<1>1. FreeFds(p) \in SUBSET Nat
  BY SMT DEF FreeFds, FD
<1>2. Min(FreeFds(p)) \in FreeFds(p)
  BY <1>1, MinIn
<1> QED
  BY <1>2 DEF FreeFds

(* The reference of open goes to the file structure, or to iput. *)
LEMMA openInv ==
  ASSUME RefInv, NEW p \in Proc, open(p)
  PROVE  RefInv'
<1> DEFINE o == Cur(p)  i == o.h[1]
<1>1. Now(p, "open") /\ "open" \in Ends \ {"chdir", "dead"} /\ "open" \in OneRef
  BY DEF open, Ends, OneRef
<1>2. i \in Inum /\ \A j : N(o.h, j) = Is(i, j)
  BY <1>1, OneOp
<1>3. /\ UNCHANGED <<ents, ref, alive, cwd>>
  BY DEF open, disk
<1>4. CASE FreeFiles = {} \/ FreeFds(p) = {}
  <2>1. Then(p, <<Put(i)>>) /\ ofile' = ofile /\ file' = file
    BY <1>4 DEF open
  <2>2. Mid(Put(i)) /\ \A j : N(Put(i).h, j) = Is(i, j)
    BY <1>2, PutOp
  <2>3. Fin(Put(i)) /\ \A j : N(Put(i).h, j) = N(o.h, j)
    BY <1>2, <2>2, MidFin
  <2>4. EntsOK' /\ ref' = ref /\ UNCHANGED procs
    BY <1>3, <2>1, SameEnts DEF procs
  <2> HIDE DEF i
  <2> QED
    BY <1>1, <2>1, <2>3, <2>4, LastOne, SMTT(30)
<1>5. CASE ~(FreeFiles = {} \/ FreeFds(p) = {})
  <2> DEFINE f == Min(FreeFiles)  fd == Min(FreeFds(p))  v == [ref |-> 1, ip |-> i]
  <2>1. /\ Then(p, <<>>) /\ ofile' = [ofile EXCEPT ![p][fd] = f] /\ file' = [file EXCEPT ![f] = v]
    BY <1>5 DEF open
  <2>2. f \in File /\ file[f].ref = 0 /\ fd \in FD /\ ofile[p][fd] = None
    BY <1>5, FreeFile, FreeFd
  <2> HIDE DEF f, fd, i
  <2>3. v \in [ref : Int, ip : Inum \cup {None}] /\ v.ref = 1 /\ v.ip = i
    BY <1>2, SMT
  <2> HIDE DEF v
  <2>4. <<>> \in Seq(Ops) /\ Plain(<<>>) /\ \A j : Cnt(<<>>, j) = 0
    BY NoneList
  <2>5. todo' = [todo EXCEPT ![p] = <<>>] /\ \A j : Cnt(todo[p], j) = N(o.h, j)
    BY <1>1, <2>1, <2>4, LastIs
  <2>6. alive[p] /\ cwd[p] # None
    BY <1>1, CurrentOp
  <2>7. DescMove(p, fd, f, f, v)
    <3>1. \A g \in File : file[g].ref \in Int /\ g # None
      BY FiniteSets_ DEF RefInv, RefTypeOK
    <3>2. \A g \in File : (IF g = f THEN v.ref ELSE file[g].ref) = file[g].ref + Is(f, g) - Is(None, g)
      BY <2>2, <2>3, <3>1, SMT DEF Is
    <3> QED
      BY <2>2, <3>2 DEF DescMove
  <2>8. RefMove(p, <<>>, f, v)
    <3> SUFFICES ASSUME NEW j \in Inum
                 PROVE  Ind(v.ref > 0 /\ v.ip = j) + Cnt(<<>>, j) =
                          Ind(file[f].ref > 0 /\ file[f].ip = j) + Cnt(todo[p], j)
      BY DEF RefMove
    <3>1. Cnt(<<>>, j) = 0 /\ Cnt(todo[p], j) = Is(i, j)
      BY <1>2, <2>4, <2>5
    <3> QED
      BY <2>2, <2>3, <3>1, SMT DEF Ind, Is
  <2>9. f \in File \cup {None}
    BY <2>2
  <2> QED
    BY <1>3, <2>1, <2>2, <2>3, <2>4, <2>5, <2>6, <2>7, <2>8, <2>9, FileInv, ZenonT(30)
<1> QED
  BY <1>4, <1>5

(* An idle process enters nothing. *)
LEMMA StaysIdle ==
  ASSUME RefInv, NEW p \in Proc, Ready(p), UNCHANGED todo
  PROVE  todo' = [todo EXCEPT ![p] = <<>>]
<1>1. todo \in [Proc -> Seq(Ops)] /\ todo[p] = <<>> /\ todo' = todo
  BY Idle DEF RefInv, RefTypeOK
<1> QED
  BY <1>1

(* sys_dup. *)
LEMMA dupInv ==
  ASSUME RefInv, NEW p \in Proc, NEW k \in FD, dup(p, k)
  PROVE  RefInv'
<1> DEFINE f == ofile[p][k]  fd == Min(FreeFds(p))  w == file[f]  v == [w EXCEPT !.ref = @ + 1]
<1>1. /\ Ready(p) /\ f # None /\ FreeFds(p) # {} /\ UNCHANGED <<ents, ref, alive, cwd>>
      /\ UNCHANGED todo /\ ofile' = [ofile EXCEPT ![p][fd] = f]
      /\ file' = [file EXCEPT ![f].ref = @ + 1]
  BY DEF dup, disk, cache
<1>2. file' = [file EXCEPT ![f] = v]
  BY <1>1
<1>3. f \in File /\ w.ref > 0 /\ w \in [ref : Int, ip : Inum \cup {None}]
  BY <1>1, NamedFile
<1>4. fd \in FD /\ ofile[p][fd] = None
  BY <1>1, FreeFd
<1>5. alive[p] /\ cwd[p] # None /\ \A j : Cnt(todo[p], j) = 0
  BY <1>1, Idle, FiniteSets_
<1>6. todo' = [todo EXCEPT ![p] = <<>>]
  BY <1>1, StaysIdle
<1>7. <<>> \in Seq(Ops) /\ Plain(<<>>) /\ \A j : Cnt(<<>>, j) = 0
  BY NoneList
<1> HIDE DEF f, fd, w
<1>8. v \in [ref : Int, ip : Inum \cup {None}] /\ v.ref = w.ref + 1 /\ v.ip = w.ip /\ w.ref \in Int
  BY <1>3, SMT
<1> HIDE DEF v
<1>9. DescMove(p, fd, f, f, v)
  <2>1. \A g \in File : file[g].ref \in Int /\ g # None
    BY FiniteSets_ DEF RefInv, RefTypeOK
  <2>2. \A g \in File : (IF g = f THEN v.ref ELSE file[g].ref) = file[g].ref + Is(f, g) - Is(None, g)
    BY <1>3, <1>8, <2>1, SMT DEF Is, w
  <2> QED
    BY <1>4, <2>2 DEF DescMove
<1>10. RefMove(p, <<>>, f, v)
  <2> SUFFICES ASSUME NEW j \in Inum
               PROVE  Ind(v.ref > 0 /\ v.ip = j) + Cnt(<<>>, j) =
                        Ind(w.ref > 0 /\ w.ip = j) + Cnt(todo[p], j)
    BY DEF RefMove, w
  <2>1. Cnt(<<>>, j) = 0 /\ Cnt(todo[p], j) = 0
    BY <1>5, <1>7
  <2> QED
    BY <1>3, <1>8, <2>1, SMT DEF Ind
<1>11. f \in File \cup {None} /\ f \in File
  BY <1>3
<1> QED
  BY <1>1, <1>2, <1>4, <1>5, <1>6, <1>7, <1>8, <1>9, <1>10, <1>11, FileInv, ZenonT(30)

(* An idle process makes a call that holds no reference yet. *)
LEMMA EntersInv ==
  ASSUME RefInv, NEW p \in Proc, Ready(p), NEW s \in Seq(Ops), todo' = [todo EXCEPT ![p] = s],
         Plain(s), \A j : Cnt(s, j) = 0, UNCHANGED <<ents, ref, procs>>
  PROVE  RefInv'
<1>1. alive[p] /\ cwd[p] # None /\ \A j : Cnt(todo[p], j) = 0
  BY Idle, FiniteSets_
<1>2. /\ alive' = alive /\ cwd' = cwd /\ UNCHANGED <<ents, ref, ofile, file>>
  BY DEF procs
<1>3. UNCHANGED <<alive, cwd>> /\ \A q \in Proc \ {p} : ofile'[q] = ofile[q]
  BY <1>2
<1>4. TodoInv' /\ CwdInv'
  BY <1>1, <1>3, EntersOK
<1>5. alive \in [Proc -> BOOLEAN] /\ cwd \in [Proc -> Inum \cup {None}]
  BY DEF RefInv, RefTypeOK
<1>6. /\ cwd[p] \in Inum \cup {None} /\ cwd' = [cwd EXCEPT ![p] = cwd[p]]
      /\ alive' \in [Proc -> BOOLEAN]
  BY <1>2, <1>5
<1>7. \A j \in Inum : Is(cwd[p], j) + Cnt(s, j) = Is(cwd[p], j) + Cnt(todo[p], j)
  BY <1>1
<1>8. RefTypeOK' /\ RefsCounted'
  BY <1>2, <1>6, <1>7, CwdStep
<1> QED
  BY <1>4, <1>8 DEF RefInv

(* A call on a path name begins. *)
LEMMA StartInv ==
  ASSUME RefInv, NEW p \in Proc, NEW c \in Calls, Start(p, c)
  PROVE  RefInv'
<1> DEFINE w == Op("namex", <<>>, c, c.path)  x == Begin
<1>1. Ready(p) /\ UNCHANGED <<ents, ref, procs>>
  BY DEF Start, disk, cache
<1>2. todo' = [todo EXCEPT ![p] = <<x, w>>] \/ todo' = [todo EXCEPT ![p] = <<w>>]
  BY DEF Start, Enter
<1>3. c.path \in Seq(Names \cup Dots)
  BY FileSysAssumption
<1>4. <<>> \in Seq(Inum) /\ Hand(<<>>, c)
  BY SMT DEF Hand
<1>5. Fin(w) /\ w.h = <<>>
  BY <1>3, <1>4, PathOps
<1>6. Mid(x) /\ \A j : N(x.h, j) = 0 /\ N(w.h, j) = 0
  BY <1>5, TransOps, Holds
<1> HIDE DEF w, x
<1>7. CASE todo' = [todo EXCEPT ![p] = <<w>>]
  <2> DEFINE s == <<w>>
  <2>1. s \in Seq(Ops) /\ Plain(s) /\ \A j : Cnt(s, j) = N(w.h, j)
    BY <1>5, FinList
  <2>2. todo' = [todo EXCEPT ![p] = s]
    BY <1>7
  <2> HIDE DEF s
  <2>3. \A j : Cnt(s, j) = 0
    BY <1>6, <2>1
  <2> QED
    BY <1>1, <2>1, <2>2, <2>3, EntersInv, ZenonT(30)
<1>8. CASE todo' = [todo EXCEPT ![p] = <<x, w>>]
  <2> DEFINE s == <<x, w>>
  <2>1. s \in Seq(Ops) /\ Plain(s) /\ \A j : Cnt(s, j) = N(x.h, j) + N(w.h, j)
    BY <1>5, <1>6, TwoList
  <2>2. todo' = [todo EXCEPT ![p] = s]
    BY <1>8
  <2> HIDE DEF s
  <2>3. \A j : Cnt(s, j) = 0
    <3>1. \A j : Cnt(s, j) = 0 + 0
      BY <1>6, <2>1
    <3> QED
      BY <3>1, SMT
  <2> QED
    BY <1>1, <2>1, <2>2, <2>3, EntersInv, ZenonT(30)
<1> QED
  BY <1>2, <1>7, <1>8

(* An operation on the inode of an open file owns nothing. *)
LEMMA OnNothing ==
  ASSUME NEW do \in OpNames, NEW i \in Inum
  PROVE  /\ Op(do, <<>>, On(i), <<>>) \in Ops
         /\ Op(do, <<>>, On(i), <<>>).do = do /\ Op(do, <<>>, On(i), <<>>).h = <<>>
<1>1. <<>> \in Seq(Inum) /\ <<>> \in Seq(Names \cup Dots)
  BY SMT
<1>2. On(i) \in Calls \cup {On(k) : k \in Inum \cup {None}}
  OBVIOUS
<1> QED
  BY <1>1, <1>2 DEF Op, Ops, OpNames

(* writei and readi as operations. *)
LEMMA InodeOps ==
  ASSUME NEW i \in Inum, NEW do \in {"writei", "readi"}
  PROVE  /\ Mid(Op(do, <<>>, On(i), <<>>))
         /\ \A j : N(Op(do, <<>>, On(i), <<>>).h, j) = 0
<1> DEFINE o == Op(do, <<>>, On(i), <<>>)
<1>1. /\ do \in OpNames /\ do \notin Ends \cup {"putcwd"} /\ do \notin OneRef /\ do \notin TwoRef
      /\ do \notin {"namex", "walk", "link1"}
      /\ do \notin {"link2", "unlink1", "unlink2", "create1", "create3"}
  BY DEF OpNames, NoRef, OneRef, TwoRef, Ends
<1>3. o \in Ops /\ o.do = do /\ o.h = <<>>
  BY <1>1, OnNothing
<1> HIDE DEF o
<1>4. OpOK(o)
  BY <1>1, <1>3 DEF OpOK
<1>5. Mid(o) /\ \A j : N(o.h, j) = 0
  BY <1>1, <1>3, <1>4, Holds DEF Mid
<1> QED
  BY <1>5 DEF o

(* The inode of an open file that is not a pipe. *)
LEMMA FileInode ==
  ASSUME RefInv, NEW p \in Proc, NEW fd \in FD, ofile[p][fd] # None, file[ofile[p][fd]].ip # None
  PROVE  file[ofile[p][fd]].ip \in Inum
<1> DEFINE v == file[ofile[p][fd]]
<1>1. v \in [ref : Int, ip : Inum \cup {None}]
  BY NamedFile
<1>2. v.ip \in Inum \cup {None} /\ v.ip # None
  BY <1>1
<1> QED
  BY <1>2

(* sys_write begins. *)
LEMMA writeInv ==
  ASSUME RefInv, NEW p \in Proc, NEW fd \in FD, write(p, fd)
  PROVE  RefInv'
<1> DEFINE i == file[ofile[p][fd]].ip  x == Begin  y == Op("writei", <<>>, On(i), <<>>)  z == Commit
           s == <<x, y, z>>
<1>1. /\ Ready(p) /\ ofile[p][fd] # None /\ i # None /\ UNCHANGED <<ents, ref, procs>>
      /\ todo' = [todo EXCEPT ![p] = s]
  BY DEF write, Enter, disk, cache
<1>2. i \in Inum
  BY <1>1, FileInode
<1> HIDE DEF i
<1>3. Mid(x) /\ Mid(z) /\ \A j : N(x.h, j) = 0 /\ N(z.h, j) = 0
  BY TransOps
<1>4. Mid(y) /\ \A j : N(y.h, j) = 0
  BY <1>2, InodeOps
<1> HIDE DEF x, y, z
<1>5. Fin(z)
  BY <1>3, MidFin
<1>6. s \in Seq(Ops) /\ Plain(s) /\ \A j : Cnt(s, j) = N(x.h, j) + (N(y.h, j) + N(z.h, j))
  BY <1>3, <1>4, <1>5, ThreeList, SMT
<1> HIDE DEF s
<1>7. \A j : Cnt(s, j) = 0
  <2>1. \A j : Cnt(s, j) = 0 + (0 + 0)
    BY <1>3, <1>4, <1>6
  <2> QED
    BY <2>1, SMT
<1> QED
  BY <1>1, <1>6, <1>7, EntersInv

(* sys_read begins. *)
LEMMA readInv ==
  ASSUME RefInv, NEW p \in Proc, NEW fd \in FD, read(p, fd)
  PROVE  RefInv'
<1> DEFINE i == file[ofile[p][fd]].ip  y == Op("readi", <<>>, On(i), <<>>)  s == <<y>>
<1>1. /\ Ready(p) /\ ofile[p][fd] # None /\ i # None /\ UNCHANGED <<ents, ref, procs>>
      /\ todo' = [todo EXCEPT ![p] = s]
  BY DEF read, Enter, disk, cache
<1>2. i \in Inum
  BY <1>1, FileInode
<1> HIDE DEF i
<1>3. Mid(y) /\ \A j : N(y.h, j) = 0
  BY <1>2, InodeOps
<1> HIDE DEF y
<1>4. s \in Seq(Ops) /\ Plain(s) /\ \A j : Cnt(s, j) = N(y.h, j)
  BY <1>3, MidFin, FinList
<1> HIDE DEF s
<1>5. \A j : Cnt(s, j) = 0
  BY <1>3, <1>4
<1> QED
  BY <1>1, <1>4, <1>5, EntersInv

(* The two lowest members of a set of numbers. *)
LEMMA TwoMins ==
  ASSUME NEW S \in SUBSET Nat, IsFiniteSet(S), Cardinality(S) >= 2
  PROVE  Min(S) \in S /\ Min(S \ {Min(S)}) \in S /\ Min(S \ {Min(S)}) # Min(S)
<1> DEFINE m == Min(S)  T == S \ {m}
<1>1. Cardinality(S) \in Nat /\ Cardinality({}) = 0
  BY FS_CardinalityType, FS_EmptySet
<1>2. S # {}
  BY <1>1, SMT
<1>3. m \in S
  BY <1>2, MinIn
<1>4. Cardinality(T) = Cardinality(S) - 1
  BY <1>3, FS_RemoveElement
<1>5. T # {} /\ T \in SUBSET Nat
  <2>1. Cardinality(T) # 0
    <3> HIDE DEF T
    <3> QED
      BY <1>1, <1>4, SMT
  <2> QED
    BY <1>1, <2>1
<1>6. Min(T) \in T
  <2> HIDE DEF T
  <2> QED
    BY <1>5, MinIn
<1> QED
  BY <1>3, <1>6

(* Two descriptors of p change in turn. *)
Opens(p, a, b, r, w) == ofile' = [ofile EXCEPT ![p] = [@ EXCEPT ![a] = r, ![b] = w]]

(* How many descriptors name g after that. *)
LEMMA DescTwice ==
  ASSUME NEW p \in Proc, NEW a \in FD, NEW b \in FD, a # b, NEW r, NEW w,
         ofile \in [Proc -> [FD -> File \cup {None}]], ofile[p][a] = None, ofile[p][b] = None,
         Opens(p, a, b, r, w), NEW g \in File
  PROVE  Cardinality(Descriptors(g)') = Cardinality(Descriptors(g)) + Is(r, g) + Is(w, g)
<1> DEFINE m == [ofile EXCEPT ![p] = [@ EXCEPT ![a] = r]]  n == ofile'
<1>1. m[p][a] = r /\ m[p][b] = None /\ Elsewhere(ofile, m, p, a)
  BY DEF Elsewhere
<1>2. n[p][b] = w /\ Elsewhere(m, n, p, b)
  BY DEF Elsewhere, Opens
<1> HIDE DEF m, n
<1>3. /\ Cardinality(Desc(m, g)) \in Nat /\ Cardinality(Desc(ofile, g)) \in Nat
      /\ Cardinality(Desc(m, g)) = Cardinality(Desc(ofile, g)) + Is(m[p][a], g) - Is(ofile[p][a], g)
  BY <1>1, DescUpdate, SMT
<1>4. Cardinality(Desc(n, g)) = Cardinality(Desc(m, g)) + Is(n[p][b], g) - Is(m[p][b], g)
  BY <1>2, DescUpdate, SMT
<1>5. Is(None, g) = 0 /\ Is(r, g) \in Nat /\ Is(w, g) \in Nat
  BY FiniteSets_ DEF Is
<1>6. /\ Cardinality(Desc(m, g)) = Cardinality(Desc(ofile, g)) + Is(r, g) - 0
      /\ Cardinality(Desc(n, g)) = Cardinality(Desc(m, g)) + Is(w, g) - 0
  BY <1>1, <1>2, <1>3, <1>4, <1>5, SMTT(30)
<1>7. Cardinality(Desc(n, g)) = Cardinality(Desc(ofile, g)) + Is(r, g) + Is(w, g)
  BY <1>3, <1>5, <1>6, SMT
<1>8. Descriptors(g) = Desc(ofile, g) /\ Descriptors(g)' = Desc(n, g)
  BY DEF Descriptors, Desc, n
<1> QED
  BY <1>7, <1>8

(* sys_pipe: two descriptors, two file structures, no inode. *)
LEMMA pipeInv ==
  ASSUME RefInv, NEW p \in Proc, pipe(p)
  PROVE  RefInv'
<1> DEFINE r == Min(FreeFiles)  w == Min(FreeFiles \ {r})
           a == Min(FreeFds(p))  b == Min(FreeFds(p) \ {a})
           v == [ref |-> 1, ip |-> None]
<1>1. /\ Ready(p) /\ Cardinality(FreeFiles) >= 2 /\ Cardinality(FreeFds(p)) >= 2
      /\ ents' = ents /\ ref' = ref /\ alive' = alive /\ cwd' = cwd /\ todo' = todo
      /\ file' = [file EXCEPT ![r] = v, ![w] = v]
      /\ ofile' = [ofile EXCEPT ![p] = [@ EXCEPT ![a] = r, ![b] = w]]
  BY DEF pipe, disk, cache
<1>2. r \in File /\ w \in File /\ w # r /\ file[r].ref = 0 /\ file[w].ref = 0
  <2>1. FreeFiles \in SUBSET Nat /\ FreeFiles \subseteq File
    BY SMT DEF FreeFiles, File
  <2>2. IsFiniteSet(FreeFiles)
    BY <2>1, FiniteSets_, FS_Subset
  <2>3. r \in FreeFiles /\ w \in FreeFiles /\ w # r
    BY <1>1, <2>1, <2>2, TwoMins
  <2> QED
    BY <2>3 DEF FreeFiles
<1>3. a \in FD /\ b \in FD /\ a # b /\ ofile[p][a] = None /\ ofile[p][b] = None
  <2>1. FreeFds(p) \in SUBSET Nat /\ FreeFds(p) \subseteq FD
    BY SMT DEF FreeFds, FD
  <2>2. IsFiniteSet(FreeFds(p))
    BY <2>1, FiniteSets_, FS_Subset
  <2>3. a \in FreeFds(p) /\ b \in FreeFds(p) /\ b # a
    BY <1>1, <2>1, <2>2, TwoMins
  <2> QED
    BY <2>3 DEF FreeFds
<1> HIDE DEF r, w, a, b
<1>4. /\ ofile \in [Proc -> [FD -> File \cup {None}]] /\ todo \in [Proc -> Seq(Ops)]
      /\ file \in [File -> [ref : Int, ip : Inum \cup {None}]]
  BY DEF RefInv, RefTypeOK
<1>5. v \in [ref : Int, ip : Inum \cup {None}] /\ v.ref = 1 /\ v.ip = None
  BY SMT
<1> HIDE DEF v
<1>6. /\ file' \in [File -> [ref : Int, ip : Inum \cup {None}]] /\ file'[r] = v /\ file'[w] = v
      /\ \A g \in File : g # r /\ g # w => file'[g] = file[g]
  BY <1>1, <1>2, <1>4, <1>5
<1>7. /\ ofile' \in [Proc -> [FD -> File \cup {None}]]
      /\ \A q \in Proc \ {p} : ofile'[q] = ofile[q]
  BY <1>1, <1>2, <1>3, <1>4, SMTT(30)
<1>8. RefTypeOK'
  BY <1>1, <1>6, <1>7, ZenonT(30) DEF RefInv, RefTypeOK
<1>9. TodoInv' /\ CwdInv'
  <2>1. todo' = [todo EXCEPT ![p] = <<>>] /\ UNCHANGED <<alive, cwd>>
    BY <1>1, StaysIdle
  <2>2. alive[p] /\ cwd[p] # None
    BY <1>1, Idle, FiniteSets_
  <2>3. <<>> \in Seq(Ops) /\ Plain(<<>>)
    BY NoneList
  <2> QED
    BY <1>7, <2>1, <2>2, <2>3, EntersOK
<1>10. ASSUME NEW i \in Inum
       PROVE  ref'[i] = Cardinality(CwdRefs(i)') + Cardinality(FileRefs(i)') + Cardinality(CallRefs(i)')
  <2>1. ~(0 > 0) /\ v.ip # i
    BY <1>5, FiniteSets_, SMT
  <2>2. \A f \in File : (file'[f].ref > 0 /\ file'[f].ip = i) <=> (file[f].ref > 0 /\ file[f].ip = i)
    BY <1>2, <1>6, <2>1
  <2>3. FileRefs(i)' = FileRefs(i)
    BY <2>2 DEF FileRefs
  <2>4. CwdRefs(i)' = CwdRefs(i) /\ CallRefs(i)' = CallRefs(i)
    BY <1>1, SMT DEF CwdRefs, CallRefs, Held
  <2> QED
    BY <1>1, <2>3, <2>4, SMTT(30) DEF RefInv, RefsCounted
<1>11. ASSUME NEW g \in File PROVE file'[g].ref = Cardinality(Descriptors(g)')
  <2>1. Cardinality(Descriptors(g)') = Cardinality(Descriptors(g)) + Is(r, g) + Is(w, g)
    <3>1. Opens(p, a, b, r, w)
      BY <1>1 DEF Opens
    <3> QED
      BY <1>3, <1>4, <3>1, DescTwice, SMTT(30)
  <2>2. file[g].ref = Cardinality(Descriptors(g)) /\ file[g].ref \in Int
    BY <1>4 DEF RefInv, RefsCounted
  <2>3. file'[g].ref = file[g].ref + Is(r, g) + Is(w, g)
    BY <1>2, <1>5, <1>6, <2>2, SMT DEF Is
  <2> QED
    BY <2>1, <2>2, <2>3
<1> QED
  BY <1>8, <1>9, <1>10, <1>11, SMTT(30) DEF RefInv, RefsCounted

(* The child's descriptors are new: it gets a copy of those of p. *)
Copies(u, v, p, c) ==
  /\ \A k \in FD : u[c][k] = None /\ v[c][k] = u[p][k]
  /\ \A q \in Proc \ {c} : v[q] = u[q]

(* How many descriptors name g after that. *)
LEMMA DescCopied ==
  ASSUME NEW p \in Proc, NEW c \in Proc, NEW u, NEW v, Copies(u, v, p, c), NEW g \in File
  PROVE  /\ Cardinality(Desc(u, g)) \in Nat /\ Cardinality({k \in FD : u[p][k] = g}) \in Nat
         /\ Cardinality(Desc(v, g)) = Cardinality(Desc(u, g)) + Cardinality({k \in FD : u[p][k] = g})
         /\ Cardinality(Desc(u, g)) = 0 => Cardinality({k \in FD : u[p][k] = g}) = 0
<1> DEFINE A == Desc(u, g)  K == {k \in FD : u[p][k] = g}  B == {c} \X K  D == Desc(v, g)
<1>1. /\ \A k \in FD : u[c][k] # g /\ v[c][k] = u[p][k]
      /\ \A q \in Proc \ {c} : v[q] = u[q]
  BY FiniteSets_ DEF Copies
<1>2. IsFiniteSet(K) /\ IsFiniteSet(A)
  <2>1. K \in SUBSET FD /\ A \in SUBSET (Proc \X FD)
    BY DEF Desc
  <2>2. IsFiniteSet(Proc \X FD)
    BY FiniteSets_, FS_Product
  <2> HIDE DEF K, A
  <2> QED
    BY <2>1, <2>2, FiniteSets_, FS_Subset
<1>3. A \cap B = {}
  BY <1>1 DEF Desc
<1>4. D = A \cup B
  <2>1. ASSUME NEW q \in Proc, NEW k \in FD
        PROVE  v[q][k] = g <=> u[q][k] = g \/ (q = c /\ k \in K)
    BY <1>1
  <2>2. \A t \in Proc \X FD : t[1] \in Proc /\ t[2] \in FD /\ t = <<t[1], t[2]>>
    BY SMT
  <2>3. \A t : t \in B <=> t \in Proc \X FD /\ t[1] = c /\ t[2] \in K
    OBVIOUS
  <2> HIDE DEF K, B
  <2>4. \A t : /\ t \in D <=> t \in Proc \X FD /\ v[t[1]][t[2]] = g
               /\ t \in A <=> t \in Proc \X FD /\ u[t[1]][t[2]] = g
    BY DEF Desc
  <2> HIDE DEF D, A
  <2>5. ASSUME NEW t PROVE t \in D <=> t \in A \/ t \in B
    <3>1. CASE t \in Proc \X FD
      <4>1. t[1] \in Proc /\ t[2] \in FD
        BY <2>2, <3>1
      <4>2. v[t[1]][t[2]] = g <=> u[t[1]][t[2]] = g \/ (t[1] = c /\ t[2] \in K)
        BY <2>1, <4>1
      <4> QED
        BY <2>3, <2>4, <3>1, <4>2
    <3>2. CASE t \notin Proc \X FD
      BY <2>3, <2>4, <3>2
    <3> QED
      BY <3>1, <3>2
  <2> QED
    BY <2>5
<1>5. p \in Proc /\ (K # {} => A # {})
  <2>1. ASSUME NEW k \in K PROVE <<p, k>> \in A
    BY DEF Desc
  <2> HIDE DEF A
  <2> QED
    BY <2>1
<1> HIDE DEF A, K, D
<1>6. IsFiniteSet({c}) /\ Cardinality({c}) = 1
  BY FS_Singleton
<1>7. IsFiniteSet(B) /\ Cardinality(B) = Cardinality({c}) * Cardinality(K)
  BY <1>2, <1>6, FS_Product
<1> HIDE DEF B
<1>8. Cardinality(A \cup B) = Cardinality(A) + Cardinality(B) - Cardinality(A \cap B)
  BY <1>2, <1>7, FS_Union
<1>9. Cardinality(A \cap B) = 0 /\ Cardinality(A) \in Nat /\ Cardinality(K) \in Nat
  BY <1>2, <1>3, FS_EmptySet, FS_CardinalityType
<1>10. Cardinality(D) = Cardinality(A) + Cardinality(K)
  BY <1>4, <1>6, <1>7, <1>8, <1>9, SMTT(30)
<1>11. Cardinality(A) = 0 => Cardinality(K) = 0
  BY <1>2, <1>5, FS_EmptySet
<1> QED
  BY <1>9, <1>10, <1>11 DEF A, K, D

(* Nothing is left of a process that has exited. *)
LEMMA Gone ==
  ASSUME RefInv, NEW c \in Proc, ~alive[c]
  PROVE  todo[c] = <<>> /\ cwd[c] = None /\ \A k \in FD : ofile[c][k] = None
<1>1. TodoOK(todo[c], alive[c], ofile[c]) /\ (cwd[c] = None <=> NoCwd(todo[c], alive[c]))
  BY DEF RefInv, TodoInv, CwdInv
<1> QED
  BY <1>1 DEF TodoOK, NoCwd

(* fork: filedup of every descriptor, idup of the current directory. *)
LEMMA forkInv ==
  ASSUME RefInv, NEW p \in Proc, fork(p)
  PROVE  RefInv'
<1> DEFINE d == cwd[p]  n(f) == Cardinality({k \in FD : ofile[p][k] = f})
<1>1. PICK c \in Proc : /\ ~alive[c] /\ alive' = [alive EXCEPT ![c] = TRUE]
                        /\ ofile' = [ofile EXCEPT ![c] = ofile[p]] /\ cwd' = [cwd EXCEPT ![c] = d]
  BY DEF fork
<1>2. /\ Ready(p) /\ ents' = ents /\ todo' = todo /\ ref' = [ref EXCEPT ![d] = @ + 1]
      /\ file' = [f \in File |-> [file[f] EXCEPT !.ref = @ + n(f)]]
  BY DEF fork, idup, iget, disk
<1>3. d \in Inum
  BY <1>2, Idle
<1>4. todo[c] = <<>> /\ cwd[c] = None /\ \A k \in FD : ofile[c][k] = None
  BY <1>1, Gone
<1>5. /\ ofile \in [Proc -> [FD -> File \cup {None}]] /\ todo \in [Proc -> Seq(Ops)]
      /\ file \in [File -> [ref : Int, ip : Inum \cup {None}]]
      /\ alive \in [Proc -> BOOLEAN] /\ cwd \in [Proc -> Inum \cup {None}]
  BY DEF RefInv, RefTypeOK
<1> HIDE DEF d
<1>6. /\ alive' \in [Proc -> BOOLEAN] /\ alive'[c] = TRUE
      /\ cwd' \in [Proc -> Inum \cup {None}] /\ cwd'[c] = d
      /\ ofile' \in [Proc -> [FD -> File \cup {None}]] /\ ofile'[c] = ofile[p]
      /\ \A q \in Proc \ {c} : alive'[q] = alive[q] /\ cwd'[q] = cwd[q] /\ ofile'[q] = ofile[q]
  BY <1>1, <1>3, <1>5
<1>7. <<>> \in Seq(Ops) /\ Plain(<<>>) /\ \A j : Cnt(<<>>, j) = 0
  BY NoneList
<1>8. todo' = [todo EXCEPT ![c] = <<>>]
  BY <1>2, <1>4, <1>5
<1>9. TodoInv' /\ CwdInv'
  <2>1. TodoOK(<<>>, TRUE, ofile'[c]) /\ ~NoCwd(<<>>, TRUE) /\ d # None
    BY <1>3, <1>7, FiniteSets_ DEF Plain, TodoOK, NoCwd
  <2> QED
    BY <1>6, <1>7, <1>8, <2>1, Moves, ZenonT(30)
<1>10. ASSUME NEW g \in File
       PROVE  /\ n(g) \in Nat /\ Cardinality(Descriptors(g)) \in Nat
              /\ Cardinality(Descriptors(g)') = Cardinality(Descriptors(g)) + n(g)
              /\ Cardinality(Descriptors(g)) = 0 => n(g) = 0
              /\ file[g].ref = Cardinality(Descriptors(g))
  <2>1. Copies(ofile, ofile', p, c)
    BY <1>4, <1>6 DEF Copies
  <2>2. Descriptors(g) = Desc(ofile, g) /\ Descriptors(g)' = Desc(ofile', g)
    BY DEF Descriptors, Desc
  <2>3. /\ Cardinality(Desc(ofile, g)) \in Nat /\ n(g) \in Nat
        /\ Cardinality(Desc(ofile', g)) = Cardinality(Desc(ofile, g)) + n(g)
        /\ Cardinality(Desc(ofile, g)) = 0 => n(g) = 0
    BY <2>1, DescCopied, SMTT(30)
  <2> QED
    BY <2>2, <2>3 DEF RefInv, RefsCounted
<1> HIDE DEF n
<1>11. /\ file' \in [File -> [ref : Int, ip : Inum \cup {None}]]
       /\ \A g \in File : file'[g].ref = file[g].ref + n(g) /\ file'[g].ip = file[g].ip
  <2>1. ASSUME NEW w \in [ref : Int, ip : Inum \cup {None}], NEW m \in Nat
        PROVE  LET e == [w EXCEPT !.ref = @ + m]
               IN  e \in [ref : Int, ip : Inum \cup {None}] /\ e.ref = w.ref + m /\ e.ip = w.ip
    BY SMT
  <2>2. \A g \in File : file'[g] = [file[g] EXCEPT !.ref = @ + n(g)]
    BY <1>2
  <2>3. ASSUME NEW g \in File
        PROVE  /\ file'[g] \in [ref : Int, ip : Inum \cup {None}]
               /\ file'[g].ref = file[g].ref + n(g) /\ file'[g].ip = file[g].ip
    <3>1. file[g] \in [ref : Int, ip : Inum \cup {None}] /\ n(g) \in Nat
      BY <1>5, <1>10
    <3> QED
      BY <2>1, <2>2, <3>1
  <2> QED
    BY <1>2, <2>3
<1>12. /\ ref' \in [Inum -> Int]
       /\ \A j \in Inum : ref[j] \in Int /\ ref'[j] = IF d = j THEN ref[j] + 1 ELSE ref[j]
  <2>1. 1 \in Int
    BY SMT
  <2> QED
    BY <1>2, <1>3, <2>1, Counted, ZenonT(30)
<1>13. RefTypeOK'
  BY <1>2, <1>5, <1>6, <1>11, <1>12, ZenonT(30) DEF RefInv, RefTypeOK
<1>14. ASSUME NEW g \in File
       PROVE  /\ file'[g].ref = Cardinality(Descriptors(g)')
              /\ file'[g].ref > 0 <=> file[g].ref > 0
  BY <1>10, <1>11, SMTT(30)
<1>15. ASSUME NEW i \in Inum
       PROVE  ref'[i] = Cardinality(CwdRefs(i)') + Cardinality(FileRefs(i)') + Cardinality(CallRefs(i)')
  <2> DEFINE a == Cardinality(CwdRefs(i))  a1 == Cardinality(CwdRefs(i)')
             b == Cardinality(FileRefs(i))  b1 == Cardinality(FileRefs(i)')
  <2>1. FileRefs(i)' = FileRefs(i)
    BY <1>11, <1>14 DEF FileRefs
  <2>2. a \in Nat /\ a1 \in Nat /\ a1 = a + Is(d, i) - Is(None, i)
    BY <1>4, <1>6, CwdUpdate
  <2>3. b \in Nat /\ b1 = b
    BY <2>1, RefCards
  <2>4. Cnt(<<>>, i) = 0 /\ Cnt(todo[c], i) = 0 /\ None # i
    BY <1>4, <1>7, FiniteSets_
  <2> HIDE DEF a, a1, b, b1
  <2>5. ref'[i] = ref[i] + (a1 - a) + (b1 - b) + (Cnt(<<>>, i) - Cnt(todo[c], i))
    BY <1>12, <2>2, <2>3, <2>4, SMTT(30) DEF Is
  <2>6. a1 \in Nat /\ b1 \in Nat
    BY <2>2, <2>3
  <2> QED
    BY <1>7, <1>8, <2>5, <2>6, Recount DEF a, a1, b, b1
<1> QED
  BY <1>9, <1>13, <1>14, <1>15, SMTT(30) DEF RefInv, RefsCounted

-----------------------------------------------------------------------------
(* The types hold after mkfs and the first fork. *)
LEMMA InitTypeOK ==
  ASSUME Init
  PROVE  RefTypeOK
<1>1. ents \in [Inum -> [Names \cup Dots -> Inum \cup {None}]]
  <2>1. ROOT \in Inum \cup {None} /\ None \in Inum \cup {None}
    BY FiniteSets_
  <2> HIDE DEF ROOT, None
  <2> QED
    BY <2>1 DEF Init, NoEntries
<1>2. ref \in [Inum -> Int]
  <2> DEFINE n == Cardinality({1, 2} \cap Proc)
  <2>1. n \in Nat
    <3>1. {1, 2} \cap Proc \in SUBSET Proc
      OBVIOUS
    <3>2. IsFiniteSet({1, 2} \cap Proc)
      BY <3>1, FiniteSets_, FS_Subset
    <3> QED
      BY <3>2, FS_CardinalityType
  <2>2. ref = [i \in Inum |-> IF i = ROOT THEN n ELSE 0]
    BY DEF Init
  <2> HIDE DEF n
  <2> QED
    BY <2>1, <2>2, SMTT(30)
<1>3. alive \in [Proc -> BOOLEAN] /\ cwd \in [Proc -> Inum \cup {None}]
  <2>1. ROOT \in Inum \cup {None} /\ None \in Inum \cup {None}
    BY FiniteSets_
  <2> HIDE DEF ROOT, None
  <2>2. alive = [p \in Proc |-> p <= 2] /\ cwd = [p \in Proc |-> IF p <= 2 THEN ROOT ELSE None]
    BY DEF Init
  <2> QED
    BY <2>1, <2>2, SMTT(30)
<1>4. ofile \in [Proc -> [FD -> File \cup {None}]]
  BY DEF Init
<1>5. file \in [File -> [ref : Int, ip : Inum \cup {None}]]
  <2>1. file = [f \in File |-> [ref |-> 0, ip |-> None]]
    BY DEF Init
  <2> QED
    BY <2>1, SMTT(30)
<1>6. todo \in [Proc -> Seq(Ops)]
  <2>1. todo = [p \in Proc |-> <<>>] /\ <<>> \in Seq(Ops)
    BY NoneList DEF Init
  <2> QED
    BY <2>1
<1> QED
  BY <1>1, <1>2, <1>3, <1>4, <1>5, <1>6 DEF RefTypeOK

(* And so does the invariant. *)
LEMMA InitInv ==
  ASSUME Init
  PROVE  RefInv
<1>1. /\ ref = [i \in Inum |-> IF i = ROOT THEN Cardinality({1, 2} \cap Proc) ELSE 0]
      /\ alive = [p \in Proc |-> p <= 2] /\ cwd = [p \in Proc |-> IF p <= 2 THEN ROOT ELSE None]
      /\ ofile = [p \in Proc |-> [fd \in FD |-> None]]
      /\ file = [f \in File |-> [ref |-> 0, ip |-> None]] /\ todo = [p \in Proc |-> <<>>]
  BY DEF Init
<1>2. \A p \in Proc : /\ alive[p] <=> p <= 2
                      /\ cwd[p] = IF p <= 2 THEN ROOT ELSE None
                      /\ todo[p] = <<>> /\ \A fd \in FD : ofile[p][fd] = None
  BY <1>1
<1>3. \A f \in File : file[f].ref = 0
  BY <1>1
<1>4. Plain(<<>>)
  BY NoneList
<1>5. TodoInv
  BY <1>2, <1>4 DEF TodoInv, TodoOK, Plain
<1>6. CwdInv
  <2>1. ROOT # None
    BY FiniteSets_
  <2> HIDE DEF ROOT, None
  <2> QED
    BY <1>2, <2>1 DEF CwdInv, NoCwd
<1>7. Cardinality({}) = 0
  BY FS_EmptySet
<1>8. ASSUME NEW i \in Inum
      PROVE  ref[i] = Cardinality(CwdRefs(i)) + Cardinality(FileRefs(i)) + Cardinality(CallRefs(i))
  <2>1. FileRefs(i) = {}
    <3>1. ~(0 > 0)
      BY SMT
    <3> QED
      BY <1>3, <3>1 DEF FileRefs
  <2>2. CallRefs(i) = {}
    <3>1. \A p \in Proc : Held(todo[p], i) = {}
      <4>1. Held(<<>>, i) = {}
        BY SMT DEF Held
      <4> QED
        BY <1>2, <4>1
    <3>2. \A p \in Proc : {p} \X Held(todo[p], i) = {}
      BY <3>1
    <3> QED
      BY <3>2 DEF CallRefs
  <2>3. CwdRefs(i) = IF i = ROOT THEN {1, 2} \cap Proc ELSE {}
    <3>1. ROOT # None /\ i # None
      BY FiniteSets_
    <3>2. \A p \in Proc : p <= 2 <=> p \in {1, 2}
      BY SMT DEF Proc
    <3> HIDE DEF ROOT, None
    <3>3. \A p \in Proc : cwd[p] = i <=> i = ROOT /\ p \in {1, 2}
      BY <1>2, <3>1, <3>2
    <3> QED
      BY <3>3 DEF CwdRefs
  <2>4. ref[i] = Cardinality(CwdRefs(i))
    BY <1>1, <1>7, <2>3
  <2>5. Cardinality(CwdRefs(i)) \in Nat /\ Cardinality(FileRefs(i)) = 0 /\ Cardinality(CallRefs(i)) = 0
    BY <1>7, <2>1, <2>2, RefCards
  <2> QED
    BY <2>4, <2>5, SMTT(30)
<1>9. ASSUME NEW f \in File
      PROVE  file[f].ref = Cardinality(Descriptors(f))
  <2>1. f # None
    BY FiniteSets_
  <2>2. \A t \in Proc \X FD : t[1] \in Proc /\ t[2] \in FD
    OBVIOUS
  <2>3. Descriptors(f) = {}
    BY <1>2, <2>1, <2>2 DEF Descriptors
  <2> QED
    BY <1>3, <1>7, <2>3
<1> QED
  BY <1>5, <1>6, <1>8, <1>9, InitTypeOK, SMTT(30) DEF RefInv, RefsCounted

(* Every step of a system call preserves the invariant. *)
LEMMA StepInv ==
  ASSUME RefInv, NEW p \in Proc, Step(p)
  PROVE  RefInv'
<1>1. CASE iput(p) \/ ifree(p) \/ ifreed(p) \/ iunlockput(p) \/ begin_trans(p) \/ commit_trans(p)
  BY <1>1, iputInv, ifreeInv, ifreedInv, iunlockputInv, begin_transInv, SMTT(30)
<1>2. CASE namex0(p) \/ namex(p) \/ link1(p) \/ link2(p) \/ linkbad(p)
  BY <1>2, namex0Inv, namexInv, link1Inv, link2Inv, linkbadInv, SMTT(30)
<1>3. CASE unlink1(p) \/ unlink2(p) \/ unlink3(p) \/ create1(p) \/ create2(p) \/ create3(p)
  BY <1>3, unlink1Inv, unlink2Inv, unlink3Inv, create1Inv, create2Inv, create3Inv, SMTT(30)
<1>4. CASE open(p) \/ use(p) \/ putcwd(p) \/ chdir(p) \/ writei(p) \/ exit(p) \/ dead(p)
  BY <1>4, openInv, useInv, putcwdInv, chdirInv, writeiInv, exitInv, deadInv, SMTT(30)
<1> QED
  BY <1>1, <1>2, <1>3, <1>4 DEF Step

(* So does every call. *)
LEMMA CallInv ==
  ASSUME RefInv, NEW p \in Proc, Call(p)
  PROVE  RefInv'
<1>1. ASSUME NEW c \in Calls, Start(p, c) PROVE RefInv'
  BY <1>1, StartInv
<1>2. ASSUME NEW fd \in FD, close(p, fd) \/ dup(p, fd) \/ write(p, fd) \/ read(p, fd)
      PROVE  RefInv'
  BY <1>2, closeInv, dupInv, writeInv, readInv
<1>3. CASE pipe(p) \/ fork(p)
  BY <1>3, pipeInv, forkInv
<1> QED
  BY <1>1, <1>2, <1>3 DEF Call

(* So does doing nothing. *)
LEMMA StutterInv ==
  ASSUME RefInv, UNCHANGED vars
  PROVE  RefInv'
<1>1. UNCHANGED <<ents, ref, procs, todo>>
  BY DEF vars, disk, cache
<1> QED
  BY <1>1, PanicsInv

(* The inductive invariant, for any number of processes, inodes, file       *)
(* structures and descriptors, any path names and any calls: every          *)
(* operation of every system call owns the references it says it owns, a    *)
(* process that has exited has neither descriptors nor a current directory, *)
(* and the counts of the inode cache and of the file table are exact.       *)
THEOREM RefInvariant == Spec => []RefInv
<1>1. Init => RefInv
  BY InitInv
<1>2. RefInv /\ [Next]_vars => RefInv'
  <2> SUFFICES ASSUME RefInv, [Next]_vars PROVE RefInv'
    OBVIOUS
  <2>1. ASSUME NEW p \in Proc, Step(p) PROVE RefInv'
    BY <2>1, StepInv
  <2>2. ASSUME NEW p \in Proc, Call(p) PROVE RefInv'
    BY <2>2, CallInv
  <2>3. CASE UNCHANGED vars \/ Halted
    BY <2>3, StutterInv DEF Halted
  <2> QED
    BY <2>1, <2>2, <2>3 DEF Next
<1> QED
  BY <1>1, <1>2, PTL DEF Spec

(* ip->ref and f->ref are exact whatever the system calls do at the same    *)
(* time, fail at, or have still to do (iget, idup, iput, filealloc,         *)
(* filedup, fileclose).                                                     *)
THEOREM RefsCountedHolds == Spec => []RefsCounted
<1>1. RefInv => RefsCounted
  BY DEF RefInv
<1> QED
  BY <1>1, RefInvariant, PTL

(* What one process holds is part of what all calls hold. *)
LEMMA HeldCounts ==
  ASSUME RefInv, NEW p \in Proc, NEW i
  PROVE  /\ Cnt(todo[p], i) \in Nat /\ Cardinality(CallRefs(i)) \in Nat
         /\ Cnt(todo[p], i) <= Cardinality(CallRefs(i))
         /\ Held(todo[p], i) # {} => Cnt(todo[p], i) > 0
<1> DEFINE e == [todo EXCEPT ![p] = <<>>]
<1>1. todo \in [Proc -> Seq(Ops)] /\ \A q \in Proc : Len(todo[q]) <= 4
  BY DEF RefInv, RefTypeOK, TodoInv, TodoOK
<1>2. <<>> \in Seq(Ops) /\ Cnt(<<>>, i) = 0 /\ Len(<<>>) <= 4
  <2>1. Len(<<>>) <= 4
    BY SMT
  <2> QED
    BY <2>1, NoneList
<1>3. /\ e \in [Proc -> Seq(Ops)] /\ e[p] = <<>> /\ \A q \in Proc \ {p} : e[q] = todo[q]
  BY <1>1, <1>2
<1> HIDE DEF e
<1>4. \A q \in Proc : Len(e[q]) <= 4
  BY <1>1, <1>2, <1>3
<1>5. /\ Cardinality(Calling(todo, i)) \in Nat
      /\ Cardinality(Calling(e, i)) = Cardinality(Calling(todo, i)) - Cnt(todo[p], i) + Cnt(e[p], i)
  BY <1>1, <1>3, CallingUpdate
<1>6. Cardinality(Calling(e, i)) \in Nat
  BY <1>3, <1>4, CallingUpdate
<1>7. Calling(todo, i) = CallRefs(i)
  BY DEF Calling, CallRefs
<1>8. Len(todo[p]) \in Nat
  BY <1>1, SMT
<1>9. IsFiniteSet(Held(todo[p], i)) /\ Cnt(todo[p], i) \in Nat
  BY <1>8, HeldFinite
<1>10. Cardinality(Calling(e, i)) = Cardinality(Calling(todo, i)) - Cnt(todo[p], i) + 0
  BY <1>2, <1>3, <1>5
<1>11. Held(todo[p], i) # {} => Cnt(todo[p], i) # 0
  BY <1>9, FS_EmptySet DEF Cnt
<1>12. Cnt(todo[p], i) <= Cardinality(Calling(todo, i)) /\ (Cnt(todo[p], i) # 0 => Cnt(todo[p], i) > 0)
  BY <1>5, <1>6, <1>9, <1>10, SMTT(30)
<1> QED
  BY <1>5, <1>7, <1>9, <1>11, <1>12, SMT

(* No pointer to a file structure or to an inode dangles: filedup and       *)
(* fileclose never reach their panics, and iget never recycles the cache    *)
(* entry of an inode that a current directory, an open file or a system     *)
(* call in any of its steps still points to.                                *)
THEOREM PointersHoldAlways == Spec => []PointersHold
<1>1. RefInv => PointersHold
  <2> SUFFICES ASSUME RefInv PROVE PointersHold
    OBVIOUS
  <2>1. \A p \in Proc, fd \in FD : ofile[p][fd] # None => file[ofile[p][fd]].ref > 0
    BY NamedFile
  <2>2. ASSUME NEW i \in Inum,
               \/ \E p \in Proc : cwd[p] = i \/ Held(todo[p], i) # {}
               \/ \E f \in File : file[f].ref > 0 /\ file[f].ip = i
        PROVE  ref[i] > 0
    <3> DEFINE a == Cardinality(CwdRefs(i))  b == Cardinality(FileRefs(i))  d == Cardinality(CallRefs(i))
    <3>1. ref[i] = a + b + d
      BY DEF RefInv, RefsCounted
    <3>2. ROOT \in Inum /\ \E q : q \in Proc
      <4>1. 1 \in Proc
        BY FileSysAssumption, SMT DEF Proc
      <4> QED
        BY <4>1, FiniteSets_
    <3>3. a \in Nat /\ b \in Nat /\ d \in Nat
      BY <3>2, RefCards, HeldCounts
    <3>4. a # 0 \/ b # 0 \/ d > 0
      <4>1. ASSUME NEW p \in Proc, cwd[p] = i PROVE a # 0
        <5>1. CwdRefs(i) # {}
          BY <4>1 DEF CwdRefs
        <5> QED
          BY <5>1, RefCards, FS_EmptySet
      <4>2. ASSUME NEW p \in Proc, Held(todo[p], i) # {} PROVE d > 0
        <5> DEFINE n == Cnt(todo[p], i)
        <5>1. n \in Nat /\ n <= d /\ n > 0
          BY <4>2, HeldCounts
        <5> HIDE DEF n, d
        <5> QED
          BY <3>3, <5>1, SMTT(30)
      <4>3. ASSUME NEW f \in File, file[f].ref > 0, file[f].ip = i PROVE b # 0
        <5>1. FileRefs(i) # {}
          BY <4>3 DEF FileRefs
        <5> QED
          BY <5>1, RefCards, FS_EmptySet
      <4> HIDE DEF a, b, d
      <4> QED
        BY <2>2, <4>1, <4>2, <4>3, SMTT(30)
    <3> HIDE DEF a, b, d
    <3> QED
      BY <3>1, <3>3, <3>4, SMTT(30)
  <2> QED
    BY <2>1, <2>2 DEF PointersHold
<1> QED
  BY <1>1, RefInvariant, PTL
=============================================================================
