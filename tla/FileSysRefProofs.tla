-------------------------- MODULE FileSysRefProofs --------------------------
(***************************************************************************)
(* For the reference counts of kernel/fs.c and kernel/file.c: what a step  *)
(* of one process through the operations of a call does to the number of   *)
(* pointers to an inode; that iget, idup and iput in the operations a call *)
(* consists of - and in link - preserve RefInv; and what a change to a     *)
(* current directory, a descriptor or a file structure does to the counts. *)
(***************************************************************************)
EXTENDS FileSys, FiniteSetTheorems, WellFoundedInduction, TLAPS

USE Zenon

(* One if P, none if not. *)
Ind(P) == IF P THEN 1 ELSE 0
Is(i, j) == IF i = j THEN 1 ELSE 0
(* How often an operation that owns h, and a list of operations, hold i. *)
N(h, i) == Ind(Len(h) > 0 /\ h[1] = i) + Ind(Len(h) > 1 /\ h[2] = i)
Cnt(s, i) == Cardinality(Held(s, i))
(* CallRefs(i) when the processes' operations are td. *)
Calling(td, i) == UNION {{p} \X Held(td[p], i) : p \in Proc}

-----------------------------------------------------------------------------
(* Counting. *)

(* Two sequences with the same elements are the same. *)
LEMMA SameSeq ==
  ASSUME NEW S, NEW s \in Seq(S), NEW t \in Seq(S), Len(s) = Len(t), \A k \in 1 .. Len(s) : s[k] = t[k]
  PROVE  s = t
<1>1. s \in [1 .. Len(s) -> S] /\ t \in [1 .. Len(s) -> S]
  BY SMT
<1> QED
  BY <1>1, SMT

(* One operation before two others. *)
LEMMA Appended ==
  ASSUME NEW a, NEW b, NEW d
  PROVE  <<a>> \o <<>> = <<a>> /\ <<a>> \o <<b>> = <<a, b>> /\ <<a>> \o <<b, d>> = <<a, b, d>>
<1> DEFINE S == {a, b, d}
<1>1. <<a>> \in Seq(S) /\ <<b>> \in Seq(S) /\ <<b, d>> \in Seq(S) /\ <<>> \in Seq(S)
  BY SMT
<1>2. <<a, b>> \in Seq(S) /\ <<a, b, d>> \in Seq(S)
  BY SMT
<1> HIDE DEF S
<1>3. <<a>> \o <<>> = <<a>>
  BY <1>1, SMT
<1>4. <<a>> \o <<b>> = <<a, b>>
  <2>1. /\ <<a>> \o <<b>> \in Seq(S) /\ Len(<<a>> \o <<b>>) = Len(<<a, b>>)
        /\ \A k \in 1 .. Len(<<a>> \o <<b>>) : (<<a>> \o <<b>>)[k] = <<a, b>>[k]
    BY <1>1, SMT
  <2> QED
    BY <1>2, <2>1, SameSeq
<1>5. <<a>> \o <<b, d>> = <<a, b, d>>
  <2>1. /\ <<a>> \o <<b, d>> \in Seq(S) /\ Len(<<a>> \o <<b, d>>) = Len(<<a, b, d>>)
        /\ \A k \in 1 .. Len(<<a>> \o <<b, d>>) : (<<a>> \o <<b, d>>)[k] = <<a, b, d>>[k]
    BY <1>1, SMT
  <2> QED
    BY <1>2, <2>1, SameSeq
<1> QED
  BY <1>3, <1>4, <1>5

(* The least element that the scans for a free inode, file structure or    *)
(* descriptor take is one of the set scanned.                              *)
LEMMA MinIn ==
  ASSUME NEW S \in SUBSET Nat, S # {}
  PROVE  Min(S) \in S
<1>1. PICK x \in S : \A y \in S : ~(<<y, x>> \in OpToRel(<, Nat))
  BY NatLessThanWellFounded, WFMin
<1>2. \A y \in S : ~(y < x)
  BY <1>1 DEF OpToRel
<1>3. \E m \in S : \A y \in S : m <= y
  BY <1>2, SMT
<1> QED
  BY <1>3 DEF Min

(* A set that changes in one element only. *)
LEMMA CardUpdate ==
  ASSUME NEW S, IsFiniteSet(S), NEW T, NEW x, S \ {x} = T \ {x}
  PROVE  /\ IsFiniteSet(T)
         /\ Cardinality(S) \in Nat /\ Cardinality(T) \in Nat
         /\ Cardinality(T) = Cardinality(S) + Ind(x \in T) - Ind(x \in S)
<1> DEFINE R == S \ {x}
<1>1. IsFiniteSet(R) /\ Cardinality(R) \in Nat /\ Cardinality(S) \in Nat
  BY FS_Subset, FS_CardinalityType
<1>2. \A U : U \ {x} = R => /\ IsFiniteSet(U)
                            /\ Cardinality(U) = Cardinality(R) + Ind(x \in U)
  <2> SUFFICES ASSUME NEW U, U \ {x} = R
               PROVE  IsFiniteSet(U) /\ Cardinality(U) = Cardinality(R) + Ind(x \in U)
    OBVIOUS
  <2>1. CASE x \in U
    <3>1. U = R \cup {x} /\ x \notin R
      BY <2>1
    <3>2. IsFiniteSet(U) /\ Cardinality(U) = Cardinality(R) + 1
      BY <1>1, <3>1, FS_AddElement
    <3> QED
      BY <2>1, <3>2 DEF Ind
  <2>2. CASE x \notin U
    <3>1. U = R
      BY <2>2
    <3> HIDE DEF R
    <3> QED
      BY <1>1, <2>2, <3>1, SMT DEF Ind
  <2> QED
    BY <2>1, <2>2
<1>3. /\ Cardinality(S) = Cardinality(R) + Ind(x \in S)
      /\ IsFiniteSet(T) /\ Cardinality(T) = Cardinality(R) + Ind(x \in T)
  BY <1>2
<1> HIDE DEF R
<1> QED
  BY <1>1, <1>3, SMT DEF Ind

(* The places where a list of operations holds an inode are finitely many. *)
LEMMA HeldFinite ==
  ASSUME NEW s, Len(s) \in Nat, NEW i
  PROVE  IsFiniteSet(Held(s, i)) /\ Cnt(s, i) \in Nat
<1>1. IsFiniteSet({1, 2})
  <2>1. {1, 2} = 1 .. 2 /\ 1 \in Int /\ 2 \in Int
    BY SMT
  <2> QED
    BY <2>1, FS_Interval
<1>2. IsFiniteSet(1 .. Len(s))
  <2>1. 1 \in Int /\ Len(s) \in Int
    BY SMT
  <2> QED
    BY <2>1, FS_Interval
<1>3. IsFiniteSet((1 .. Len(s)) \X {1, 2})
  BY <1>1, <1>2, FS_Product
<1>4. Held(s, i) \subseteq (1 .. Len(s)) \X {1, 2}
  BY DEF Held
<1> QED
  BY <1>3, <1>4, FS_Subset, FS_CardinalityType DEF Cnt

(* Nothing to do holds nothing. *)
LEMMA HeldNone ==
  ASSUME NEW i
  PROVE  Cnt(<<>>, i) = 0
<1>1. Held(<<>>, i) = {}
  BY SMT DEF Held
<1> QED
  BY <1>1, FS_EmptySet DEF Cnt

(* What a list of one operation holds. *)
LEMMA HeldOne ==
  ASSUME NEW o \in Ops, NEW i
  PROVE  Cnt(<<o>>, i) = N(o.h, i)
<1> DEFINE H == Held(<<o>>, i)  A == {x \in H : x[2] = 1}
<1>0. o.h \in Seq(Inum)
  BY DEF Ops
<1>1. \A x : x \in H <=> \/ x = <<1, 1>> /\ Len(o.h) > 0 /\ o.h[1] = i
                         \/ x = <<1, 2>> /\ Len(o.h) > 1 /\ o.h[2] = i
  BY <1>0, SMT DEF Held
<1> HIDE DEF H
<1>2. {} \ {<<1, 1>>} = A \ {<<1, 1>>}
  BY <1>1, SMT
<1>3. H \ {<<1, 2>>} = A \ {<<1, 2>>}
  BY <1>1, SMT
<1>4. Cardinality(A) = Ind(<<1, 1>> \in A) /\ IsFiniteSet(A)
  <2>1. IsFiniteSet({}) /\ Cardinality({}) = 0
    BY FS_EmptySet
  <2>2. /\ IsFiniteSet(A) /\ Cardinality(A) \in Nat
        /\ Cardinality(A) = 0 + Ind(<<1, 1>> \in A) - Ind(<<1, 1>> \in {})
    BY <1>2, <2>1, CardUpdate
  <2> HIDE DEF A
  <2> QED
    BY <2>2, SMT DEF Ind
<1>5. Cardinality(H) = Cardinality(A) + Ind(<<1, 2>> \in H) - Ind(<<1, 2>> \in A)
  BY <1>3, <1>4, CardUpdate
<1>6. /\ <<1, 1>> \in A <=> (Len(o.h) > 0 /\ o.h[1] = i)
      /\ <<1, 2>> \in H <=> (Len(o.h) > 1 /\ o.h[2] = i)
      /\ <<1, 2>> \notin A
  BY <1>1, SMT
<1> HIDE DEF A
<1> QED
  BY <1>4, <1>5, <1>6, SMT DEF Ind, N, H, Cnt

(* What two lists hold, one after the other. *)
LEMMA HeldConcat ==
  ASSUME NEW s \in Seq(Ops), NEW t \in Seq(Ops), NEW i
  PROVE  Cnt(s \o t, i) = Cnt(s, i) + Cnt(t, i)
<1> DEFINE A == Held(s, i)  B == Held(t, i)
           C == {x \in Held(s \o t, i) : x[1] > Len(s)}
           f == [x \in B |-> <<x[1] + Len(s), x[2]>>]
<1>1. /\ s \o t \in Seq(Ops) /\ Len(s \o t) = Len(s) + Len(t)
      /\ Len(s) \in Nat /\ Len(t) \in Nat
      /\ \A k \in 1 .. Len(s) : (s \o t)[k] = s[k]
      /\ \A k \in 1 .. Len(t) : (s \o t)[k + Len(s)] = t[k]
  BY SMT
<1>2. IsFiniteSet(A) /\ IsFiniteSet(B) /\ Cardinality(A) \in Nat /\ Cardinality(B) \in Nat
  BY <1>1, HeldFinite DEF Cnt
<1>3. \A x : x \in B <=> /\ x \in (1 .. Len(t)) \X {1, 2}
                         /\ x[2] \in DOMAIN t[x[1]].h /\ t[x[1]].h[x[2]] = i
  BY DEF Held
<1>4. \A x : x \in C <=> /\ x \in (1 .. Len(s) + Len(t)) \X {1, 2} /\ x[1] > Len(s)
                         /\ x[2] \in DOMAIN (s \o t)[x[1]].h /\ (s \o t)[x[1]].h[x[2]] = i
  BY <1>1 DEF Held
<1>5. f \in Bijection(B, C)
  <2> HIDE DEF B, C
  <2>1. \A x \in B : f[x] \in C
    <3> SUFFICES ASSUME NEW x \in B PROVE <<x[1] + Len(s), x[2]>> \in C
      OBVIOUS
    <3>1. /\ x[1] \in 1 .. Len(t) /\ x[2] \in {1, 2}
          /\ x[2] \in DOMAIN t[x[1]].h /\ t[x[1]].h[x[2]] = i
      BY <1>3, SMT
    <3>2. (s \o t)[x[1] + Len(s)] = t[x[1]]
      BY <1>1, <3>1
    <3>3. x[1] + Len(s) \in 1 .. Len(s) + Len(t) /\ x[1] + Len(s) > Len(s)
      BY <1>1, <3>1, SMT
    <3> DEFINE y == <<x[1] + Len(s), x[2]>>
    <3>4. y[1] = x[1] + Len(s) /\ y[2] = x[2] /\ y \in (1 .. Len(s) + Len(t)) \X {1, 2}
      BY <3>1, <3>3
    <3> HIDE DEF y
    <3>5. y \in C
      BY <1>4, <3>1, <3>2, <3>3, <3>4
    <3> QED
      BY <3>5 DEF y
  <2>2. ASSUME NEW x \in B, NEW y \in B, f[x] = f[y] PROVE x = y
    <3>1. x \in (1 .. Len(t)) \X {1, 2} /\ y \in (1 .. Len(t)) \X {1, 2}
      BY <1>3
    <3>2. x[1] + Len(s) = y[1] + Len(s) /\ x[2] = y[2]
      BY <2>2
    <3> QED
      BY <1>1, <3>1, <3>2, SMT
  <2>3. ASSUME NEW y \in C PROVE \E x \in B : f[x] = y
    <3>1. /\ y \in (1 .. Len(s) + Len(t)) \X {1, 2} /\ y[1] > Len(s)
          /\ y[2] \in DOMAIN (s \o t)[y[1]].h /\ (s \o t)[y[1]].h[y[2]] = i
      BY <1>4
    <3> DEFINE k == y[1] - Len(s)  x == <<k, y[2]>>
    <3>2. k \in 1 .. Len(t) /\ k + Len(s) = y[1] /\ y[2] \in {1, 2} /\ y = <<y[1], y[2]>>
      BY <1>1, <3>1, SMT
    <3> HIDE DEF k
    <3>3. (s \o t)[y[1]] = t[k]
      BY <1>1, <3>2
    <3>4. x[1] = k /\ x[2] = y[2] /\ x \in (1 .. Len(t)) \X {1, 2}
      BY <3>2
    <3>5. x[2] \in DOMAIN t[x[1]].h /\ t[x[1]].h[x[2]] = i
      BY <3>1, <3>3, <3>4
    <3>6. x \in B
      BY <1>3, <3>4, <3>5
    <3>7. f[x] = y
      BY <3>2, <3>4, <3>6
    <3> QED
      BY <3>6, <3>7
  <2>4. f \in [B -> C]
    BY <2>1
  <2> HIDE DEF f
  <2>5. f \in Injection(B, C) /\ f \in Surjection(B, C)
    BY <2>2, <2>3, <2>4 DEF Injection, Surjection, IsInjective
  <2> QED
    BY <2>5 DEF Bijection
<1>6. IsFiniteSet(C) /\ Cardinality(C) = Cardinality(B)
  BY <1>2, <1>5, FS_Bijection DEF ExistsBijection
<1>7. Held(s \o t, i) = A \cup C
  <2>1. ASSUME NEW x PROVE x \in Held(s \o t, i) /\ ~(x \in C) <=> x \in A
    <3>1. x \in Held(s \o t, i) <=>
            /\ x \in (1 .. Len(s) + Len(t)) \X {1, 2}
            /\ x[2] \in DOMAIN (s \o t)[x[1]].h /\ (s \o t)[x[1]].h[x[2]] = i
      BY <1>1 DEF Held
    <3>2. x \in A <=> /\ x \in (1 .. Len(s)) \X {1, 2}
                      /\ x[2] \in DOMAIN s[x[1]].h /\ s[x[1]].h[x[2]] = i
      BY DEF Held
    <3>3. x \in (1 .. Len(s)) \X {1, 2} <=>
            x \in (1 .. Len(s) + Len(t)) \X {1, 2} /\ ~(x[1] > Len(s))
      BY <1>1, SMT
    <3>4. x \in (1 .. Len(s)) \X {1, 2} => (s \o t)[x[1]] = s[x[1]]
      BY <1>1
    <3> HIDE DEF A, C
    <3> QED
      BY <1>4, <3>1, <3>2, <3>3, <3>4
  <2>2. C \subseteq Held(s \o t, i)
    OBVIOUS
  <2> HIDE DEF A, C
  <2> QED
    BY <2>1, <2>2
<1>8. A \cap C = {}
  <2>1. \A x \in A : ~(x[1] > Len(s))
    BY <1>1, SMT DEF Held
  <2> QED
    BY <2>1
<1> HIDE DEF A, B, C
<1>9. Cardinality(A \cup C) = Cardinality(A) + Cardinality(C) - Cardinality(A \cap C)
  BY <1>2, <1>6, FS_Union
<1>10. Cardinality(A \cap C) = 0
  BY <1>8, FS_EmptySet
<1>11. Cardinality(A \cup C) = Cardinality(A) + Cardinality(B)
  BY <1>2, <1>6, <1>9, <1>10, SMT
<1> QED
  BY <1>7, <1>11 DEF Cnt, A, B

(* What a list holds: what its first operation does, and the rest. *)
LEMMA HeldHead ==
  ASSUME NEW s \in Seq(Ops), s # <<>>, NEW i
  PROVE  Cnt(s, i) = N(Head(s).h, i) + Cnt(Tail(s), i)
<1>1. /\ s = <<Head(s)>> \o Tail(s) /\ Head(s) \in Ops
      /\ <<Head(s)>> \in Seq(Ops) /\ Tail(s) \in Seq(Ops)
  BY SMT
<1>2. Cnt(<<Head(s)>> \o Tail(s), i) = Cnt(<<Head(s)>>, i) + Cnt(Tail(s), i)
  BY <1>1, HeldConcat
<1>3. Cnt(<<Head(s)>>, i) = N(Head(s).h, i)
  BY <1>1, HeldOne
<1> QED
  BY <1>1, <1>2, <1>3

(* What a list of two operations holds. *)
LEMMA HeldTwo ==
  ASSUME NEW a \in Ops, NEW b \in Ops, NEW i
  PROVE  Cnt(<<a, b>>, i) = N(a.h, i) + N(b.h, i)
<1>1. <<a, b>> \in Seq(Ops) /\ <<a, b>> # <<>>
  BY SMT
<1>2. Head(<<a, b>>) = a /\ Tail(<<a, b>>) = <<b>>
  BY SMT
<1>3. Cnt(<<a, b>>, i) = N(Head(<<a, b>>).h, i) + Cnt(Tail(<<a, b>>), i)
  BY <1>1, HeldHead
<1> QED
  BY <1>2, <1>3, HeldOne

(* What a list of three operations holds. *)
LEMMA HeldThree ==
  ASSUME NEW a \in Ops, NEW b \in Ops, NEW c \in Ops, NEW i
  PROVE  Cnt(<<a, b, c>>, i) = N(a.h, i) + (N(b.h, i) + N(c.h, i))
<1>1. <<a, b, c>> \in Seq(Ops) /\ <<a, b, c>> # <<>>
  BY SMT
<1>2. Head(<<a, b, c>>) = a /\ Tail(<<a, b, c>>) = <<b, c>>
  BY SMT
<1>3. Cnt(<<a, b, c>>, i) = N(Head(<<a, b, c>>).h, i) + Cnt(Tail(<<a, b, c>>), i)
  <2> DEFINE s == <<a, b, c>>
  <2> HIDE DEF s
  <2>1. s \in Seq(Ops) /\ s # <<>> => Cnt(s, i) = N(Head(s).h, i) + Cnt(Tail(s), i)
    BY HeldHead
  <2> QED
    BY <1>1, <2>1 DEF s
<1>4. Cnt(<<b, c>>, i) = N(b.h, i) + N(c.h, i)
  BY HeldTwo
<1> QED
  BY <1>2, <1>3, <1>4

(* The tables are finite, and None is no entry of one. *)
LEMMA FiniteSets_ ==
  /\ IsFiniteSet(Proc) /\ IsFiniteSet(File) /\ IsFiniteSet(FD)
  /\ None \notin Inum /\ None \notin File /\ ROOT \in Inum
<1>1. NProc \in Nat /\ NFILE \in Nat /\ NOFILE \in Nat /\ NInode \in Nat \ {0}
  BY FileSysAssumption
<1>2. /\ 0 \in Int /\ 1 \in Int /\ NProc \in Int /\ NFILE \in Int /\ NOFILE - 1 \in Int
  BY <1>1, SMT
<1>3. IsFiniteSet(Proc) /\ IsFiniteSet(File) /\ IsFiniteSet(FD)
  BY <1>2, FS_Interval DEF Proc, File, FD
<1> QED
  BY <1>1, <1>3, SMT DEF Inum, File, None, ROOT

(* One process goes on to other operations: what all calls hold together   *)
(* changes by what that process holds.                                     *)
LEMMA CallingUpdate ==
  ASSUME NEW p \in Proc, NEW i
  PROVE  \A td, e \in [Proc -> Seq(Ops)] :
           (\A q \in Proc : Len(td[q]) <= 4) /\ (\A q \in Proc \ {p} : e[q] = td[q])
             => /\ Cardinality(Calling(td, i)) \in Nat
                /\ Cardinality(Calling(e, i)) =
                     Cardinality(Calling(td, i)) - Cnt(td[p], i) + Cnt(e[p], i)
<1> SUFFICES ASSUME NEW td \in [Proc -> Seq(Ops)], \A q \in Proc : Len(td[q]) <= 4,
                    NEW e \in [Proc -> Seq(Ops)], \A q \in Proc \ {p} : e[q] = td[q]
             PROVE  /\ Cardinality(Calling(td, i)) \in Nat
                    /\ Cardinality(Calling(e, i)) =
                         Cardinality(Calling(td, i)) - Cnt(td[p], i) + Cnt(e[p], i)
  OBVIOUS
<1> DEFINE R == UNION {{q} \X Held(td[q], i) : q \in Proc \ {p}}
           P(a) == {p} \X Held(a[p], i)
<1>1. IsFiniteSet(R)
  <2>1. R \subseteq Proc \X ((1 .. 4) \X {1, 2})
    <3> SUFFICES ASSUME NEW q \in Proc, NEW x \in {q} \X Held(td[q], i)
                 PROVE  x \in Proc \X ((1 .. 4) \X {1, 2})
      OBVIOUS
    <3>1. Len(td[q]) \in Nat /\ Len(td[q]) <= 4
      BY SMT
    <3>2. (1 .. Len(td[q])) \subseteq 1 .. 4
      BY <3>1, SMT
    <3>3. Held(td[q], i) \subseteq (1 .. Len(td[q])) \X {1, 2}
      BY DEF Held
    <3>4. Held(td[q], i) \subseteq (1 .. 4) \X {1, 2}
      BY <3>2, <3>3
    <3> QED
      BY <3>4
  <2>2. IsFiniteSet(1 .. 4) /\ IsFiniteSet({1, 2})
    <3>1. {1, 2} = 1 .. 2 /\ 1 \in Int /\ 2 \in Int /\ 4 \in Int
      BY SMT
    <3> QED
      BY <3>1, FS_Interval
  <2>3. IsFiniteSet((1 .. 4) \X {1, 2})
    BY <2>2, FS_Product
  <2>4. IsFiniteSet(Proc \X ((1 .. 4) \X {1, 2}))
    BY <2>3, FiniteSets_, FS_Product
  <2> HIDE DEF R
  <2> QED
    BY <2>1, <2>4, FS_Subset
<1>2. ASSUME NEW a \in [Proc -> Seq(Ops)], \A q \in Proc \ {p} : a[q] = td[q]
      PROVE  /\ Cardinality(Calling(a, i)) \in Nat /\ Cnt(a[p], i) \in Nat
             /\ Cardinality(Calling(a, i)) = Cardinality(R) + Cnt(a[p], i)
  <2>1. Calling(a, i) = R \cup P(a)
    <3>1. ASSUME NEW x \in Calling(a, i) PROVE x \in R \cup P(a)
      <4>1. PICK q \in Proc : x \in {q} \X Held(a[q], i)
        BY <3>1 DEF Calling
      <4>2. CASE q = p
        BY <4>1, <4>2
      <4>3. CASE q # p
        <5>1. q \in Proc \ {p} /\ x \in {q} \X Held(td[q], i)
          BY <1>2, <4>1, <4>3
        <5>2. x \in R
          BY <5>1
        <5> QED
          BY <5>2
      <4> QED
        BY <4>2, <4>3
    <3>2. ASSUME NEW x \in R PROVE x \in Calling(a, i)
      <4>1. PICK q \in Proc \ {p} : x \in {q} \X Held(td[q], i)
        BY <3>2
      <4>2. q \in Proc /\ x \in {q} \X Held(a[q], i)
        BY <1>2, <4>1
      <4> QED
        BY <4>2 DEF Calling
    <3>3. P(a) \subseteq Calling(a, i)
      BY DEF Calling
    <3> HIDE DEF R, P
    <3> QED
      BY <3>1, <3>2, <3>3
  <2>2. R \cap P(a) = {}
    BY SMT
  <2>3. IsFiniteSet(Held(a[p], i)) /\ Cardinality(Held(a[p], i)) \in Nat
    <3>1. Len(a[p]) \in Nat
      BY SMT
    <3> QED
      BY <3>1, HeldFinite DEF Cnt
  <2>4. IsFiniteSet({p}) /\ Cardinality({p}) = 1
    BY FS_Singleton
  <2>5. IsFiniteSet(P(a)) /\ Cardinality(P(a)) = Cardinality({p}) * Cardinality(Held(a[p], i))
    BY <2>3, <2>4, FS_Product
  <2>6. Cardinality(P(a)) = Cardinality(Held(a[p], i))
    <3> HIDE DEF P
    <3> QED
      BY <2>3, <2>4, <2>5, SMT
  <2> HIDE DEF R, P
  <2>7. Cardinality(R \cup P(a)) = Cardinality(R) + Cardinality(P(a)) - Cardinality(R \cap P(a))
    BY <1>1, <2>5, FS_Union
  <2>8. Cardinality(R \cap P(a)) = 0 /\ Cardinality(R) \in Nat
    BY <1>1, <2>2, FS_EmptySet, FS_CardinalityType
  <2>9. Cardinality(Calling(a, i)) = Cardinality(R) + Cardinality(Held(a[p], i)) - 0
    BY <2>1, <2>6, <2>7, <2>8
  <2> QED
    BY <2>3, <2>8, <2>9, SMT DEF Cnt
<1> HIDE DEF R
<1>3. Cardinality(R) \in Nat
  BY <1>1, FS_CardinalityType
<1>4. /\ Cardinality(Calling(td, i)) \in Nat /\ Cnt(td[p], i) \in Nat
      /\ Cardinality(Calling(td, i)) = Cardinality(R) + Cnt(td[p], i)
      /\ Cardinality(Calling(e, i)) \in Nat /\ Cnt(e[p], i) \in Nat
      /\ Cardinality(Calling(e, i)) = Cardinality(R) + Cnt(e[p], i)
  BY <1>2
<1> QED
  BY <1>3, <1>4, SMT

-----------------------------------------------------------------------------
(* Steps of one process through its operations. *)

(* What replaces an operation in the middle of a call, and what may follow *)
(* the last one or start a call.                                           *)
Middle(s) == Len(s) <= 1 /\ \A k \in 1 .. Len(s) :
               OpOK(s[k]) /\ s[k].do \notin Ends \cup {"putcwd"}
Plain(s) == Len(s) <= 4 /\ \A k \in 1 .. Len(s) :
              /\ OpOK(s[k]) /\ (s[k].do \in Ends => k = Len(s))
              /\ s[k].do \notin {"putcwd", "chdir", "dead"}

OpCalls == Calls \cup {On(i) : i \in Inum \cup {None}}

(* The invariant says of the operation p is about to do what its name says. *)
LEMMA CurrentOp ==
  ASSUME RefInv, NEW p \in Proc, NEW do, Now(p, do)
  PROVE  /\ todo[p] \in Seq(Ops) /\ todo[p] # <<>> /\ Tail(todo[p]) \in Seq(Ops)
         /\ Cur(p) = todo[p][1] /\ Cur(p) \in Ops /\ Cur(p).do = do
         /\ Cur(p).h \in Seq(Inum) /\ Cur(p).path \in Seq(Names \cup Dots)
         /\ Cur(p).call \in OpCalls
         /\ OpOK(Cur(p)) /\ alive[p]
         /\ do \in Ends => Len(todo[p]) = 1 /\ Tail(todo[p]) = <<>>
         /\ do \in Ends \ {"chdir", "dead"} => cwd[p] # None
<1> DEFINE s == todo[p]
<1>1. s \in Seq(Ops) /\ s # <<>> /\ Head(s).do = do
  BY DEF RefInv, RefTypeOK, Now
<1>2. TodoOK(s, alive[p], ofile[p]) /\ (cwd[p] = None <=> NoCwd(s, alive[p]))
  BY DEF RefInv, TodoInv, CwdInv
<1>3. Cur(p) = Head(s)
  BY DEF Cur
<1> HIDE DEF s
<1>4. /\ Head(s) = s[1] /\ Head(s) \in Ops /\ Tail(s) \in Seq(Ops)
      /\ 1 \in 1 .. Len(s) /\ (Len(s) = 1 => Tail(s) = <<>>)
  <2>1. Len(s) \in Nat /\ Len(s) # 0 /\ Head(s) = s[1] /\ Tail(s) \in Seq(Ops)
    BY <1>1, SMT
  <2>2. 1 \in 1 .. Len(s) /\ Head(s) \in Ops
    BY <1>1, <2>1, SMT
  <2>3. Len(s) = 1 => Tail(s) = <<>>
    <3>1. Len(Tail(s)) = Len(s) - 1
      BY <1>1, SMT
    <3>2. \A t \in Seq(Ops) : Len(t) = 0 => t = <<>>
      BY SMT
    <3>3. Len(s) = 1 => Len(Tail(s)) = 0
      BY <3>1, SMT
    <3> QED
      BY <2>1, <3>2, <3>3
  <2> QED
    BY <2>1, <2>2, <2>3
<1>5. OpOK(s[1]) /\ (s[1].do \in Ends => 1 = Len(s)) /\ alive[p]
  BY <1>1, <1>2, <1>4 DEF TodoOK
<1>6. /\ Head(s).h \in Seq(Inum) /\ Head(s).path \in Seq(Names \cup Dots)
      /\ Head(s).call \in OpCalls
  BY <1>4 DEF Ops, OpCalls
<1>7. s[1].do \in Ends \ {"chdir", "dead"} => cwd[p] # None
  BY <1>2, <1>5 DEF NoCwd
<1> QED
  BY <1>1, <1>3, <1>4, <1>5, <1>6, <1>7 DEF s

(* The operations of p are replaced by s. *)
LEMMA EnterCounts ==
  ASSUME RefInv, NEW p \in Proc, NEW s \in Seq(Ops), todo' = [todo EXCEPT ![p] = s]
  PROVE  /\ todo' \in [Proc -> Seq(Ops)] /\ todo'[p] = s
         /\ \A q \in Proc \ {p} : todo'[q] = todo[q]
         /\ \A i : /\ Cardinality(CallRefs(i)) \in Nat
                   /\ Cardinality(CallRefs(i)') =
                        Cardinality(CallRefs(i)) - Cnt(todo[p], i) + Cnt(s, i)
<1>1. todo \in [Proc -> Seq(Ops)]
  BY DEF RefInv, RefTypeOK
<1>2. \A q \in Proc : Len(todo[q]) <= 4
  BY DEF RefInv, TodoInv, TodoOK
<1>3. /\ todo' \in [Proc -> Seq(Ops)] /\ todo'[p] = s
      /\ \A q \in Proc \ {p} : todo'[q] = todo[q]
  BY <1>1
<1>4. \A i : CallRefs(i) = Calling(todo, i) /\ CallRefs(i)' = Calling(todo', i)
  BY DEF CallRefs, Calling
<1>5. ASSUME NEW i
      PROVE  /\ Cardinality(Calling(todo, i)) \in Nat
             /\ Cardinality(Calling(todo', i)) =
                  Cardinality(Calling(todo, i)) - Cnt(todo[p], i) + Cnt(todo'[p], i)
  <2> DEFINE td == todo  e == todo'
  <2>1. /\ td \in [Proc -> Seq(Ops)] /\ (\A q \in Proc : Len(td[q]) <= 4)
        /\ e \in [Proc -> Seq(Ops)] /\ (\A q \in Proc \ {p} : e[q] = td[q])
    BY <1>1, <1>2, <1>3
  <2> HIDE DEF td, e
  <2>2. /\ Cardinality(Calling(td, i)) \in Nat
        /\ Cardinality(Calling(e, i)) =
             Cardinality(Calling(td, i)) - Cnt(td[p], i) + Cnt(e[p], i)
    BY <2>1, CallingUpdate
  <2> QED
    BY <2>2 DEF td, e
<1>6. ASSUME NEW i
      PROVE  /\ Cardinality(CallRefs(i)) \in Nat
             /\ Cardinality(CallRefs(i)') =
                  Cardinality(CallRefs(i)) - Cnt(todo[p], i) + Cnt(s, i)
  BY <1>3, <1>4, <1>5
<1> QED
  BY <1>3, <1>6

(* p's first operation is replaced by s. *)
LEMMA ThenCounts ==
  ASSUME RefInv, NEW p \in Proc, NEW s \in Seq(Ops), todo[p] # <<>>, Then(p, s)
  PROVE  /\ todo' \in [Proc -> Seq(Ops)] /\ todo'[p] = s \o Tail(todo[p])
         /\ \A q \in Proc \ {p} : todo'[q] = todo[q]
         /\ \A i : /\ Cardinality(CallRefs(i)) \in Nat
                   /\ Cardinality(CallRefs(i)') =
                        Cardinality(CallRefs(i)) - N(Cur(p).h, i) + Cnt(s, i)
<1> DEFINE t == Tail(todo[p])  r == s \o t
<1>1. todo[p] \in Seq(Ops)
  BY DEF RefInv, RefTypeOK
<1>2. t \in Seq(Ops) /\ r \in Seq(Ops)
  BY <1>1, SMT
<1>3. todo' = [todo EXCEPT ![p] = r]
  BY DEF Then
<1> HIDE DEF r, t
<1>4. /\ todo' \in [Proc -> Seq(Ops)] /\ todo'[p] = r
      /\ \A q \in Proc \ {p} : todo'[q] = todo[q]
      /\ \A i : /\ Cardinality(CallRefs(i)) \in Nat
                /\ Cardinality(CallRefs(i)') =
                     Cardinality(CallRefs(i)) - Cnt(todo[p], i) + Cnt(r, i)
  BY <1>2, <1>3, EnterCounts
<1>5. ASSUME NEW i
      PROVE  Cardinality(CallRefs(i)') = Cardinality(CallRefs(i)) - N(Cur(p).h, i) + Cnt(s, i)
  <2>1. Cnt(r, i) = Cnt(s, i) + Cnt(t, i)
    BY <1>2, HeldConcat DEF r
  <2>2. Cnt(todo[p], i) = N(Cur(p).h, i) + Cnt(t, i)
    BY <1>1, HeldHead DEF Cur, t
  <2>3. Cnt(s, i) \in Nat /\ Cnt(t, i) \in Nat /\ N(Cur(p).h, i) \in Nat
    <3>1. Len(s) \in Nat /\ Len(t) \in Nat
      BY <1>2, SMT
    <3> QED
      BY <3>1, HeldFinite, SMT DEF N, Ind
  <2>4. /\ Cardinality(CallRefs(i)) \in Nat
        /\ Cardinality(CallRefs(i)') =
             Cardinality(CallRefs(i)) - Cnt(todo[p], i) + Cnt(r, i)
    BY <1>4
  <2> QED
    BY <2>1, <2>2, <2>3, <2>4, SMT
<1> QED
  BY <1>4, <1>5 DEF r, t

EntsOK == ents \in [Inum -> [Names \cup Dots -> Inum \cup {None}]]

(* The sets that RefsCounted counts are finite. *)
LEMMA RefCards ==
  /\ \A i : /\ IsFiniteSet(CwdRefs(i)) /\ Cardinality(CwdRefs(i)) \in Nat
            /\ IsFiniteSet(FileRefs(i)) /\ Cardinality(FileRefs(i)) \in Nat
  /\ \A f : IsFiniteSet(Descriptors(f)) /\ Cardinality(Descriptors(f)) \in Nat
<1>1. ASSUME NEW i
      PROVE  /\ IsFiniteSet(CwdRefs(i)) /\ Cardinality(CwdRefs(i)) \in Nat
             /\ IsFiniteSet(FileRefs(i)) /\ Cardinality(FileRefs(i)) \in Nat
  <2>1. CwdRefs(i) \subseteq Proc /\ FileRefs(i) \subseteq File
    BY DEF CwdRefs, FileRefs
  <2> QED
    BY <2>1, FiniteSets_, FS_Subset, FS_CardinalityType
<1>2. ASSUME NEW f
      PROVE  IsFiniteSet(Descriptors(f)) /\ Cardinality(Descriptors(f)) \in Nat
  <2>1. Descriptors(f) \subseteq Proc \X FD
    BY DEF Descriptors
  <2>2. IsFiniteSet(Proc \X FD)
    BY FiniteSets_, FS_Product
  <2> QED
    BY <2>1, <2>2, FS_Subset, FS_CardinalityType
<1> QED
  BY <1>1, <1>2

(* A step that moves references between the counts and the operations of   *)
(* p, and leaves descriptors, files and current directories alone.         *)
LEMMA CountsKept ==
  ASSUME RefInv, NEW p \in Proc, NEW s \in Seq(Ops), todo[p] # <<>>, Then(p, s),
         EntsOK', ref' \in [Inum -> Int], UNCHANGED procs,
         \A i \in Inum : ref'[i] = ref[i] + Cnt(s, i) - N(Cur(p).h, i)
  PROVE  RefTypeOK' /\ RefsCounted'
<1>1. alive' = alive /\ cwd' = cwd /\ ofile' = ofile /\ file' = file
  BY DEF procs
<1>2. /\ todo' \in [Proc -> Seq(Ops)]
      /\ \A i : /\ Cardinality(CallRefs(i)) \in Nat
                /\ Cardinality(CallRefs(i)') =
                     Cardinality(CallRefs(i)) - N(Cur(p).h, i) + Cnt(s, i)
  BY ThenCounts
<1>3. RefTypeOK'
  BY <1>1, <1>2 DEF RefInv, RefTypeOK, EntsOK
<1>4. /\ \A i : CwdRefs(i)' = CwdRefs(i) /\ FileRefs(i)' = FileRefs(i)
      /\ \A f : Descriptors(f)' = Descriptors(f)
  BY <1>1 DEF CwdRefs, FileRefs, Descriptors
<1>5. ASSUME NEW i \in Inum
      PROVE  ref'[i] = Cardinality(CwdRefs(i)') + Cardinality(FileRefs(i)')
                         + Cardinality(CallRefs(i)')
  <2>1. ref[i] = Cardinality(CwdRefs(i)) + Cardinality(FileRefs(i)) + Cardinality(CallRefs(i))
    BY DEF RefInv, RefsCounted
  <2>2. /\ Cardinality(CwdRefs(i)) \in Nat /\ Cardinality(FileRefs(i)) \in Nat
        /\ Cardinality(CallRefs(i)) \in Nat
    BY <1>2, RefCards
  <2>3. Cnt(s, i) \in Nat /\ N(Cur(p).h, i) \in Nat
    <3>1. Len(s) \in Nat
      BY SMT
    <3> QED
      BY <3>1, HeldFinite, SMT DEF N, Ind
  <2>4. Cardinality(CallRefs(i)') = Cardinality(CallRefs(i)) - N(Cur(p).h, i) + Cnt(s, i)
    BY <1>2
  <2>5. ref'[i] = ref[i] + Cnt(s, i) - N(Cur(p).h, i)
    OBVIOUS
  <2>6. Cardinality(CwdRefs(i)') = Cardinality(CwdRefs(i))
        /\ Cardinality(FileRefs(i)') = Cardinality(FileRefs(i))
    BY <1>4
  <2> QED
    BY <2>1, <2>2, <2>3, <2>4, <2>5, <2>6, SMT
<1>6. ASSUME NEW f \in File PROVE file'[f].ref = Cardinality(Descriptors(f)')
  BY <1>1, <1>4 DEF RefInv, RefsCounted
<1> QED
  BY <1>3, <1>5, <1>6 DEF RefsCounted

(* r is the list in which s takes the place of t's first operation. *)
Replaced(r, s, t) ==
  \A k \in 1 .. Len(r) :
     \/ k \in 1 .. Len(s) /\ r[k] = s[k]
     \/ k - Len(s) + 1 \in 2 .. Len(t) /\ r[k] = t[k - Len(s) + 1]

(* The elements of that list. *)
LEMMA Replaces ==
  ASSUME NEW t \in Seq(Ops), t # <<>>, NEW s \in Seq(Ops), NEW r, r = s \o Tail(t)
  PROVE  /\ r \in Seq(Ops) /\ Len(r) = Len(s) + Len(t) - 1
         /\ Len(r) \in Nat /\ Len(t) \in Nat \ {0} /\ Len(s) \in Nat
         /\ Replaced(r, s, t)
<1>1. /\ r \in Seq(Ops) /\ Len(r) = Len(s) + Len(t) - 1
      /\ Len(r) \in Nat /\ Len(t) \in Nat \ {0} /\ Len(s) \in Nat
  BY SMT
<1>2. ASSUME NEW k \in 1 .. Len(r)
      PROVE  \/ k \in 1 .. Len(s) /\ r[k] = s[k]
             \/ k - Len(s) + 1 \in 2 .. Len(t) /\ r[k] = t[k - Len(s) + 1]
  <2>1. CASE k <= Len(s)
    BY <1>1, <2>1, SMT
  <2>2. CASE ~(k <= Len(s))
    <3>1. k - Len(s) \in 1 .. Len(Tail(t)) /\ r[k] = Tail(t)[k - Len(s)]
      BY <1>1, <2>2, SMT
    <3>2. Tail(t)[k - Len(s)] = t[k - Len(s) + 1] /\ Len(Tail(t)) = Len(t) - 1
      BY <3>1, SMT
    <3> QED
      BY <1>1, <3>1, <3>2, SMT
  <2> QED
    BY <2>1, <2>2
<1> QED
  BY <1>1, <1>2 DEF Replaced

(* Replacing an operation in the middle keeps the list well formed. *)
LEMMA MiddleOK ==
  ASSUME NEW t, NEW fds, TodoOK(t, TRUE, fds),
         NEW s, Middle(s), t[1].do \notin Ends \cup {"putcwd"},
         NEW r \in Seq(Ops), Len(r) = Len(s) + Len(t) - 1,
         Len(r) \in Nat, Len(t) \in Nat \ {0}, Len(s) \in Nat, t # <<>>, Replaced(r, s, t)
  PROVE  TodoOK(r, TRUE, fds) /\ (NoCwd(r, TRUE) <=> NoCwd(t, TRUE))
<1>2. Len(s) <= 1 /\ Len(t) <= 4
  BY DEF Middle, TodoOK
<1>4. ASSUME NEW k \in 1 .. Len(r)
      PROVE  /\ OpOK(r[k])
             /\ r[k].do \in Ends => k = Len(r)
             /\ r[k].do # "putcwd"
             /\ r[k].do = "dead" => \A fd \in FD : fds[fd] = None
  <2>1. CASE k \in 1 .. Len(s) /\ r[k] = s[k]
    <3>1. OpOK(r[k]) /\ r[k].do \notin Ends \cup {"putcwd"}
      BY <2>1 DEF Middle
    <3> QED
      BY <3>1 DEF Ends
  <2>2. CASE k - Len(s) + 1 \in 2 .. Len(t) /\ r[k] = t[k - Len(s) + 1]
    <3> DEFINE j == k - Len(s) + 1
    <3>1. j \in 1 .. Len(t) /\ j # 1 /\ (j = Len(t) => k = Len(r)) /\ r[k] = t[j]
      BY <2>2, SMT
    <3> HIDE DEF j
    <3>2. /\ OpOK(t[j]) /\ (t[j].do \in Ends => j = Len(t)) /\ (t[j].do = "putcwd" => j = 1)
          /\ t[j].do = "dead" => \A fd \in FD : fds[fd] = None
      BY <3>1 DEF TodoOK
    <3> QED
      BY <3>1, <3>2
  <2> QED
    BY <2>1, <2>2 DEF Replaced
<1>5. TodoOK(r, TRUE, fds)
  <2>1. Len(r) <= 4
    BY <1>2, SMT
  <2> QED
    BY <1>4, <2>1 DEF TodoOK
<1>6. CASE Len(t) = 1
  <2>1. ~NoCwd(t, TRUE)
    BY <1>6 DEF NoCwd, Ends
  <2>2. r # <<>> => Len(r) \in 1 .. Len(r) /\ Len(r) \in 1 .. Len(s)
    BY <1>6, SMT
  <2>3. r # <<>> => r[Len(r)] = s[Len(r)]
    BY <1>6, <2>2, SMT DEF Replaced
  <2>4. r # <<>> => s[Len(r)].do \notin {"chdir", "dead"}
    BY <2>2 DEF Middle, Ends
  <2> QED
    BY <1>5, <2>1, <2>3, <2>4 DEF NoCwd
<1>7. CASE Len(t) # 1
  <2>0. /\ Len(r) # 0 /\ 1 \in 1 .. Len(r) /\ Len(r) \in 1 .. Len(r)
        /\ Len(r) - Len(s) + 1 = Len(t) /\ ~(Len(r) \in 1 .. Len(s))
    <3> DEFINE a == Len(r)  b == Len(s)  c == Len(t)
    <3>1. a \in Nat /\ b \in Nat /\ c \in Nat \ {0} /\ a = b + c - 1 /\ c # 1
      BY <1>7
    <3> HIDE DEF a, b, c
    <3>2. a # 0 /\ 1 \in 1 .. a /\ a \in 1 .. a /\ a - b + 1 = c /\ ~(a \in 1 .. b)
      BY <3>1, SMT
    <3> QED
      BY <3>2 DEF a, b, c
  <2>1. r # <<>>
    <3>1. Len(<<>>) = 0
      OBVIOUS
    <3> QED
      BY <2>0, <3>1
  <2>2. r[Len(r)] = t[Len(t)]
    BY <2>0 DEF Replaced
  <2>3. r[1].do # "putcwd"
    BY <1>4, <2>0
  <2>4. t[1].do # "putcwd"
    OBVIOUS
  <2> QED
    BY <1>5, <2>1, <2>2, <2>3, <2>4 DEF NoCwd
<1> QED
  BY <1>6, <1>7

(* An operation in the middle of a call. *)
LEMMA GoesOn ==
  ASSUME RefInv, NEW p \in Proc, NEW do, Now(p, do), do \notin Ends \cup {"putcwd"},
         NEW s \in Seq(Ops), Then(p, s), Middle(s),
         EntsOK', ref' \in [Inum -> Int], UNCHANGED procs,
         \A i \in Inum : ref'[i] = ref[i] + Cnt(s, i) - N(Cur(p).h, i)
  PROVE  RefInv'
<1>1. /\ todo[p] \in Seq(Ops) /\ todo[p] # <<>> /\ Cur(p) = todo[p][1]
      /\ Cur(p).do = do /\ alive[p]
  BY CurrentOp
<1>2. RefTypeOK' /\ RefsCounted'
  BY <1>1, CountsKept
<1>3. /\ todo'[p] = s \o Tail(todo[p])
      /\ \A q \in Proc \ {p} : todo'[q] = todo[q]
  BY <1>1, ThenCounts
<1>4. alive' = alive /\ cwd' = cwd /\ ofile' = ofile
  BY DEF procs
<1>5. \A q \in Proc : TodoOK(todo[q], alive[q], ofile[q]) /\ (cwd[q] = None <=> NoCwd(todo[q], alive[q]))
  BY DEF RefInv, TodoInv, CwdInv
<1>6. TodoOK(todo'[p], alive[p], ofile[p]) /\ (NoCwd(todo'[p], alive[p]) <=> NoCwd(todo[p], alive[p]))
  <2> DEFINE t == todo[p]  r == todo'[p]  fds == ofile[p]
  <2>1. /\ t \in Seq(Ops) /\ t # <<>> /\ r = s \o Tail(t)
        /\ t[1].do \notin Ends \cup {"putcwd"}
    BY <1>1, <1>3
  <2>2. alive[p] = TRUE
    BY <1>1 DEF RefInv, RefTypeOK
  <2>3. TodoOK(t, TRUE, fds)
    BY <1>5, <2>2
  <2> HIDE DEF t, r, fds
  <2>4. /\ r \in Seq(Ops) /\ Len(r) = Len(s) + Len(t) - 1
        /\ Len(r) \in Nat /\ Len(t) \in Nat \ {0} /\ Len(s) \in Nat
        /\ Replaced(r, s, t)
    BY <2>1, Replaces
  <2>5. TodoOK(r, TRUE, fds) /\ (NoCwd(r, TRUE) <=> NoCwd(t, TRUE))
    BY <2>1, <2>3, <2>4, MiddleOK
  <2> QED
    BY <2>2, <2>5 DEF t, r, fds
<1>7. \A q \in Proc : /\ TodoOK(todo'[q], alive'[q], ofile'[q])
                      /\ cwd'[q] = None <=> NoCwd(todo'[q], alive'[q])
  BY <1>3, <1>4, <1>5, <1>6
<1> QED
  BY <1>2, <1>7 DEF RefInv, TodoInv, CwdInv

(* A new list of operations for a process that has a current directory.    *)
LEMMA EntersOK ==
  ASSUME RefInv, NEW p \in Proc, alive[p], cwd[p] # None,
         NEW s \in Seq(Ops), todo' = [todo EXCEPT ![p] = s], Plain(s),
         UNCHANGED <<alive, cwd>>, \A q \in Proc \ {p} : ofile'[q] = ofile[q]
  PROVE  TodoInv' /\ CwdInv'
<1>1. todo'[p] = s /\ \A q \in Proc \ {p} : todo'[q] = todo[q]
  BY EnterCounts
<1>2. \A q \in Proc : TodoOK(todo[q], alive[q], ofile[q]) /\ (cwd[q] = None <=> NoCwd(todo[q], alive[q]))
  BY DEF RefInv, TodoInv, CwdInv
<1>3. TodoOK(s, alive[p], ofile'[p])
  BY DEF Plain, TodoOK
<1>4. ~NoCwd(s, alive[p])
  <2>1. s # <<>> => Len(s) \in 1 .. Len(s)
    BY SMT
  <2> QED
    BY <2>1 DEF Plain, NoCwd
<1>5. \A q \in Proc : /\ TodoOK(todo'[q], alive'[q], ofile'[q])
                      /\ cwd'[q] = None <=> NoCwd(todo'[q], alive'[q])
  BY <1>1, <1>2, <1>3, <1>4
<1> QED
  BY <1>5 DEF TodoInv, CwdInv

(* The last operation of a call, with what it starts. *)
LEMMA Finishes ==
  ASSUME RefInv, NEW p \in Proc, NEW do, Now(p, do), do \in Ends \ {"chdir", "dead"},
         NEW s \in Seq(Ops), Then(p, s), Plain(s),
         EntsOK', ref' \in [Inum -> Int], UNCHANGED procs,
         \A i \in Inum : ref'[i] = ref[i] + Cnt(s, i) - N(Cur(p).h, i)
  PROVE  RefInv'
<1>1. /\ todo[p] # <<>> /\ Tail(todo[p]) = <<>> /\ alive[p] /\ cwd[p] # None
  BY CurrentOp
<1>2. RefTypeOK' /\ RefsCounted'
  BY <1>1, CountsKept
<1>3. todo' = [todo EXCEPT ![p] = s]
  <2>1. s \o <<>> = s
    BY SMT
  <2> QED
    BY <1>1, <2>1 DEF Then
<1>4. UNCHANGED <<alive, cwd>> /\ \A q \in Proc \ {p} : ofile'[q] = ofile[q]
  BY DEF procs
<1>5. TodoInv' /\ CwdInv'
  BY <1>1, <1>3, <1>4, EntersOK
<1> QED
  BY <1>2, <1>5 DEF RefInv

-----------------------------------------------------------------------------
(* The operations, and what they hold. *)
OpNames == NoRef \cup OneRef \cup TwoRef \cup {"namex", "walk"}

(* An operation that is part of a call is one. *)
LEMMA OpType ==
  ASSUME NEW do \in OpNames, NEW h \in Seq(Inum), NEW c \in OpCalls, NEW path \in Seq(Names \cup Dots)
  PROVE  /\ Op(do, h, c, path) \in Ops
         /\ Op(do, h, c, path).do = do /\ Op(do, h, c, path).h = h
         /\ Op(do, h, c, path).call = c /\ Op(do, h, c, path).path = path
BY DEF Op, Ops, OpNames, OpCalls

(* An operation on an inode of an open file is one. *)
LEMMA OnType ==
  ASSUME NEW do \in OpNames, NEW h \in Seq(Inum), NEW i \in Inum \cup {None}
  PROVE  /\ Op(do, h, On(i), <<>>) \in Ops
         /\ Op(do, h, On(i), <<>>).do = do /\ Op(do, h, On(i), <<>>).h = h
<1>1. On(i) \in Calls \cup {On(k) : k \in Inum \cup {None}}
  OBVIOUS
<1>2. <<>> \in Seq(Names \cup Dots)
  BY SMT
<1> QED
  BY <1>1, <1>2 DEF Op, Ops, OpNames

(* An operation without a call is one. *)
LEMMA DoType ==
  ASSUME NEW do \in OpNames, NEW h \in Seq(Inum)
  PROVE  Do(do, h) \in Ops /\ Do(do, h).do = do /\ Do(do, h).h = h
<1>1. None \in Inum \cup {None}
  OBVIOUS
<1> QED
  BY <1>1, OnType, ZenonT(30) DEF Do

(* How often h holds an inode, by its length. *)
LEMMA Holds ==
  /\ \A j : N(<<>>, j) = 0
  /\ \A a, j : N(<<a>>, j) = Is(a, j)
  /\ \A a, b, j : N(<<a, b>>, j) = Is(a, j) + Is(b, j)
  /\ \A h \in Seq(Inum) : Len(h) = 1 =>
       /\ h[1] \in Inum /\ h # <<>> /\ Tail(h) = <<>>
       /\ \A j : N(h, j) = Is(h[1], j)
  /\ \A h \in Seq(Inum) : Len(h) = 2 =>
       /\ h[1] \in Inum /\ h[2] \in Inum
       /\ \A j : N(h, j) = Is(h[1], j) + Is(h[2], j)
<1>1. \A j : N(<<>>, j) = 0
  BY SMT DEF N, Ind, Is
<1>2. \A a, j : N(<<a>>, j) = Is(a, j)
  BY SMT DEF N, Ind, Is
<1>3. \A a, b, j : N(<<a, b>>, j) = Is(a, j) + Is(b, j)
  BY SMT DEF N, Ind, Is
<1>4. ASSUME NEW h \in Seq(Inum), Len(h) = 1
      PROVE  /\ h[1] \in Inum /\ h # <<>> /\ Tail(h) = <<>>
             /\ \A j : N(h, j) = Is(h[1], j)
  <2>1. h[1] \in Inum /\ h # <<>>
    BY <1>4, SMT
  <2>2. Tail(h) = <<>>
    <3>1. Tail(h) \in Seq(Inum) /\ Len(Tail(h)) = 0
      BY <1>4, SMT
    <3>2. \A t \in Seq(Inum) : Len(t) = 0 => t = <<>>
      BY SMT
    <3> QED
      BY <3>1, <3>2
  <2>3. \A j : N(h, j) = Is(h[1], j)
    BY <1>4, SMT DEF N, Ind, Is
  <2> QED
    BY <2>1, <2>2, <2>3
<1>5. ASSUME NEW h \in Seq(Inum), Len(h) = 2
      PROVE  /\ h[1] \in Inum /\ h[2] \in Inum
             /\ \A j : N(h, j) = Is(h[1], j) + Is(h[2], j)
  <2>1. 1 \in 1 .. Len(h) /\ 2 \in 1 .. Len(h)
    BY <1>5, SMT
  <2>2. h[1] \in Inum /\ h[2] \in Inum
    BY <2>1, SMT
  <2>3. \A j : N(h, j) = Is(h[1], j) + Is(h[2], j)
    BY <1>5, SMT DEF N, Ind, Is
  <2> QED
    BY <2>2, <2>3
<1> QED
  BY <1>1, <1>2, <1>3, <1>4, <1>5

(* The inode of an operation that owns one reference. *)
LEMMA OneOp ==
  ASSUME RefInv, NEW p \in Proc, NEW do \in OneRef, Now(p, do)
  PROVE  /\ Cur(p).h[1] \in Inum /\ Len(Cur(p).h) = 1
         /\ \A j : N(Cur(p).h, j) = Is(Cur(p).h[1], j)
<1>1. Cur(p).h \in Seq(Inum) /\ OpOK(Cur(p)) /\ Cur(p).do = do
  BY CurrentOp
<1>2. Len(Cur(p).h) = 1
  BY <1>1 DEF OpOK
<1> QED
  BY <1>1, <1>2, Holds

(* The inodes of an operation that owns two. *)
LEMMA TwoOp ==
  ASSUME RefInv, NEW p \in Proc, NEW do \in TwoRef, Now(p, do)
  PROVE  /\ Cur(p).h[1] \in Inum /\ Cur(p).h[2] \in Inum
         /\ \A j : N(Cur(p).h, j) = Is(Cur(p).h[1], j) + Is(Cur(p).h[2], j)
<1>1. Cur(p).h \in Seq(Inum) /\ OpOK(Cur(p)) /\ Cur(p).do = do
  BY CurrentOp
<1>2. Len(Cur(p).h) = 2
  BY <1>1 DEF OpOK
<1> QED
  BY <1>1, <1>2, Holds

(* The operations without a call, on no inode and on one. *)
Bare == {"put", "free", "freed", "unlockput", "unlink3"}

(* Without a call, on one inode. *)
LEMMA BareOne ==
  ASSUME NEW do \in Bare, NEW i \in Inum
  PROVE  /\ Do(do, <<i>>) \in Ops /\ Do(do, <<i>>).do = do /\ OpOK(Do(do, <<i>>))
         /\ \A j : N(Do(do, <<i>>).h, j) = Is(i, j)
<1> DEFINE o == Do(do, <<i>>)
<1>1. do \in OpNames /\ do \in OneRef /\ do \notin NoRef /\ do \notin TwoRef
  BY DEF Bare, OpNames, OneRef, NoRef, TwoRef
<1>2. <<i>> \in Seq(Inum) /\ Len(<<i>>) = 1
  BY SMT
<1>3. o \in Ops /\ o.do = do /\ o.h = <<i>>
  BY <1>1, <1>2, DoType
<1> HIDE DEF o
<1>4. OpOK(o)
  BY <1>1, <1>2, <1>3 DEF OpOK, Bare
<1>5. \A j : N(<<i>>, j) = Is(i, j)
  BY Holds
<1> QED
  BY <1>3, <1>4, <1>5 DEF o

(* Without a call, on no inode. *)
LEMMA BareNone ==
  ASSUME NEW do \in NoRef
  PROVE  /\ Do(do, <<>>) \in Ops /\ Do(do, <<>>).do = do /\ OpOK(Do(do, <<>>))
         /\ \A j : N(Do(do, <<>>).h, j) = 0
<1> DEFINE o == Do(do, <<>>)
<1>1. do \in OpNames /\ do \notin OneRef /\ do \notin TwoRef
  BY DEF OpNames, OneRef, NoRef, TwoRef
<1>2. <<>> \in Seq(Inum)
  BY SMT
<1>3. o \in Ops /\ o.do = do /\ o.h = <<>>
  BY <1>1, <1>2, DoType
<1> HIDE DEF o
<1>4. OpOK(o)
  BY <1>1, <1>3 DEF OpOK, NoRef
<1>5. \A j : N(<<>>, j) = 0
  BY Holds
<1> QED
  BY <1>3, <1>4, <1>5 DEF o

(* Lists of up to three operations. *)
LEMMA NoneList ==
  <<>> \in Seq(Ops) /\ Middle(<<>>) /\ Plain(<<>>) /\ \A j : Cnt(<<>>, j) = 0
<1>1. <<>> \in Seq(Ops) /\ Len(<<>>) = 0 /\ 1 .. 0 = {} /\ 0 <= 1 /\ 0 <= 4
  BY SMT
<1>2. Middle(<<>>) /\ Plain(<<>>)
  BY <1>1 DEF Middle, Plain
<1> QED
  BY <1>1, <1>2, HeldNone

(* A list of one operation. *)
LEMMA OneList ==
  ASSUME NEW x \in Ops, OpOK(x)
  PROVE  /\ <<x>> \in Seq(Ops)
         /\ x.do \notin Ends \cup {"putcwd"} => Middle(<<x>>)
         /\ x.do \notin {"putcwd", "chdir", "dead"} => Plain(<<x>>)
         /\ \A j : Cnt(<<x>>, j) = N(x.h, j)
<1> DEFINE s == <<x>>
<1>1. s \in Seq(Ops) /\ Len(s) = 1 /\ s[1] = x
  BY SMT
<1> HIDE DEF s
<1>2. Len(s) <= 1 /\ Len(s) <= 4 /\ \A k \in 1 .. Len(s) : s[k] = x /\ k = Len(s)
  BY <1>1, SMT
<1>3. x.do \notin Ends \cup {"putcwd"} => Middle(s)
  BY <1>2 DEF Middle
<1>4. x.do \notin {"putcwd", "chdir", "dead"} => Plain(s)
  BY <1>2 DEF Plain
<1> QED
  BY <1>1, <1>3, <1>4, HeldOne DEF s

(* What may stand before the end of a list, and at its end. *)
Mid(x) == x \in Ops /\ OpOK(x) /\ x.do \notin Ends \cup {"putcwd"}
Fin(x) == x \in Ops /\ OpOK(x) /\ x.do \notin {"putcwd", "chdir", "dead"}

(* What may stand in the middle may stand at the end. *)
LEMMA MidFin ==
  ASSUME NEW x, Mid(x)
  PROVE  Fin(x)
BY DEF Mid, Fin, Ends

(* A list of one operation that may stand at the end. *)
LEMMA FinList ==
  ASSUME NEW x, Fin(x)
  PROVE  <<x>> \in Seq(Ops) /\ Plain(<<x>>) /\ \A j : Cnt(<<x>>, j) = N(x.h, j)
BY OneList DEF Fin

(* A list of two operations. *)
LEMMA TwoList ==
  ASSUME NEW x, NEW y, Mid(x), Fin(y)
  PROVE  /\ <<x, y>> \in Seq(Ops) /\ Plain(<<x, y>>)
         /\ \A j : Cnt(<<x, y>>, j) = N(x.h, j) + N(y.h, j)
<1> DEFINE s == <<x, y>>
<1>1. x \in Ops /\ y \in Ops
  BY DEF Mid, Fin
<1>2. s \in Seq(Ops) /\ Len(s) = 2 /\ s[1] = x /\ s[2] = y
  BY <1>1, SMT
<1> HIDE DEF s
<1>3. Len(s) <= 4 /\ \A k \in 1 .. Len(s) : s[k] = x \/ (s[k] = y /\ k = Len(s))
  BY <1>2, SMT
<1>4. Fin(x)
  BY MidFin
<1>5. Plain(s)
  BY <1>3, <1>4 DEF Plain, Mid, Fin
<1> QED
  BY <1>1, <1>2, <1>5, HeldTwo DEF s

(* A list of three operations. *)
LEMMA ThreeList ==
  ASSUME NEW x, NEW y, NEW z, Mid(x), Mid(y), Fin(z)
  PROVE  /\ <<x, y, z>> \in Seq(Ops) /\ Plain(<<x, y, z>>)
         /\ \A j : Cnt(<<x, y, z>>, j) = N(x.h, j) + (N(y.h, j) + N(z.h, j))
<1> DEFINE s == <<x, y, z>>
<1>1. x \in Ops /\ y \in Ops /\ z \in Ops
  BY DEF Mid, Fin
<1>2. s \in Seq(Ops) /\ Len(s) = 3 /\ s[1] = x /\ s[2] = y /\ s[3] = z
  BY <1>1, SMT
<1> HIDE DEF s
<1>3. Len(s) <= 4 /\ \A k \in 1 .. Len(s) : s[k] = x \/ s[k] = y \/ (s[k] = z /\ k = Len(s))
  BY <1>2, SMT
<1>4. Fin(x) /\ Fin(y)
  BY MidFin
<1>5. Plain(s)
  BY <1>3, <1>4 DEF Plain, Mid, Fin
<1> QED
  BY <1>1, <1>2, <1>5, HeldThree DEF s

(* Operations that keep the references they have. *)
LEMMA HandsOn ==
  ASSUME RefInv, NEW p \in Proc, NEW do, Now(p, do), do \notin Ends \cup {"putcwd"},
         NEW s \in Seq(Ops), Then(p, s), Middle(s), EntsOK', ref' = ref, UNCHANGED procs,
         \A i \in Inum : Cnt(s, i) = N(Cur(p).h, i)
  PROVE  RefInv'
<1>1. ref \in [Inum -> Int]
  BY DEF RefInv, RefTypeOK
<1>2. ref' \in [Inum -> Int]
  BY <1>1
<1>3. \A i \in Inum : ref'[i] = ref[i] + Cnt(s, i) - N(Cur(p).h, i)
  <2> SUFFICES ASSUME NEW i \in Inum PROVE ref'[i] = ref[i] + Cnt(s, i) - N(Cur(p).h, i)
    OBVIOUS
  <2>1. ref[i] \in Int /\ ref'[i] = ref[i] /\ Cnt(s, i) = N(Cur(p).h, i)
    BY <1>1
  <2>2. N(Cur(p).h, i) \in Nat
    BY SMT DEF N, Ind, Is
  <2> QED
    BY <2>1, <2>2, SMT
<1> QED
  BY <1>2, <1>3, GoesOn

(* The last operation of a call hands its references on. *)
LEMMA HandsLast ==
  ASSUME RefInv, NEW p \in Proc, NEW do, Now(p, do), do \in Ends \ {"chdir", "dead"},
         NEW s \in Seq(Ops), Then(p, s), Plain(s), EntsOK', ref' = ref, UNCHANGED procs,
         \A i \in Inum : Cnt(s, i) = N(Cur(p).h, i)
  PROVE  RefInv'
<1>1. ref \in [Inum -> Int]
  BY DEF RefInv, RefTypeOK
<1>2. ref' \in [Inum -> Int]
  BY <1>1
<1>3. \A i \in Inum : ref'[i] = ref[i] + Cnt(s, i) - N(Cur(p).h, i)
  <2> SUFFICES ASSUME NEW i \in Inum PROVE ref'[i] = ref[i] + Cnt(s, i) - N(Cur(p).h, i)
    OBVIOUS
  <2>1. ref[i] \in Int /\ ref'[i] = ref[i] /\ Cnt(s, i) = N(Cur(p).h, i)
    BY <1>1
  <2>2. N(Cur(p).h, i) \in Nat
    BY SMT DEF N, Ind, Is
  <2> QED
    BY <2>1, <2>2, SMT
<1> QED
  BY <1>2, <1>3, Finishes

(* iget, and the assignment that undoes it in iput. *)
LEMMA Counted ==
  ASSUME RefInv, NEW i \in Inum, NEW d \in Int, ref' = [ref EXCEPT ![i] = @ + d]
  PROVE  /\ ref' \in [Inum -> Int]
         /\ \A j \in Inum : ref[j] \in Int /\ ref'[j] = IF i = j THEN ref[j] + d ELSE ref[j]
<1>1. ref \in [Inum -> Int]
  BY DEF RefInv, RefTypeOK
<1> QED
  BY <1>1, SMT

(* Directories that do not change keep their type. *)
LEMMA SameEnts ==
  ASSUME RefInv, UNCHANGED ents
  PROVE  EntsOK'
BY DEF RefInv, RefTypeOK, EntsOK

(* A step that changes no count, pointer or operation, a panic among them. *)
LEMMA PanicsInv ==
  ASSUME RefInv, UNCHANGED <<ents, ref, procs, todo>>
  PROVE  RefInv'
<1>1. /\ ents' = ents /\ ref' = ref /\ alive' = alive /\ cwd' = cwd /\ ofile' = ofile
      /\ file' = file /\ todo' = todo
  BY DEF procs
<1>2. RefTypeOK' /\ TodoInv' /\ CwdInv'
  BY <1>1 DEF RefInv, RefTypeOK, TodoInv, CwdInv
<1>3. /\ \A i : CwdRefs(i)' = CwdRefs(i) /\ FileRefs(i)' = FileRefs(i) /\ CallRefs(i)' = CallRefs(i)
      /\ \A f : Descriptors(f)' = Descriptors(f)
  BY <1>1 DEF CwdRefs, FileRefs, CallRefs, Descriptors
<1>4. RefsCounted'
  BY <1>1, <1>3 DEF RefInv, RefsCounted
<1> QED
  BY <1>2, <1>4 DEF RefInv

-----------------------------------------------------------------------------
(* iput, iunlockput, the transactions and the other operations in the      *)
(* middle of a call.                                                       *)

(* An operation on one inode goes over into another one on it. *)
LEMMA Passes ==
  ASSUME RefInv, NEW p \in Proc, NEW do \in OneRef, Now(p, do), do \notin Ends \cup {"putcwd"},
         NEW to \in Bare, Then(p, <<Do(to, <<Cur(p).h[1]>>)>>),
         EntsOK', ref' = ref, UNCHANGED procs
  PROVE  RefInv'
<1> DEFINE i == Cur(p).h[1]  x == Do(to, <<i>>)  s == <<x>>
<1>1. i \in Inum /\ \A j : N(Cur(p).h, j) = Is(i, j)
  BY OneOp
<1>2. Then(p, s)
  OBVIOUS
<1> HIDE DEF i
<1>3. x \in Ops /\ x.do = to /\ OpOK(x) /\ \A j : N(x.h, j) = Is(i, j)
  BY <1>1, BareOne
<1>4. to \notin Ends \cup {"putcwd"}
  BY DEF Bare, Ends
<1> HIDE DEF x
<1>5. s \in Seq(Ops) /\ Middle(s) /\ \A j : Cnt(s, j) = N(x.h, j)
  BY <1>3, <1>4, OneList
<1> HIDE DEF s
<1>6. \A j \in Inum : Cnt(s, j) = N(Cur(p).h, j)
  BY <1>1, <1>3, <1>5
<1> QED
  BY <1>2, <1>5, <1>6, HandsOn

(* The reference of an operation is given up. *)
LEMMA Drops ==
  ASSUME RefInv, NEW p \in Proc, NEW do \in OneRef, Now(p, do), do \notin Ends \cup {"putcwd"},
         Then(p, <<>>), EntsOK', UNCHANGED procs,
         ref' = [ref EXCEPT ![Cur(p).h[1]] = @ - 1]
  PROVE  RefInv'
<1> DEFINE i == Cur(p).h[1]
<1>1. i \in Inum /\ \A j : N(Cur(p).h, j) = Is(i, j)
  BY OneOp
<1>2. ref \in [Inum -> Int]
  BY DEF RefInv, RefTypeOK
<1>3. ref' \in [Inum -> Int]
      /\ \A j \in Inum : ref[j] \in Int /\ ref'[j] = IF i = j THEN ref[j] - 1 ELSE ref[j]
  BY <1>1, <1>2, SMT
<1> HIDE DEF i
<1>4. \A j \in Inum : ref'[j] = ref[j] + Cnt(<<>>, j) - N(Cur(p).h, j)
  <2> SUFFICES ASSUME NEW j \in Inum PROVE ref'[j] = ref[j] + Cnt(<<>>, j) - N(Cur(p).h, j)
    OBVIOUS
  <2>1. /\ Cnt(<<>>, j) = 0 /\ N(Cur(p).h, j) = Is(i, j)
        /\ ref[j] \in Int /\ ref'[j] = IF i = j THEN ref[j] - 1 ELSE ref[j]
    BY <1>1, <1>3, NoneList
  <2> QED
    BY <2>1, SMT DEF Is
<1>5. <<>> \in Seq(Ops) /\ Middle(<<>>)
  BY NoneList
<1> QED
  BY <1>3, <1>4, <1>5, GoesOn

(* The kinds of the operations of this section. *)
LEMMA Names1 ==
  /\ {"put", "free", "freed", "unlockput", "linkbad", "unlink3"} \subseteq OneRef \ (Ends \cup {"putcwd"})
  /\ {"begin", "commit", "writei", "readi"} \subseteq NoRef \ (Ends \cup {"putcwd"})
  /\ {"put", "free", "freed", "unlockput", "unlink3"} \subseteq Bare
BY DEF OneRef, NoRef, Ends, Bare

(* iput: the reference is given up, or the inode is freed first. *)
LEMMA iputInv ==
  ASSUME RefInv, NEW p \in Proc, iput(p)
  PROVE  RefInv'
<1> DEFINE i == Cur(p).h[1]
<1>1. Now(p, "put")
  BY DEF iput
<1>2. CASE Panics
  BY <1>2, PanicsInv DEF Panics, disk, cache
<1>3. CASE Then(p, <<Do("free", <<i>>)>>) /\ UNCHANGED <<disk, ref, procs>>
  <2>1. EntsOK'
    BY <1>3, SameEnts DEF disk
  <2> QED
    BY <1>1, <1>3, <2>1, Passes, Names1
<1>4. CASE ref' = [ref EXCEPT ![i] = @ - 1] /\ Then(p, <<>>) /\ UNCHANGED <<disk, procs>>
  <2>1. EntsOK'
    BY <1>4, SameEnts DEF disk
  <2> QED
    BY <1>1, <1>4, <2>1, Drops, Names1
<1> QED
  BY <1>2, <1>3, <1>4 DEF iput

(* itrunc and iupdate keep the reference. *)
LEMMA ifreeInv ==
  ASSUME RefInv, NEW p \in Proc, ifree(p)
  PROVE  RefInv'
<1> DEFINE i == Cur(p).h[1]
<1>1. Now(p, "free")
  BY DEF ifree
<1>2. CASE Panics
  BY <1>2, PanicsInv DEF Panics, disk, cache
<1>3. CASE /\ ents' = [ents EXCEPT ![i] = NoEntries]
           /\ Then(p, <<Do("freed", <<i>>)>>) /\ UNCHANGED <<cache, procs>>
  <2>1. EntsOK'
    <3>1. ents \in [Inum -> [Names \cup Dots -> Inum \cup {None}]]
      BY DEF RefInv, RefTypeOK
    <3>2. NoEntries \in [Names \cup Dots -> Inum \cup {None}]
      BY DEF NoEntries
    <3>3. ents' \in [Inum -> [Names \cup Dots -> Inum \cup {None}]]
      BY <1>3, <3>1, <3>2
    <3> QED
      BY <3>3 DEF EntsOK
  <2> QED
    BY <1>1, <1>3, <2>1, Passes, Names1 DEF cache
<1> QED
  BY <1>2, <1>3 DEF ifree

(* The end of iput, after the inode has been freed. *)
LEMMA ifreedInv ==
  ASSUME RefInv, NEW p \in Proc, ifreed(p)
  PROVE  RefInv'
<1>1. /\ Now(p, "freed") /\ ref' = [ref EXCEPT ![Cur(p).h[1]] = @ - 1]
      /\ Then(p, <<>>) /\ UNCHANGED <<disk, procs>>
  BY DEF ifreed
<1>2. EntsOK'
  BY <1>1, SameEnts DEF disk
<1> QED
  BY <1>1, <1>2, Drops, Names1

(* iunlockput goes over into iput. *)
LEMMA iunlockputInv ==
  ASSUME RefInv, NEW p \in Proc, iunlockput(p)
  PROVE  RefInv'
<1>1. /\ Now(p, "unlockput") /\ Then(p, <<Do("put", <<Cur(p).h[1]>>)>>)
      /\ UNCHANGED <<disk, ref, procs>>
  BY DEF iunlockput, Put
<1>2. EntsOK'
  BY <1>1, SameEnts DEF disk
<1> QED
  BY <1>1, <1>2, Passes, Names1

(* The failure path of sys_link goes over into iput. *)
LEMMA linkbadInv ==
  ASSUME RefInv, NEW p \in Proc, linkbad(p)
  PROVE  RefInv'
<1>1. /\ Now(p, "linkbad") /\ Then(p, <<Do("put", <<Cur(p).h[1]>>)>>)
      /\ UNCHANGED <<ents, ref, procs>>
  BY DEF linkbad, Put
<1>2. EntsOK'
  BY <1>1, SameEnts
<1> QED
  BY <1>1, <1>2, Passes, Names1

(* The end of sys_unlink goes over into iunlockput. *)
LEMMA unlink3Inv ==
  ASSUME RefInv, NEW p \in Proc, unlink3(p)
  PROVE  RefInv'
<1>1. /\ Now(p, "unlink3") /\ Then(p, <<Do("unlockput", <<Cur(p).h[1]>>)>>)
      /\ UNCHANGED <<ents, ref, procs>>
  BY DEF unlink3, cache
<1>2. EntsOK'
  BY <1>1, SameEnts
<1> QED
  BY <1>1, <1>2, Passes, Names1

(* Operations that hold nothing and only come to their end. *)
LEMMA Passed ==
  ASSUME RefInv, NEW p \in Proc, NEW do \in NoRef, Now(p, do), do \notin Ends \cup {"putcwd"},
         Then(p, <<>>), UNCHANGED <<ents, ref, procs>>
  PROVE  RefInv'
<1>1. Cur(p).h = <<>>
  <2>1. OpOK(Cur(p)) /\ Cur(p).do = do
    BY CurrentOp
  <2> QED
    BY <2>1 DEF OpOK
<1>2. \A j \in Inum : Cnt(<<>>, j) = N(Cur(p).h, j)
  BY <1>1, NoneList, Holds
<1>3. <<>> \in Seq(Ops) /\ Middle(<<>>) /\ EntsOK'
  BY NoneList, SameEnts
<1> QED
  BY <1>2, <1>3, HandsOn

(* begin_trans and commit_trans hold nothing. *)
LEMMA begin_transInv ==
  ASSUME RefInv, NEW p \in Proc, begin_trans(p) \/ commit_trans(p)
  PROVE  RefInv'
<1>1. PICK do \in {"begin", "commit"} : Now(p, do) /\ Then(p, <<>>) /\ UNCHANGED <<ents, ref, procs>>
  BY DEF begin_trans, commit_trans, disk, cache
<1> QED
  BY <1>1, Passed, Names1

(* writei and readi hold nothing: the open file does. *)
LEMMA writeiInv ==
  ASSUME RefInv, NEW p \in Proc, writei(p)
  PROVE  RefInv'
<1>1. CASE Panics
  BY <1>1, PanicsInv DEF Panics, disk, cache
<1>2. CASE ~Panics
  <2>1. PICK do \in {"writei", "readi"} : Now(p, do)
    BY DEF writei
  <2>2. Then(p, <<>>) /\ UNCHANGED <<ents, ref, procs>>
    BY <1>2 DEF writei
  <2> QED
    BY <2>1, <2>2, Passed, Names1
<1> QED
  BY <1>1, <1>2

-----------------------------------------------------------------------------
(* Operations with a call. *)
LEMMA PutOp ==
  ASSUME NEW i \in Inum
  PROVE  Mid(Put(i)) /\ \A j : N(Put(i).h, j) = Is(i, j)
BY BareOne, Names1, SMT DEF Put, Mid

(* An operation without a call, on one inode, in the middle of a list. *)
LEMMA BareMid ==
  ASSUME NEW do \in Bare, NEW i \in Inum
  PROVE  Mid(Do(do, <<i>>)) /\ \A j : N(Do(do, <<i>>).h, j) = Is(i, j)
<1>1. do \notin Ends \cup {"putcwd"}
  BY Names1 DEF Bare
<1> QED
  BY <1>1, BareOne DEF Mid

(* begin_trans and commit_trans as operations. *)
LEMMA TransOps ==
  /\ Mid(Begin) /\ \A j : N(Begin.h, j) = 0
  /\ Mid(Commit) /\ \A j : N(Commit.h, j) = 0
<1>1. ASSUME NEW do \in {"begin", "commit"}
      PROVE  Mid(Do(do, <<>>)) /\ \A j : N(Do(do, <<>>).h, j) = 0
  <2>1. do \in NoRef /\ do \notin Ends \cup {"putcwd"}
    BY Names1
  <2> QED
    BY <2>1, BareNone DEF Mid
<1> QED
  BY <1>1 DEF Begin, Commit

OneNames == {"unlink1", "create1", "create2", "open", "use", "linkbad", "link1"}

(* The operations of a call that own one reference. *)
LEMMA CallOneOf ==
  ASSUME NEW do \in OneNames, NEW h \in Seq(Inum), Len(h) = 1,
         NEW c \in OpCalls, NEW path \in Seq(Names \cup Dots),
         do \in {"unlink1", "create1"} => path # <<>>,
         do = "link1" => c \in Calls /\ c.op = "link"
  PROVE  /\ Fin(Op(do, h, c, path)) /\ Op(do, h, c, path).h = h
         /\ do = "linkbad" => Mid(Op(do, h, c, path))
<1> DEFINE o == Op(do, h, c, path)
<1>1. /\ do \in OpNames /\ do \notin NoRef /\ do \notin TwoRef /\ do \notin {"namex", "walk"}
      /\ do \notin {"link2", "unlink2", "create3"} /\ do \notin {"putcwd", "chdir", "dead"}
      /\ do = "linkbad" => do \notin Ends \cup {"putcwd"}
  BY DEF OpNames, NoRef, OneRef, TwoRef, Ends, OneNames
<1>2. o \in Ops /\ o.do = do /\ o.h = h /\ o.call = c /\ o.path = path
  BY <1>1 DEF Op, Ops, OpNames, OpCalls
<1> HIDE DEF o
<1>3. OpOK(o)
  BY <1>1, <1>2 DEF OpOK
<1>4. Fin(o) /\ (do = "linkbad" => Mid(o))
  BY <1>1, <1>2, <1>3 DEF Fin, Mid
<1> QED
  BY <1>2, <1>4 DEF o

(* The same, of a given inode. *)
LEMMA CallOne ==
  ASSUME NEW do \in OneNames, NEW i \in Inum, NEW c \in OpCalls, NEW path \in Seq(Names \cup Dots),
         do \in {"unlink1", "create1"} => path # <<>>,
         do = "link1" => c \in Calls /\ c.op = "link"
  PROVE  /\ Fin(Op(do, <<i>>, c, path)) /\ \A j : N(Op(do, <<i>>, c, path).h, j) = Is(i, j)
         /\ do = "linkbad" => Mid(Op(do, <<i>>, c, path))
<1> DEFINE h == <<i>>
<1>1. h \in Seq(Inum) /\ Len(h) = 1
  BY SMT
<1>2. \A j : N(h, j) = Is(i, j)
  BY Holds
<1> HIDE DEF h
<1>3. /\ Fin(Op(do, h, c, path)) /\ Op(do, h, c, path).h = h
      /\ do = "linkbad" => Mid(Op(do, h, c, path))
  BY <1>1, CallOneOf
<1> QED
  BY <1>2, <1>3 DEF h

(* The operations of a call that own two references. *)
LEMMA CallTwoOf ==
  ASSUME NEW do \in TwoRef, NEW h \in Seq(Inum), Len(h) = 2, NEW c \in OpCalls,
         NEW path \in Seq(Names \cup Dots), path # <<>>
  PROVE  Fin(Op(do, h, c, path)) /\ Op(do, h, c, path).h = h
<1> DEFINE o == Op(do, h, c, path)
<1>1. /\ do \in OpNames /\ do \notin NoRef /\ do \notin OneRef
      /\ do \notin {"namex", "walk", "link1"} /\ do \notin {"putcwd", "chdir", "dead"}
  BY DEF OpNames, NoRef, OneRef, TwoRef
<1>2. o \in Ops /\ o.do = do /\ o.h = h /\ o.call = c /\ o.path = path
  BY <1>1 DEF Op, Ops, OpNames, OpCalls
<1> HIDE DEF o
<1>3. OpOK(o)
  BY <1>1, <1>2 DEF OpOK
<1> QED
  BY <1>1, <1>2, <1>3 DEF o, Fin

(* The same, of given inodes. *)
LEMMA CallTwo ==
  ASSUME NEW do \in TwoRef, NEW i \in Inum, NEW k \in Inum, NEW c \in OpCalls,
         NEW path \in Seq(Names \cup Dots), path # <<>>
  PROVE  /\ Fin(Op(do, <<i, k>>, c, path))
         /\ \A j : N(Op(do, <<i, k>>, c, path).h, j) = Is(i, j) + Is(k, j)
<1> DEFINE h == <<i, k>>
<1>1. h \in Seq(Inum) /\ Len(h) = 2
  BY SMT
<1>2. \A j : N(h, j) = Is(i, j) + Is(k, j)
  BY SMT DEF N, Ind, Is
<1> HIDE DEF h
<1>3. Fin(Op(do, h, c, path)) /\ Op(do, h, c, path).h = h
  BY <1>1, CallTwoOf
<1> QED
  BY <1>2, <1>3 DEF h

(* An inode before those in hand. *)
LEMMA Cons ==
  ASSUME NEW i \in Inum, NEW h \in Seq(Inum)
  PROVE  /\ <<i>> \o h \in Seq(Inum) /\ (<<i>> \o h)[1] = i
         /\ h = <<>> => <<i>> \o h = <<i>> /\ Len(<<i>> \o h) = 1
         /\ Len(h) = 1 => Len(<<i>> \o h) = 2 /\ (<<i>> \o h)[2] = h[1]
<1>1. <<i>> \o h \in Seq(Inum) /\ (<<i>> \o h)[1] = i
  BY SMT
<1>2. ASSUME h = <<>> PROVE <<i>> \o h = <<i>> /\ Len(<<i>> \o h) = 1
  BY <1>2, SMT
<1>3. ASSUME Len(h) = 1 PROVE Len(<<i>> \o h) = 2 /\ (<<i>> \o h)[2] = h[1]
  BY <1>3, SMT
<1> QED
  BY <1>1, <1>2, <1>3

(* A second path is looked up with a reference in hand, h. *)
Hand(h, c) == h = <<>> \/ (Len(h) = 1 /\ c.op = "link")

(* The operations of a path look-up. *)
LEMMA PathOps ==
  ASSUME NEW h \in Seq(Inum), NEW c \in Calls, Hand(h, c), NEW path \in Seq(Names \cup Dots)
  PROVE  /\ Fin(Op("namex", h, c, path)) /\ Op("namex", h, c, path).h = h
         /\ \A i \in Inum : /\ Fin(Op("walk", <<i>> \o h, c, path))
                            /\ \A j : N(Op("walk", <<i>> \o h, c, path).h, j) = Is(i, j) + N(h, j)
<1>1. /\ {"namex", "walk"} \subseteq OpNames
      /\ {"namex", "walk"} \cap (NoRef \cup OneRef \cup TwoRef) = {}
  BY DEF OpNames, NoRef, OneRef, TwoRef
<1>2. c \in OpCalls
  BY DEF OpCalls
<1>3. Fin(Op("namex", h, c, path)) /\ Op("namex", h, c, path).h = h
  <2> DEFINE o == Op("namex", h, c, path)
  <2>1. o \in Ops /\ o.do = "namex" /\ o.h = h /\ o.call = c /\ o.path = path
    BY <1>1, <1>2, OpType, SMT
  <2> HIDE DEF o
  <2>2. OpOK(o)
    BY <1>1, <2>1 DEF OpOK, Hand
  <2> QED
    BY <2>1, <2>2 DEF o, Fin
<1>4. ASSUME NEW i \in Inum
      PROVE  /\ Fin(Op("walk", <<i>> \o h, c, path))
             /\ \A j : N(Op("walk", <<i>> \o h, c, path).h, j) = Is(i, j) + N(h, j)
  <2> DEFINE g == <<i>> \o h  o == Op("walk", g, c, path)
  <2>1. /\ g \in Seq(Inum) /\ g[1] = i
        /\ h = <<>> => g = <<i>> /\ Len(g) = 1
        /\ Len(h) = 1 => Len(g) = 2 /\ g[2] = h[1]
    BY Cons
  <2> HIDE DEF g
  <2>2. Len(g) = 1 \/ (Len(g) = 2 /\ c.op = "link")
    BY <2>1 DEF Hand
  <2>3. \A j : N(g, j) = Is(i, j) + N(h, j)
    <3>1. CASE h = <<>>
      <4>1. \A j : N(<<i>>, j) = Is(i, j) /\ N(<<>>, j) = 0
        BY Holds
      <4>2. \A j : Is(i, j) = Is(i, j) + 0
        BY SMT DEF Is
      <4> QED
        BY <2>1, <3>1, <4>1, <4>2
    <3>2. CASE Len(h) = 1
      <4>1. \A j : N(g, j) = Is(g[1], j) + Is(g[2], j)
        BY <2>1, <3>2, Holds
      <4>2. \A j : N(h, j) = Is(h[1], j)
        BY <3>2, Holds
      <4> QED
        BY <2>1, <3>2, <4>1, <4>2
    <3> QED
      BY <3>1, <3>2 DEF Hand
  <2>4. o \in Ops /\ o.do = "walk" /\ o.h = g /\ o.call = c /\ o.path = path
    BY <1>1, <1>2, <2>1, OpType, SMT
  <2> HIDE DEF o
  <2>5. OpOK(o)
    BY <1>1, <2>2, <2>4 DEF OpOK
  <2> QED
    BY <2>3, <2>4, <2>5 DEF o, g, Fin
<1> QED
  BY <1>3, <1>4

-----------------------------------------------------------------------------
(* The system calls on path names. *)

(* The last operation of a call takes one more reference, to i. *)
LEMMA Gains ==
  ASSUME RefInv, NEW p \in Proc, NEW do, Now(p, do), do \in Ends \ {"chdir", "dead"},
         NEW s \in Seq(Ops), Then(p, s), Plain(s), EntsOK', UNCHANGED procs,
         NEW i \in Inum, iget(i), \A j \in Inum : Cnt(s, j) = Is(i, j) + N(Cur(p).h, j)
  PROVE  RefInv'
<1>1. ref \in [Inum -> Int]
  BY DEF RefInv, RefTypeOK
<1>2. ref' = [ref EXCEPT ![i] = @ + 1]
  BY DEF iget
<1>3. ref' \in [Inum -> Int]
      /\ \A j \in Inum : ref[j] \in Int /\ ref'[j] = IF i = j THEN ref[j] + 1 ELSE ref[j]
  BY <1>1, <1>2, SMT
<1>4. \A j \in Inum : ref'[j] = ref[j] + Cnt(s, j) - N(Cur(p).h, j)
  <2> SUFFICES ASSUME NEW j \in Inum PROVE ref'[j] = ref[j] + Cnt(s, j) - N(Cur(p).h, j)
    OBVIOUS
  <2>1. /\ Cnt(s, j) = Is(i, j) + N(Cur(p).h, j)
        /\ ref[j] \in Int /\ ref'[j] = IF i = j THEN ref[j] + 1 ELSE ref[j]
    BY <1>3
  <2>2. N(Cur(p).h, j) \in Nat
    BY SMT DEF N, Ind
  <2> QED
    BY <2>1, <2>2, SMT DEF Is
<1> QED
  BY <1>3, <1>4, Finishes

(* The last operation of a call goes over into one other. *)
LEMMA LastOne ==
  ASSUME RefInv, NEW p \in Proc, NEW do, Now(p, do), do \in Ends \ {"chdir", "dead"},
         NEW x, Fin(x), Then(p, <<x>>), EntsOK', ref' = ref, UNCHANGED procs,
         \A j \in Inum : N(x.h, j) = N(Cur(p).h, j)
  PROVE  RefInv'
<1> DEFINE s == <<x>>
<1>1. s \in Seq(Ops) /\ Plain(s) /\ \A j : Cnt(s, j) = N(x.h, j)
  BY FinList
<1>2. Then(p, s)
  OBVIOUS
<1> HIDE DEF s
<1>3. \A j \in Inum : Cnt(s, j) = N(Cur(p).h, j)
  BY <1>1
<1> QED
  BY <1>1, <1>2, <1>3, HandsLast

(* Into two others. *)
LEMMA LastTwo ==
  ASSUME RefInv, NEW p \in Proc, NEW do, Now(p, do), do \in Ends \ {"chdir", "dead"},
         NEW x, NEW y, Mid(x), Fin(y), Then(p, <<x, y>>), EntsOK', ref' = ref, UNCHANGED procs,
         \A j \in Inum : N(x.h, j) + N(y.h, j) = N(Cur(p).h, j)
  PROVE  RefInv'
<1> DEFINE s == <<x, y>>
<1>1. s \in Seq(Ops) /\ Plain(s) /\ \A j : Cnt(s, j) = N(x.h, j) + N(y.h, j)
  BY TwoList
<1>2. Then(p, s)
  OBVIOUS
<1> HIDE DEF s
<1>3. \A j \in Inum : Cnt(s, j) = N(Cur(p).h, j)
  BY <1>1
<1> QED
  BY <1>1, <1>2, <1>3, HandsLast

(* Into three others. *)
LEMMA LastThree ==
  ASSUME RefInv, NEW p \in Proc, NEW do, Now(p, do), do \in Ends \ {"chdir", "dead"},
         NEW x, NEW y, NEW z, Mid(x), Mid(y), Fin(z), Then(p, <<x, y, z>>),
         EntsOK', ref' = ref, UNCHANGED procs,
         \A j \in Inum : N(x.h, j) + (N(y.h, j) + N(z.h, j)) = N(Cur(p).h, j)
  PROVE  RefInv'
<1> DEFINE s == <<x, y, z>>
<1>1. s \in Seq(Ops) /\ Plain(s) /\ \A j : Cnt(s, j) = N(x.h, j) + (N(y.h, j) + N(z.h, j))
  BY ThreeList, SMT
<1>2. Then(p, s)
  OBVIOUS
<1> HIDE DEF s
<1>3. \A j \in Inum : Cnt(s, j) = N(Cur(p).h, j)
  BY <1>1
<1> QED
  BY <1>1, <1>2, <1>3, HandsLast

(* Sums of the shapes that the lists give. *)
LEMMA Sums ==
  /\ \A i, j : Is(i, j) + 0 = Is(i, j) /\ 0 + Is(i, j) = Is(i, j)
  /\ \A i, k, j : /\ Is(i, j) + (Is(k, j) + 0) = Is(i, j) + Is(k, j)
                  /\ Is(i, j) + Is(k, j) = Is(k, j) + Is(i, j)
                  /\ Is(i, j) + (0 + Is(k, j)) = Is(i, j) + Is(k, j)
BY SMT DEF Is

(* The kinds of the operations of this section. *)
LEMMA Names2 ==
  /\ {"namex", "walk", "link1", "link2", "unlink1", "unlink2", "create1", "create2",
      "create3", "open", "use"} \subseteq Ends \ {"chdir", "dead"}
  /\ {"link1", "unlink1", "create1", "create2", "open", "use"} \subseteq OneRef
  /\ {"link2", "unlink2", "create3"} \subseteq TwoRef
BY DEF Ends, OneRef, TwoRef

(* sys_link, up to the second look-up. *)
LEMMA link1Inv ==
  ASSUME RefInv, NEW p \in Proc, link1(p)
  PROVE  RefInv'
<1> DEFINE o == Cur(p)  i == o.h[1]
<1>1. Now(p, "link1") /\ "link1" \in Ends \ {"chdir", "dead"} /\ "link1" \in OneRef
  BY Names2 DEF link1
<1>2. i \in Inum /\ Len(o.h) = 1 /\ \A j : N(o.h, j) = Is(i, j)
  BY <1>1, OneOp
<1>3. CASE Panics
  BY <1>3, PanicsInv DEF Panics, disk, cache
<1>4. CASE Then(p, <<Put(i), Commit>>) /\ UNCHANGED <<ents, ref, procs>>
  <2>1. EntsOK'
    BY <1>4, SameEnts
  <2>2. Mid(Put(i)) /\ \A j : N(Put(i).h, j) = Is(i, j)
    BY <1>2, PutOp
  <2>3. Fin(Commit) /\ \A j : N(Commit.h, j) = 0
    BY TransOps, MidFin
  <2>4. \A j \in Inum : N(Put(i).h, j) + N(Commit.h, j) = N(o.h, j)
    BY <1>2, <2>2, <2>3, Sums, SMTT(30)
  <2> QED
    BY <1>1, <1>4, <2>1, <2>2, <2>3, <2>4, LastTwo
<1>5. CASE /\ Then(p, <<Op("namex", o.h, o.call, o.call.new)>>)
           /\ UNCHANGED <<ents, ref, procs>>
  <2> DEFINE x == Op("namex", o.h, o.call, o.call.new)
  <2>1. EntsOK'
    BY <1>5, SameEnts
  <2>2. OpOK(o) /\ o.do = "link1" /\ o.h \in Seq(Inum)
    BY <1>1, CurrentOp
  <2>3. o.call \in Calls /\ o.call.op = "link"
    BY <2>2 DEF OpOK
  <2>4. o.call.new \in Seq(Names \cup Dots) /\ Hand(o.h, o.call)
    <3> DEFINE c == o.call
    <3>1. c \in Calls /\ c.op = "link"
      BY <2>3
    <3> HIDE DEF c
    <3>2. c.new \in Seq(Names \cup Dots)
      BY <3>1, FileSysAssumption
    <3> QED
      BY <1>2, <2>3, <3>2 DEF Hand, c
  <2>5. Fin(x) /\ x.h = o.h
    BY <2>2, <2>3, <2>4, PathOps
  <2> HIDE DEF x
  <2>6. \A j \in Inum : N(x.h, j) = N(o.h, j)
    BY <2>5
  <2>7. Then(p, <<x>>)
    BY <1>5 DEF x
  <2> QED
    BY <1>1, <1>5, <2>1, <2>5, <2>6, <2>7, LastOne
<1> QED
  BY <1>3, <1>4, <1>5 DEF link1

(* The last name of a path. *)
LEMMA PathHead ==
  ASSUME NEW path \in Seq(Names \cup Dots), path # <<>>
  PROVE  Head(path) \in Names \cup Dots /\ Tail(path) \in Seq(Names \cup Dots)
BY SMT

(* The entry that link, create and unlink change. *)
LEMMA NewEntry ==
  ASSUME RefInv, NEW d \in Inum, NEW path \in Seq(Names \cup Dots), path # <<>>,
         NEW i \in Inum \cup {None}, ents' = [ents EXCEPT ![d][Head(path)] = i]
  PROVE  EntsOK'
<1>1. ents \in [Inum -> [Names \cup Dots -> Inum \cup {None}]]
  BY DEF RefInv, RefTypeOK
<1>2. Head(path) \in Names \cup Dots
  BY PathHead
<1>3. ents' \in [Inum -> [Names \cup Dots -> Inum \cup {None}]]
  BY <1>1, <1>2
<1> QED
  BY <1>3 DEF EntsOK

(* sys_link's dirlink, done or failed. *)
LEMMA link2Inv ==
  ASSUME RefInv, NEW p \in Proc, link2(p)
  PROVE  RefInv'
<1> DEFINE o == Cur(p)  dp == o.h[1]  ip == o.h[2]
<1>1. Now(p, "link2") /\ "link2" \in Ends \ {"chdir", "dead"} /\ "link2" \in TwoRef
  BY Names2 DEF link2
<1>2. dp \in Inum /\ ip \in Inum /\ \A j : N(o.h, j) = Is(dp, j) + Is(ip, j)
  BY <1>1, TwoOp
<1>3. OpOK(o) /\ o.do = "link2" /\ o.path \in Seq(Names \cup Dots) /\ o.call \in OpCalls
  BY <1>1, CurrentOp
<1>4. o.path # <<>>
  BY <1>3 DEF OpOK
<1>5. Mid(Put(dp)) /\ \A j : N(Put(dp).h, j) = Is(dp, j)
  BY <1>2, PutOp
<1>6. Fin(Commit) /\ \A j : N(Commit.h, j) = 0
  BY TransOps, MidFin
<1>7. CASE Panics
  BY <1>7, PanicsInv DEF Panics, disk, cache
<1>8. CASE /\ Then(p, <<Put(dp), Op("linkbad", <<ip>>, o.call, <<>>), Commit>>)
           /\ UNCHANGED <<ents, ref, procs>>
  <2> DEFINE y == Op("linkbad", <<ip>>, o.call, <<>>)
  <2>1. EntsOK'
    BY <1>8, SameEnts
  <2>2. <<>> \in Seq(Names \cup Dots) /\ "linkbad" \in OneNames
    BY SMT DEF OneNames
  <2>3. Mid(y) /\ \A j : N(y.h, j) = Is(ip, j)
    BY <1>2, <1>3, <2>2, CallOne
  <2>4. \A j \in Inum : N(Put(dp).h, j) + (N(y.h, j) + N(Commit.h, j)) = N(o.h, j)
    BY <1>2, <1>5, <1>6, <2>3, Sums, SMTT(30)
  <2> QED
    BY <1>1, <1>5, <1>6, <1>8, <2>1, <2>3, <2>4, LastThree
<1>9. CASE /\ ents' = dirlink(dp, Head(o.path), ip)
           /\ Then(p, <<Put(dp), Put(ip), Commit>>)
           /\ UNCHANGED <<ref, procs>>
  <2>1. EntsOK'
    BY <1>2, <1>3, <1>4, <1>9, NewEntry DEF dirlink
  <2>2. Mid(Put(ip)) /\ \A j : N(Put(ip).h, j) = Is(ip, j)
    BY <1>2, PutOp
  <2>3. \A j \in Inum : N(Put(dp).h, j) + (N(Put(ip).h, j) + N(Commit.h, j)) = N(o.h, j)
    BY <1>2, <1>5, <1>6, <2>2, Sums, SMTT(30)
  <2> QED
    BY <1>1, <1>5, <1>6, <1>9, <2>1, <2>2, <2>3, LastThree, ZenonT(30)
<1> QED
  BY <1>7, <1>8, <1>9 DEF link2

-----------------------------------------------------------------------------
(* Current directories and open files. *)

(* Process p goes on with s; its descriptors and its current directory may *)
(* change as well.                                                         *)
LEMMA Moves ==
  ASSUME RefInv, NEW p \in Proc, NEW s \in Seq(Ops), todo' = [todo EXCEPT ![p] = s],
         \A q \in Proc \ {p} : /\ alive'[q] = alive[q] /\ cwd'[q] = cwd[q]
                               /\ ofile'[q] = ofile[q],
         TodoOK(s, alive'[p], ofile'[p]), cwd'[p] = None <=> NoCwd(s, alive'[p])
  PROVE  TodoInv' /\ CwdInv'
<1>1. todo'[p] = s /\ \A q \in Proc \ {p} : todo'[q] = todo[q]
  BY EnterCounts
<1>2. \A q \in Proc : TodoOK(todo[q], alive[q], ofile[q]) /\ (cwd[q] = None <=> NoCwd(todo[q], alive[q]))
  BY DEF RefInv, TodoInv, CwdInv
<1>3. \A q \in Proc : /\ TodoOK(todo'[q], alive'[q], ofile'[q])
                      /\ cwd'[q] = None <=> NoCwd(todo'[q], alive'[q])
  BY <1>1, <1>2
<1> QED
  BY <1>3 DEF TodoInv, CwdInv

(* What ip->ref counts, when p goes on with s. *)
LEMMA Recount ==
  ASSUME RefInv, NEW p \in Proc, NEW s \in Seq(Ops), todo' = [todo EXCEPT ![p] = s],
         NEW i \in Inum,
         ref'[i] = ref[i] + (Cardinality(CwdRefs(i)') - Cardinality(CwdRefs(i)))
                     + (Cardinality(FileRefs(i)') - Cardinality(FileRefs(i)))
                     + (Cnt(s, i) - Cnt(todo[p], i)),
         Cardinality(CwdRefs(i)') \in Nat, Cardinality(FileRefs(i)') \in Nat
  PROVE  ref'[i] = Cardinality(CwdRefs(i)') + Cardinality(FileRefs(i)') + Cardinality(CallRefs(i)')
<1>1. ref[i] = Cardinality(CwdRefs(i)) + Cardinality(FileRefs(i)) + Cardinality(CallRefs(i))
  BY DEF RefInv, RefsCounted
<1>2. /\ Cardinality(CwdRefs(i)) \in Nat /\ Cardinality(FileRefs(i)) \in Nat
      /\ Cardinality(CallRefs(i)) \in Nat
      /\ Cardinality(CallRefs(i)') = Cardinality(CallRefs(i)) - Cnt(todo[p], i) + Cnt(s, i)
  BY EnterCounts, RefCards
<1>3. Cnt(s, i) \in Nat /\ Cnt(todo[p], i) \in Nat
  <2>1. todo[p] \in Seq(Ops)
    BY DEF RefInv, RefTypeOK
  <2>2. Len(s) \in Nat /\ Len(todo[p]) \in Nat
    BY <2>1, SMT
  <2> QED
    BY <2>2, HeldFinite
<1> DEFINE a == Cardinality(CwdRefs(i))  a1 == Cardinality(CwdRefs(i)')
           b == Cardinality(FileRefs(i))  b1 == Cardinality(FileRefs(i)')
           c == Cardinality(CallRefs(i))  c1 == Cardinality(CallRefs(i)')
           k == Cnt(todo[p], i)  k1 == Cnt(s, i)  r == ref[i]  r1 == ref'[i]
<1>4. /\ a \in Nat /\ a1 \in Nat /\ b \in Nat /\ b1 \in Nat /\ c \in Nat /\ k \in Nat /\ k1 \in Nat
      /\ r = a + b + c /\ c1 = c - k + k1 /\ r1 = r + (a1 - a) + (b1 - b) + (k1 - k)
  BY <1>1, <1>2, <1>3
<1> HIDE DEF a, a1, b, b1, c, c1, k, k1, r, r1
<1>5. r1 = a1 + b1 + c1
  BY <1>4, SMT
<1> QED
  BY <1>5 DEF a1, b1, c1, r1

(* The current directory of p changes. *)
LEMMA CwdUpdate ==
  ASSUME NEW p \in Proc, \A q \in Proc \ {p} : cwd'[q] = cwd[q]
  PROVE  \A i : /\ Cardinality(CwdRefs(i)) \in Nat /\ Cardinality(CwdRefs(i)') \in Nat
                /\ Cardinality(CwdRefs(i)') = Cardinality(CwdRefs(i)) + Is(cwd'[p], i) - Is(cwd[p], i)
<1> SUFFICES ASSUME NEW i
             PROVE  /\ Cardinality(CwdRefs(i)) \in Nat /\ Cardinality(CwdRefs(i)') \in Nat
                    /\ Cardinality(CwdRefs(i)') =
                         Cardinality(CwdRefs(i)) + Is(cwd'[p], i) - Is(cwd[p], i)
  OBVIOUS
<1> DEFINE S == CwdRefs(i)  T == CwdRefs(i)'
<1>1. IsFiniteSet(S)
  BY RefCards
<1>2. \A q : /\ q \in S <=> q \in Proc /\ cwd[q] = i
             /\ q \in T <=> q \in Proc /\ cwd'[q] = i
  BY DEF CwdRefs
<1> HIDE DEF S, T
<1>3. S \ {p} = T \ {p}
  BY <1>2
<1>4. /\ Cardinality(S) \in Nat /\ Cardinality(T) \in Nat
      /\ Cardinality(T) = Cardinality(S) + Ind(p \in T) - Ind(p \in S)
  BY <1>1, <1>3, CardUpdate
<1>5. Ind(p \in T) = Is(cwd'[p], i) /\ Ind(p \in S) = Is(cwd[p], i)
  BY <1>2 DEF Ind, Is
<1> QED
  BY <1>4, <1>5 DEF S, T

(* One file structure changes. *)
LEMMA FileUpdate ==
  ASSUME NEW f \in File, \A g \in File \ {f} : file'[g] = file[g]
  PROVE  \A i : /\ Cardinality(FileRefs(i)) \in Nat /\ Cardinality(FileRefs(i)') \in Nat
                /\ Cardinality(FileRefs(i)') = Cardinality(FileRefs(i))
                     + Ind(file'[f].ref > 0 /\ file'[f].ip = i) - Ind(file[f].ref > 0 /\ file[f].ip = i)
<1> SUFFICES ASSUME NEW i
             PROVE  /\ Cardinality(FileRefs(i)) \in Nat /\ Cardinality(FileRefs(i)') \in Nat
                    /\ Cardinality(FileRefs(i)') = Cardinality(FileRefs(i))
                         + Ind(file'[f].ref > 0 /\ file'[f].ip = i)
                         - Ind(file[f].ref > 0 /\ file[f].ip = i)
  OBVIOUS
<1> DEFINE S == FileRefs(i)  T == FileRefs(i)'
<1>1. IsFiniteSet(S)
  BY RefCards
<1>2. \A g : /\ g \in S <=> g \in File /\ file[g].ref > 0 /\ file[g].ip = i
             /\ g \in T <=> g \in File /\ file'[g].ref > 0 /\ file'[g].ip = i
  BY DEF FileRefs
<1> HIDE DEF S, T
<1>3. S \ {f} = T \ {f}
  BY <1>2
<1>4. /\ Cardinality(S) \in Nat /\ Cardinality(T) \in Nat
      /\ Cardinality(T) = Cardinality(S) + Ind(f \in T) - Ind(f \in S)
  BY <1>1, <1>3, CardUpdate
<1>5. /\ Ind(f \in T) = Ind(file'[f].ref > 0 /\ file'[f].ip = i)
      /\ Ind(f \in S) = Ind(file[f].ref > 0 /\ file[f].ip = i)
  BY <1>2 DEF Ind
<1> QED
  BY <1>4, <1>5 DEF S, T

(* The descriptors that name file structure f, when the tables are o. *)
Desc(o, f) == {t \in Proc \X FD : o[t[1]][t[2]] = f}

(* Two such tables differ in descriptor fd of p at most. *)
Elsewhere(u, v, p, fd) == \A q \in Proc, k \in FD : q # p \/ k # fd => v[q][k] = u[q][k]

(* How many descriptors name g, when one descriptor changes. *)
LEMMA DescUpdate ==
  ASSUME NEW p \in Proc, NEW fd \in FD, NEW u, NEW v, Elsewhere(u, v, p, fd), NEW g
  PROVE  /\ Cardinality(Desc(u, g)) \in Nat /\ Cardinality(Desc(v, g)) \in Nat
         /\ Cardinality(Desc(v, g)) =
              Cardinality(Desc(u, g)) + Is(v[p][fd], g) - Is(u[p][fd], g)
<1> DEFINE S == Desc(u, g)  T == Desc(v, g)  x == <<p, fd>>
<1>1. IsFiniteSet(S)
  <2>1. S \subseteq Proc \X FD
    BY DEF Desc
  <2>2. IsFiniteSet(Proc \X FD)
    BY FiniteSets_, FS_Product
  <2> QED
    BY <2>1, <2>2, FS_Subset
<1>2. \A t : /\ t \in S <=> t \in Proc \X FD /\ u[t[1]][t[2]] = g
             /\ t \in T <=> t \in Proc \X FD /\ v[t[1]][t[2]] = g
  BY DEF Desc
<1> HIDE DEF S, T
<1>3. \A t \in Proc \X FD : t # x => v[t[1]][t[2]] = u[t[1]][t[2]]
  <2> SUFFICES ASSUME NEW q \in Proc, NEW k \in FD, q # p \/ k # fd
               PROVE  v[q][k] = u[q][k]
    BY SMT
  <2> QED
    BY DEF Elsewhere
<1>4. S \ {x} = T \ {x}
  <2> HIDE DEF x
  <2> QED
    BY <1>2, <1>3
<1>5. /\ Cardinality(S) \in Nat /\ Cardinality(T) \in Nat
      /\ Cardinality(T) = Cardinality(S) + Ind(x \in T) - Ind(x \in S)
  BY <1>1, <1>4, CardUpdate
<1>6. Ind(x \in T) = Is(v[p][fd], g) /\ Ind(x \in S) = Is(u[p][fd], g)
  BY <1>2, SMT DEF Ind, Is
<1> QED
  BY <1>5, <1>6 DEF S, T

(* The current directory of p becomes d, and p goes on with s. *)
LEMMA CwdStep ==
  ASSUME RefInv, NEW p \in Proc, NEW s \in Seq(Ops), todo' = [todo EXCEPT ![p] = s],
         NEW d \in Inum \cup {None}, cwd' = [cwd EXCEPT ![p] = d],
         alive' \in [Proc -> BOOLEAN], UNCHANGED <<ents, ref, ofile, file>>,
         \A j \in Inum : Is(d, j) + Cnt(s, j) = Is(cwd[p], j) + Cnt(todo[p], j)
  PROVE  RefTypeOK' /\ RefsCounted'
<1>1. /\ ents' = ents /\ ref' = ref /\ ofile' = ofile /\ file' = file
  OBVIOUS
<1>2. cwd \in [Proc -> Inum \cup {None}] /\ todo[p] \in Seq(Ops) /\ ref \in [Inum -> Int]
  BY DEF RefInv, RefTypeOK
<1>3. /\ cwd' \in [Proc -> Inum \cup {None}] /\ cwd'[p] = d
      /\ \A q \in Proc \ {p} : cwd'[q] = cwd[q]
  BY <1>2
<1>4. todo' \in [Proc -> Seq(Ops)]
  BY EnterCounts
<1>5. RefTypeOK'
  BY <1>1, <1>3, <1>4 DEF RefInv, RefTypeOK
<1>6. ASSUME NEW i \in Inum
      PROVE  ref'[i] = Cardinality(CwdRefs(i)') + Cardinality(FileRefs(i)')
                         + Cardinality(CallRefs(i)')
  <2> DEFINE a == Cardinality(CwdRefs(i))  a1 == Cardinality(CwdRefs(i)')
             b == Cardinality(FileRefs(i))  b1 == Cardinality(FileRefs(i)')
             k == Cnt(todo[p], i)  k1 == Cnt(s, i)  r == ref[i]  r1 == ref'[i]
             e == Is(cwd[p], i)  e1 == Is(d, i)
  <2>1. a \in Nat /\ a1 \in Nat /\ a1 = a + e1 - e
    BY <1>3, CwdUpdate
  <2>2. b1 = b /\ b \in Nat
    BY <1>1, RefCards DEF FileRefs
  <2>3. k \in Nat /\ k1 \in Nat
    <3>1. Len(s) \in Nat /\ Len(todo[p]) \in Nat
      BY <1>2, SMT
    <3> QED
      BY <3>1, HeldFinite
  <2>4. e1 + k1 = e + k
    OBVIOUS
  <2>5. e \in Nat /\ e1 \in Nat
    BY DEF Is
  <2>6. r1 = r /\ r \in Int
    BY <1>1, <1>2
  <2> HIDE DEF a, a1, b, b1, k, k1, r, r1, e, e1
  <2>7. r1 = r + (a1 - a) + (b1 - b) + (k1 - k)
    BY <2>1, <2>2, <2>3, <2>4, <2>5, <2>6, SMTT(30)
  <2>8. /\ ref'[i] = ref[i] + (Cardinality(CwdRefs(i)') - Cardinality(CwdRefs(i)))
                       + (Cardinality(FileRefs(i)') - Cardinality(FileRefs(i)))
                       + (Cnt(s, i) - Cnt(todo[p], i))
        /\ Cardinality(CwdRefs(i)') \in Nat /\ Cardinality(FileRefs(i)') \in Nat
    BY <2>1, <2>2, <2>7 DEF a, a1, b, b1, k, k1, r, r1
  <2> QED
    BY <2>8, Recount
<1>7. ASSUME NEW f \in File PROVE file'[f].ref = Cardinality(Descriptors(f)')
  <2>1. Descriptors(f)' = Descriptors(f)
    BY <1>1 DEF Descriptors
  <2> QED
    BY <1>1, <2>1 DEF RefInv, RefsCounted
<1> QED
  BY <1>5, <1>6, <1>7 DEF RefsCounted

(* A process with one operation left, and with two. *)
LEMMA LastIs ==
  ASSUME RefInv, NEW p \in Proc, NEW do, Now(p, do), do \in Ends
  PROVE  /\ \A j : Cnt(todo[p], j) = N(Cur(p).h, j)
         /\ \A s \in Seq(Ops) : Then(p, s) => todo' = [todo EXCEPT ![p] = s]
<1>1. todo[p] \in Seq(Ops) /\ todo[p] # <<>> /\ Tail(todo[p]) = <<>>
  BY CurrentOp
<1>2. ASSUME NEW j PROVE Cnt(todo[p], j) = N(Cur(p).h, j)
  <2>1. Cnt(todo[p], j) = N(Head(todo[p]).h, j) + Cnt(Tail(todo[p]), j)
    BY <1>1, HeldHead
  <2>2. Cnt(todo[p], j) = N(Cur(p).h, j) + 0
    BY <1>1, <2>1, NoneList DEF Cur
  <2>3. N(Cur(p).h, j) \in Nat
    BY SMT DEF N, Ind
  <2> QED
    BY <2>2, <2>3, SMT
<1>3. \A s \in Seq(Ops) : s \o <<>> = s
  BY SMT
<1> QED
  BY <1>1, <1>2, <1>3 DEF Then

-----------------------------------------------------------------------------
(* Descriptors and file structures. *)

(* One descriptor of p becomes b. *)
LEMMA DescChange ==
  ASSUME NEW p \in Proc, NEW fd \in FD, Elsewhere(ofile, ofile', p, fd), NEW g
  PROVE  Cardinality(Descriptors(g)') =
           Cardinality(Descriptors(g)) + Is(ofile'[p][fd], g) - Is(ofile[p][fd], g)
<1>1. Descriptors(g) = Desc(ofile, g) /\ Descriptors(g)' = Desc(ofile', g)
  BY DEF Descriptors, Desc
<1>2. Cardinality(Desc(ofile', g)) =
        Cardinality(Desc(ofile, g)) + Is(ofile'[p][fd], g) - Is(ofile[p][fd], g)
  BY DescUpdate, SMT
<1> QED
  BY <1>1, <1>2

(* The count of file structure f becomes that of v as the descriptor fd of *)
(* p becomes b; the open files and the operations of p exchange references. *)
DescMove(p, fd, b, f, v) ==
  \A g \in File : (IF g = f THEN v.ref ELSE file[g].ref) =
                    file[g].ref + Is(b, g) - Is(ofile[p][fd], g)
RefMove(p, s, f, v) ==
  \A i \in Inum : Ind(v.ref > 0 /\ v.ip = i) + Cnt(s, i) =
                    Ind(file[f].ref > 0 /\ file[f].ip = i) + Cnt(todo[p], i)

(* The counts of the inode cache, when one file structure changes. *)
LEMMA FileCounts ==
  ASSUME RefInv, NEW p \in Proc, NEW s \in Seq(Ops), todo' = [todo EXCEPT ![p] = s],
         ref' = ref, cwd' = cwd, NEW f \in File, NEW v, file'[f] = v,
         \A g \in File \ {f} : file'[g] = file[g], RefMove(p, s, f, v)
  PROVE  \A i \in Inum : ref'[i] = Cardinality(CwdRefs(i)') + Cardinality(FileRefs(i)')
                                  + Cardinality(CallRefs(i)')
<1> SUFFICES ASSUME NEW i \in Inum
             PROVE  ref'[i] = Cardinality(CwdRefs(i)') + Cardinality(FileRefs(i)')
                                + Cardinality(CallRefs(i)')
  OBVIOUS
<1> DEFINE a == Cardinality(CwdRefs(i))  a1 == Cardinality(CwdRefs(i)')
           c == Cardinality(FileRefs(i))  c1 == Cardinality(FileRefs(i)')
           k == Cnt(todo[p], i)  k1 == Cnt(s, i)  r == ref[i]  r1 == ref'[i]
           e == Ind(file[f].ref > 0 /\ file[f].ip = i)  e1 == Ind(v.ref > 0 /\ v.ip = i)
<1>1. c \in Nat /\ c1 \in Nat /\ c1 = c + e1 - e
  BY FileUpdate
<1>2. a1 = a /\ a \in Nat
  BY RefCards DEF CwdRefs
<1>3. k \in Nat /\ k1 \in Nat
  <2>1. todo[p] \in Seq(Ops)
    BY DEF RefInv, RefTypeOK
  <2>2. Len(s) \in Nat /\ Len(todo[p]) \in Nat
    BY <2>1, SMT
  <2> QED
    BY <2>2, HeldFinite
<1>4. e1 + k1 = e + k
  BY DEF RefMove
<1>5. e \in Nat /\ e1 \in Nat
  BY DEF Ind
<1>6. r1 = r /\ r \in Int
  BY DEF RefInv, RefTypeOK
<1> HIDE DEF a, a1, c, c1, k, k1, r, r1, e, e1
<1>7. r1 = r + (a1 - a) + (c1 - c) + (k1 - k)
  BY <1>1, <1>2, <1>3, <1>4, <1>5, <1>6, SMT
<1>8. /\ ref'[i] = ref[i] + (Cardinality(CwdRefs(i)') - Cardinality(CwdRefs(i)))
                     + (Cardinality(FileRefs(i)') - Cardinality(FileRefs(i)))
                     + (Cnt(s, i) - Cnt(todo[p], i))
      /\ Cardinality(CwdRefs(i)') \in Nat /\ Cardinality(FileRefs(i)') \in Nat
  BY <1>1, <1>2, <1>7 DEF a, a1, c, c1, k, k1, r, r1
<1> QED
  BY <1>8, Recount

(* One descriptor of p changes to b and one file structure to v, while p   *)
(* goes on with s.                                                         *)
LEMMA FileStep ==
  ASSUME RefInv, NEW p \in Proc, NEW s \in Seq(Ops), todo' = [todo EXCEPT ![p] = s],
         UNCHANGED <<ents, ref, alive, cwd>>,
         NEW fd \in FD, NEW b \in File \cup {None}, ofile' = [ofile EXCEPT ![p][fd] = b],
         NEW f \in File, NEW v \in [ref : Int, ip : Inum \cup {None}],
         file' = [file EXCEPT ![f] = v],
         DescMove(p, fd, b, f, v), RefMove(p, s, f, v)
  PROVE  RefTypeOK' /\ RefsCounted'
<1>1. ents' = ents /\ ref' = ref /\ alive' = alive /\ cwd' = cwd
  OBVIOUS
<1>2. /\ ofile \in [Proc -> [FD -> File \cup {None}]] /\ todo[p] \in Seq(Ops) /\ ref \in [Inum -> Int]
      /\ file \in [File -> [ref : Int, ip : Inum \cup {None}]]
  BY DEF RefInv, RefTypeOK
<1>3. /\ file' \in [File -> [ref : Int, ip : Inum \cup {None}]] /\ file'[f] = v
      /\ \A g \in File \ {f} : file'[g] = file[g]
  BY <1>2
<1>4. /\ ofile' \in [Proc -> [FD -> File \cup {None}]] /\ ofile'[p][fd] = b
      /\ Elsewhere(ofile, ofile', p, fd)
  BY <1>2 DEF Elsewhere
<1>5. todo' \in [Proc -> Seq(Ops)]
  BY EnterCounts
<1>6. RefTypeOK'
  BY <1>1, <1>3, <1>4, <1>5, ZenonT(30) DEF RefInv, RefTypeOK
<1>7. \A i \in Inum : ref'[i] = Cardinality(CwdRefs(i)') + Cardinality(FileRefs(i)')
                                 + Cardinality(CallRefs(i)')
  BY <1>1, <1>3, FileCounts
<1>8. ASSUME NEW g \in File PROVE file'[g].ref = Cardinality(Descriptors(g)')
  <2>1. Cardinality(Descriptors(g)') =
          Cardinality(Descriptors(g)) + Is(ofile'[p][fd], g) - Is(ofile[p][fd], g)
    BY <1>2, <1>4, DescChange
  <2>2. file[g].ref = Cardinality(Descriptors(g))
    BY DEF RefInv, RefsCounted
  <2>3. file'[g].ref = file[g].ref + Is(b, g) - Is(ofile[p][fd], g)
    <3>1. CASE g = f
      BY <1>3, <3>1 DEF DescMove
    <3>2. CASE g # f
      BY <1>3, <3>2 DEF DescMove
    <3> QED
      BY <3>1, <3>2
  <2> QED
    BY <1>4, <2>1, <2>2, <2>3
<1> QED
  BY <1>6, <1>7, <1>8 DEF RefsCounted

(* A process between system calls. *)
LEMMA Idle ==
  ASSUME RefInv, NEW p \in Proc, Ready(p)
  PROVE  alive[p] /\ cwd[p] \in Inum /\ todo[p] = <<>> /\ \A j : Cnt(todo[p], j) = 0
<1>1. alive[p] /\ todo[p] = <<>>
  BY DEF Ready
<1>2. ~NoCwd(todo[p], alive[p])
  BY <1>1 DEF NoCwd
<1>3. cwd[p] # None /\ cwd[p] \in Inum \cup {None}
  BY <1>2 DEF RefInv, RefTypeOK, CwdInv
<1> QED
  BY <1>1, <1>3, NoneList

(* A descriptor that is in use names a file structure that is. *)
LEMMA NamedFile ==
  ASSUME RefInv, NEW p \in Proc, NEW fd \in FD, ofile[p][fd] # None
  PROVE  /\ ofile[p][fd] \in File /\ file[ofile[p][fd]].ref > 0
         /\ file[ofile[p][fd]] \in [ref : Int, ip : Inum \cup {None}]
<1> DEFINE f == ofile[p][fd]  S == Descriptors(f)
<1>1. f \in File
  <2>1. ofile \in [Proc -> [FD -> File \cup {None}]]
    BY DEF RefInv, RefTypeOK
  <2>2. f \in File \cup {None} /\ f # None
    BY <2>1
  <2> QED
    BY <2>2
<1>2. file[f].ref = Cardinality(S) /\ file[f] \in [ref : Int, ip : Inum \cup {None}]
  BY <1>1 DEF RefInv, RefTypeOK, RefsCounted
<1>3. IsFiniteSet(S) /\ Cardinality(S) \in Nat
  BY RefCards
<1>4. S # {}
  <2>1. <<p, fd>> \in S
    BY DEF Descriptors
  <2> QED
    BY <2>1
<1>5. Cardinality(S) # 0
  BY <1>3, <1>4, FS_EmptySet
<1> HIDE DEF S, f
<1>6. file[f].ref > 0
  BY <1>2, <1>3, <1>5, SMT
<1> QED
  BY <1>1, <1>2, <1>6 DEF f

(* What fileclose still has to do, before anything else. *)
Mids(s) == Len(s) <= 3 /\ \A k \in 1 .. Len(s) : Mid(s[k])

(* Such a list, alone or with a last operation, is well formed. *)
LEMMA MidsPlain ==
  ASSUME NEW s \in Seq(Ops), Mids(s)
  PROVE  /\ Plain(s)
         /\ \A x : Fin(x) => /\ s \o <<x>> \in Seq(Ops) /\ Plain(s \o <<x>>)
                             /\ \A j : Cnt(s \o <<x>>, j) = Cnt(s, j) + N(x.h, j)
<1>1. \A k \in 1 .. Len(s) : Fin(s[k]) /\ s[k].do \notin Ends
  BY MidFin DEF Mids, Mid
<1>2. Len(s) \in Nat /\ Len(s) <= 3
  <2>1. Len(s) <= 3
    BY DEF Mids
  <2> QED
    BY <2>1, SMT
<1>3. Plain(s)
  <2>1. Len(s) <= 4
    BY <1>2, SMT
  <2> QED
    BY <1>1, <2>1 DEF Plain, Fin
<1>4. ASSUME NEW x, Fin(x)
      PROVE  /\ s \o <<x>> \in Seq(Ops) /\ Plain(s \o <<x>>)
             /\ \A j : Cnt(s \o <<x>>, j) = Cnt(s, j) + N(x.h, j)
  <2> DEFINE t == s \o <<x>>
  <2>1. x \in Ops /\ OpOK(x) /\ x.do \notin {"putcwd", "chdir", "dead"}
    BY <1>4 DEF Fin
  <2>2. <<x>> \in Seq(Ops) /\ t \in Seq(Ops) /\ Len(t) = Len(s) + 1
    BY <2>1, SMT
  <2>3. \A k \in 1 .. Len(s) : t[k] = s[k]
    BY <2>1, SMT
  <2>4. t[Len(s) + 1] = x
    BY <2>1, SMT
  <2>5. \A j : Cnt(t, j) = Cnt(s, j) + N(x.h, j)
    <3>1. \A j : Cnt(t, j) = Cnt(s, j) + Cnt(<<x>>, j)
      BY <2>2, HeldConcat
    <3> QED
      BY <2>1, <3>1, HeldOne
  <2> HIDE DEF t
  <2>6. Len(t) <= 4 /\ \A k \in 1 .. Len(t) : k \in 1 .. Len(s) \/ (k = Len(t) /\ k = Len(s) + 1)
    BY <1>2, <2>2, SMT
  <2>7. Plain(t)
    BY <1>1, <2>1, <2>3, <2>4, <2>6 DEF Plain, Fin
  <2> QED
    BY <2>2, <2>5, <2>7 DEF t
<1> QED
  BY <1>3, <1>4

(* A list of three operations of that kind. *)
LEMMA MidsThree ==
  ASSUME NEW x, NEW y, NEW z, Mid(x), Mid(y), Mid(z)
  PROVE  Mids(<<x, y, z>>)
<1> DEFINE s == <<x, y, z>>
<1>1. Len(s) = 3 /\ s[1] = x /\ s[2] = y /\ s[3] = z
  OBVIOUS
<1> HIDE DEF s
<1>2. Len(s) <= 3 /\ \A k \in 1 .. Len(s) : s[k] = x \/ s[k] = y \/ s[k] = z
  BY <1>1, SMT
<1> QED
  BY <1>2 DEF Mids, s

(* The structure that fileclose leaves, and the reference to the inode that *)
(* it hands over to the operations that put it.                            *)
LEMMA CloseOK ==
  ASSUME RefInv, NEW f \in File, file[f].ref > 0
  PROVE  /\ fileclose(f) \in Seq(Ops) /\ Mids(fileclose(f))
         /\ Less(file[f]) \in [ref : Int, ip : Inum \cup {None}]
         /\ Less(file[f]).ref = file[f].ref - 1
         /\ Closed(f) = [file EXCEPT ![f] = Less(file[f])]
         /\ \A i \in Inum : Ind(Less(file[f]).ref > 0 /\ Less(file[f]).ip = i) + Cnt(fileclose(f), i)
                              = Ind(file[f].ref > 0 /\ file[f].ip = i)
<1> DEFINE w == file[f]  v == Less(w)  s == fileclose(f)
<1>1. file \in [File -> [ref : Int, ip : Inum \cup {None}]]
  BY DEF RefInv, RefTypeOK
<1>2. w \in [ref : Int, ip : Inum \cup {None}]
  BY <1>1
<1>3. Closed(f) = [file EXCEPT ![f] = Less(file[f])]
  BY DEF Closed
<1>4. s = IF w.ref = 1 /\ w.ip # None THEN <<Begin, Put(w.ip), Commit>> ELSE <<>>
  BY DEF fileclose
<1>5. w.ref > 0
  OBVIOUS
<1> HIDE DEF w, s
<1>6. w.ref \in Int /\ w.ip \in Inum \cup {None}
  BY <1>2
<1>7. v \in [ref : Int, ip : Inum \cup {None}] /\ v.ref = w.ref - 1 /\ (w.ref # 1 => v.ip = w.ip)
  BY <1>2, <1>6, SMT DEF Less
<1> HIDE DEF v
<1>8. s \in Seq(Ops) /\ Mids(s) /\ \A i \in Inum : Ind(v.ref > 0 /\ v.ip = i) + Cnt(s, i)
                                                    = Ind(w.ref > 0 /\ w.ip = i)
  <2>1. CASE w.ref = 1 /\ w.ip # None
    <3> DEFINE x == Begin  y == Put(w.ip)  z == Commit
    <3>1. w.ip \in Inum
      BY <1>6, <2>1
    <3>2. Mid(x) /\ Mid(z) /\ \A j : N(x.h, j) = 0 /\ N(z.h, j) = 0
      BY TransOps
    <3>3. Mid(y) /\ \A j : N(y.h, j) = Is(w.ip, j)
      BY <3>1, PutOp
    <3>4. s = <<x, y, z>>
      BY <1>4, <2>1
    <3> HIDE DEF x, y, z
    <3>5. Fin(z) /\ Mids(<<x, y, z>>)
      BY <3>2, <3>3, MidFin, MidsThree
    <3>6. s \in Seq(Ops) /\ \A j : Cnt(s, j) = N(x.h, j) + (N(y.h, j) + N(z.h, j))
      <4>1. Mid(x) /\ Mid(y) /\ Fin(z)
        BY <3>2, <3>3, <3>5
      <4>2. /\ <<x, y, z>> \in Seq(Ops)
            /\ \A j : Cnt(<<x, y, z>>, j) = N(x.h, j) + (N(y.h, j) + N(z.h, j))
        BY <4>1, ThreeList, SMT
      <4> QED
        BY <3>4, <4>2
    <3>7. \A j : Cnt(s, j) = 0 + (Is(w.ip, j) + 0)
      BY <3>2, <3>3, <3>6
    <3>8. v.ref = 0 /\ w.ref > 0
      BY <1>7, <2>1, SMTT(30)
    <3>9. \A i \in Inum : Ind(v.ref > 0 /\ v.ip = i) + Cnt(s, i) = Ind(w.ref > 0 /\ w.ip = i)
      BY <3>7, <3>8, SMT DEF Ind, Is
    <3> QED
      BY <3>4, <3>5, <3>6, <3>9
  <2>2. CASE ~(w.ref = 1 /\ w.ip # None)
    <3>1. s = <<>>
      BY <1>4, <2>2
    <3>2. s \in Seq(Ops) /\ \A j : Cnt(s, j) = 0
      BY <3>1, NoneList
    <3>3. Mids(s)
      BY <3>1, SMT DEF Mids
    <3>4. \A i \in Inum : w.ip = i => w.ip # None
      BY FiniteSets_
    <3>5. \A i \in Inum : Ind(v.ref > 0 /\ v.ip = i) + Cnt(s, i) = Ind(w.ref > 0 /\ w.ip = i)
      <4>1. CASE w.ref = 1
        <5>1. w.ip = None /\ ~(v.ref > 0)
          BY <1>7, <2>2, <4>1, SMTT(30)
        <5> QED
          BY <3>2, <3>4, <5>1, SMTT(30) DEF Ind
      <4>2. CASE w.ref # 1
        <5>1. v.ref > 0 /\ w.ref > 0 /\ v.ip = w.ip
          BY <1>5, <1>6, <1>7, <4>2, SMTT(30)
        <5> QED
          BY <3>2, <5>1, SMTT(30) DEF Ind
      <4> QED
        BY <4>1, <4>2
    <3> QED
      BY <3>2, <3>3, <3>5
  <2> QED
    BY <2>1, <2>2
<1> QED
  BY <1>3, <1>7, <1>8 DEF w, v, s

=============================================================================
