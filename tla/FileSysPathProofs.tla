------------------------- MODULE FileSysPathProofs --------------------------
(***************************************************************************)
(* The operations on path names other than link - unlink, create and the   *)
(* walk of namex -, the steps that change a current directory, and those   *)
(* that give up descriptors - close and exit - preserve RefInv.            *)
(***************************************************************************)
EXTENDS FileSysRefProofs

USE Zenon

-----------------------------------------------------------------------------
(* unlink and create. *)

(* An entry of a directory is an inode. *)
LEMMA Entry ==
  ASSUME RefInv, NEW d \in Inum, NEW path \in Seq(Names \cup Dots), path # <<>>
  PROVE  dirlookup(d, Head(path)) \in Inum \cup {None}
<1>1. ents \in [Inum -> [Names \cup Dots -> Inum \cup {None}]]
  BY DEF RefInv, RefTypeOK
<1>2. Head(path) \in Names \cup Dots
  BY PathHead
<1> QED
  BY <1>1, <1>2 DEF dirlookup

(* sys_unlink's dirlookup takes a reference. *)
LEMMA unlink1Inv ==
  ASSUME RefInv, NEW p \in Proc, unlink1(p)
  PROVE  RefInv'
<1> DEFINE o == Cur(p)  dp == o.h[1]  ip == dirlookup(dp, Head(o.path))
<1>1. Now(p, "unlink1") /\ "unlink1" \in Ends \ {"chdir", "dead"} /\ "unlink1" \in OneRef
  BY Names2 DEF unlink1
<1>2. dp \in Inum /\ \A j : N(o.h, j) = Is(dp, j)
  BY <1>1, OneOp
<1>3. OpOK(o) /\ o.do = "unlink1" /\ o.path \in Seq(Names \cup Dots) /\ o.call \in OpCalls
  BY <1>1, CurrentOp
<1>4. o.path # <<>>
  BY <1>3 DEF OpOK
<1>5. CASE Panics
  BY <1>5, PanicsInv DEF Panics, disk, cache
<1>6. CASE Then(p, <<Put(dp), Commit>>) /\ UNCHANGED <<disk, ref, procs>>
  <2>1. EntsOK'
    BY <1>6, SameEnts DEF disk
  <2>2. Mid(Put(dp)) /\ \A j : N(Put(dp).h, j) = Is(dp, j)
    BY <1>2, PutOp
  <2>3. Fin(Commit) /\ \A j : N(Commit.h, j) = 0
    BY TransOps, MidFin
  <2>4. \A j \in Inum : N(Put(dp).h, j) + N(Commit.h, j) = N(o.h, j)
    BY <1>2, <2>2, <2>3, Sums, SMTT(30)
  <2> QED
    BY <1>1, <1>6, <2>1, <2>2, <2>3, <2>4, LastTwo
<1>7. CASE /\ ip # None /\ iget(ip)
           /\ Then(p, <<Op("unlink2", <<dp, ip>>, o.call, o.path)>>)
           /\ UNCHANGED <<disk, procs>>
  <2> DEFINE x == Op("unlink2", <<dp, ip>>, o.call, o.path)  s == <<x>>
  <2>1. EntsOK'
    BY <1>7, SameEnts DEF disk
  <2>2. ip \in Inum
    BY <1>2, <1>3, <1>4, <1>7, Entry
  <2>3. "unlink2" \in TwoRef /\ Then(p, s)
    BY <1>7, Names2
  <2>4. iget(ip)
    BY <1>7
  <2> HIDE DEF ip, dp
  <2>5. Fin(x) /\ \A j : N(x.h, j) = Is(dp, j) + Is(ip, j)
    BY <1>2, <1>3, <1>4, <2>2, <2>3, CallTwo
  <2> HIDE DEF x
  <2>6. s \in Seq(Ops) /\ Plain(s) /\ \A j : Cnt(s, j) = N(x.h, j)
    BY <2>5, FinList
  <2> HIDE DEF s
  <2>7. \A j \in Inum : Cnt(s, j) = Is(ip, j) + N(o.h, j)
    BY <1>2, <2>5, <2>6, Sums, SMTT(30)
  <2> QED
    BY <1>1, <1>7, <2>1, <2>2, <2>3, <2>4, <2>6, <2>7, Gains, SMTT(30)
<1> QED
  BY <1>5, <1>6, <1>7 DEF unlink1

(* sys_unlink removes the entry, or gives up. *)
LEMMA unlink2Inv ==
  ASSUME RefInv, NEW p \in Proc, unlink2(p)
  PROVE  RefInv'
<1> DEFINE o == Cur(p)  dp == o.h[1]  ip == o.h[2]
<1>1. Now(p, "unlink2") /\ "unlink2" \in Ends \ {"chdir", "dead"} /\ "unlink2" \in TwoRef
  BY Names2 DEF unlink2
<1>2. dp \in Inum /\ ip \in Inum /\ \A j : N(o.h, j) = Is(dp, j) + Is(ip, j)
  BY <1>1, TwoOp
<1>3. OpOK(o) /\ o.do = "unlink2" /\ o.path \in Seq(Names \cup Dots)
  BY <1>1, CurrentOp
<1>4. o.path # <<>>
  BY <1>3 DEF OpOK
<1>5. Fin(Commit) /\ \A j : N(Commit.h, j) = 0
  BY TransOps, MidFin
<1>6. CASE Panics
  BY <1>6, PanicsInv DEF Panics, disk, cache
<1>7. CASE Then(p, <<Put(ip), Do("unlockput", <<dp>>), Commit>>) /\ UNCHANGED <<disk, ref, procs>>
  <2> DEFINE x == Put(ip)  y == Do("unlockput", <<dp>>)
  <2>1. EntsOK'
    BY <1>7, SameEnts DEF disk
  <2>2. Then(p, <<x, y, Commit>>)
    BY <1>7
  <2>3. Mid(x) /\ \A j : N(x.h, j) = Is(ip, j)
    BY <1>2, PutOp
  <2>4. Mid(y) /\ \A j : N(y.h, j) = Is(dp, j)
    BY <1>2, BareMid, Names1
  <2> HIDE DEF x, y, dp, ip
  <2>5. \A j \in Inum : N(x.h, j) + (N(y.h, j) + N(Commit.h, j)) = N(o.h, j)
    BY <1>2, <1>5, <2>3, <2>4, Sums, SMTT(30)
  <2> QED
    BY <1>1, <1>5, <1>7, <2>1, <2>2, <2>3, <2>4, <2>5, LastThree, SMTT(30)
<1>8. CASE /\ ents' = [ents EXCEPT ![dp][Head(o.path)] = None]
           /\ Then(p, <<Put(dp), Do("unlink3", <<ip>>), Commit>>)
           /\ UNCHANGED <<ref, procs>>
  <2> DEFINE x == Put(dp)  y == Do("unlink3", <<ip>>)
  <2>1. EntsOK'
    BY <1>2, <1>3, <1>4, <1>8, NewEntry
  <2>2. Then(p, <<x, y, Commit>>)
    BY <1>8
  <2>3. Mid(x) /\ \A j : N(x.h, j) = Is(dp, j)
    BY <1>2, PutOp
  <2>4. Mid(y) /\ \A j : N(y.h, j) = Is(ip, j)
    BY <1>2, BareMid, Names1
  <2> HIDE DEF x, y, dp, ip
  <2>5. \A j \in Inum : N(x.h, j) + (N(y.h, j) + N(Commit.h, j)) = N(o.h, j)
    BY <1>2, <1>5, <2>3, <2>4, Sums, SMTT(30)
  <2> QED
    BY <1>1, <1>5, <1>8, <2>1, <2>2, <2>3, <2>4, <2>5, LastThree
<1> QED
  BY <1>6, <1>7, <1>8 DEF unlink2

(* create finds the name, or ialloc makes an inode: both take a reference. *)
LEMMA create1Inv ==
  ASSUME RefInv, NEW p \in Proc, create1(p)
  PROVE  RefInv'
<1> DEFINE o == Cur(p)  dp == o.h[1]  ip == dirlookup(dp, Head(o.path))
           i == IF ip # None THEN ip ELSE Min(FreeInodes)
<1>1. Now(p, "create1") /\ "create1" \in Ends \ {"chdir", "dead"} /\ "create1" \in OneRef
  BY Names2 DEF create1
<1>2. dp \in Inum /\ \A j : N(o.h, j) = Is(dp, j)
  BY <1>1, OneOp
<1>3. OpOK(o) /\ o.do = "create1" /\ o.path \in Seq(Names \cup Dots) /\ o.call \in OpCalls
  BY <1>1, CurrentOp
<1>4. o.path # <<>>
  BY <1>3 DEF OpOK
<1>5. CASE Panics
  BY <1>5, PanicsInv DEF Panics, disk, cache
<1>6. CASE ~Panics
  <2>1. ip # None \/ FreeInodes # {}
    BY <1>6 DEF create1
  <2>2. i \in Inum
    <3>1. CASE ip # None
      BY <1>2, <1>3, <1>4, <3>1, Entry
    <3>2. CASE ip = None
      <4>1. FreeInodes \in SUBSET Nat /\ FreeInodes # {} /\ FreeInodes \subseteq Inum
        BY <2>1, <3>2, FileSysAssumption, SMT DEF FreeInodes, Inum
      <4>2. Min(FreeInodes) \in Inum
        BY <4>1, MinIn
      <4> QED
        BY <3>2, <4>2
    <3> QED
      BY <3>1, <3>2
  <2>3. iget(i) /\ UNCHANGED <<ents, procs>>
    BY <1>6 DEF create1
  <2>4. EntsOK'
    BY <2>3, SameEnts
  <2>5. \/ Then(p, <<Put(dp), Op("create2", <<i>>, o.call, <<>>)>>)
        \/ Then(p, <<Op("create3", <<i, dp>>, o.call, o.path)>>)
    BY <1>6 DEF create1
  <2> HIDE DEF i, dp
  <2>6. CASE Then(p, <<Put(dp), Op("create2", <<i>>, o.call, <<>>)>>)
    <3> DEFINE x == Put(dp)  y == Op("create2", <<i>>, o.call, <<>>)  s == <<x, y>>
    <3>1. Then(p, s)
      BY <2>6
    <3>2. Mid(x) /\ \A j : N(x.h, j) = Is(dp, j)
      BY <1>2, PutOp
    <3>3. <<>> \in Seq(Names \cup Dots) /\ "create2" \in OneNames
      BY SMT DEF OneNames
    <3>4. Fin(y) /\ \A j : N(y.h, j) = Is(i, j)
      BY <1>3, <2>2, <3>3, CallOne
    <3> HIDE DEF x, y
    <3>5. s \in Seq(Ops) /\ Plain(s) /\ \A j : Cnt(s, j) = N(x.h, j) + N(y.h, j)
      BY <3>2, <3>4, TwoList
    <3> HIDE DEF s
    <3>6. \A j \in Inum : Cnt(s, j) = Is(i, j) + N(o.h, j)
      BY <1>2, <3>2, <3>4, <3>5, Sums, SMTT(30)
    <3> QED
      BY <1>1, <2>2, <2>3, <2>4, <3>1, <3>5, <3>6, Gains
  <2>7. CASE Then(p, <<Op("create3", <<i, dp>>, o.call, o.path)>>)
    <3> DEFINE x == Op("create3", <<i, dp>>, o.call, o.path)  s == <<x>>
    <3>1. "create3" \in TwoRef /\ Then(p, s)
      BY <2>7, Names2
    <3>2. Fin(x) /\ \A j : N(x.h, j) = Is(i, j) + Is(dp, j)
      BY <1>2, <1>3, <1>4, <2>2, <3>1, CallTwo
    <3> HIDE DEF x
    <3>3. s \in Seq(Ops) /\ Plain(s) /\ \A j : Cnt(s, j) = N(x.h, j)
      BY <3>2, FinList
    <3> HIDE DEF s
    <3>4. \A j \in Inum : Cnt(s, j) = Is(i, j) + N(o.h, j)
      BY <1>2, <3>2, <3>3, Sums, SMTT(30)
    <3> QED
      BY <1>1, <2>2, <2>3, <2>4, <3>1, <3>3, <3>4, Gains
  <2> QED
    BY <2>5, <2>6, <2>7
<1> QED
  BY <1>5, <1>6

(* create of a name that exists. *)
LEMMA create2Inv ==
  ASSUME RefInv, NEW p \in Proc, create2(p)
  PROVE  RefInv'
<1> DEFINE o == Cur(p)  i == o.h[1]
<1>1. Now(p, "create2") /\ "create2" \in Ends \ {"chdir", "dead"} /\ "create2" \in OneRef
  BY Names2 DEF create2
<1>2. i \in Inum /\ \A j : N(o.h, j) = Is(i, j)
  BY <1>1, OneOp
<1>3. o.call \in OpCalls
  BY <1>1, CurrentOp
<1>4. Mid(Commit) /\ Fin(Commit) /\ \A j : N(Commit.h, j) = 0
  BY TransOps, MidFin
<1>5. CASE Panics
  BY <1>5, PanicsInv DEF Panics, disk, cache
<1>6. CASE Then(p, <<Commit, Op("open", <<i>>, o.call, <<>>)>>) /\ UNCHANGED <<disk, ref, procs>>
  <2> DEFINE y == Op("open", <<i>>, o.call, <<>>)
  <2>1. EntsOK'
    BY <1>6, SameEnts DEF disk
  <2>2. <<>> \in Seq(Names \cup Dots) /\ "open" \in OneNames
    BY SMT DEF OneNames
  <2>3. Fin(y) /\ \A j : N(y.h, j) = Is(i, j)
    BY <1>2, <1>3, <2>2, CallOne
  <2>4. Then(p, <<Commit, y>>)
    BY <1>6
  <2> HIDE DEF y, i
  <2>5. \A j \in Inum : N(Commit.h, j) + N(y.h, j) = N(o.h, j)
    BY <1>2, <1>4, <2>3, Sums, SMTT(30)
  <2> QED
    BY <1>1, <1>4, <1>6, <2>1, <2>3, <2>4, <2>5, LastTwo
<1>7. CASE Then(p, <<Put(i), Commit>>) /\ UNCHANGED <<disk, ref, procs>>
  <2>1. EntsOK'
    BY <1>7, SameEnts DEF disk
  <2>2. Mid(Put(i)) /\ \A j : N(Put(i).h, j) = Is(i, j)
    BY <1>2, PutOp
  <2>3. \A j \in Inum : N(Put(i).h, j) + N(Commit.h, j) = N(o.h, j)
    BY <1>2, <1>4, <2>2, Sums, SMTT(30)
  <2> QED
    BY <1>1, <1>4, <1>7, <2>1, <2>2, <2>3, LastTwo, SMTT(30)
<1> QED
  BY <1>5, <1>6, <1>7 DEF create2

(* create of a new inode. *)
LEMMA create3Inv ==
  ASSUME RefInv, NEW p \in Proc, create3(p)
  PROVE  RefInv'
<1> DEFINE o == Cur(p)  ip == o.h[1]  dp == o.h[2]  dir == o.call.op = "mkdir"
           s == IF o.call.op = "create" THEN <<Commit, Op("open", <<ip>>, o.call, <<>>)>>
                                        ELSE <<Do("unlockput", <<ip>>), Commit>>
<1>1. Now(p, "create3") /\ "create3" \in Ends \ {"chdir", "dead"} /\ "create3" \in TwoRef
  BY Names2 DEF create3
<1>2. dp \in Inum /\ ip \in Inum /\ \A j : N(o.h, j) = Is(ip, j) + Is(dp, j)
  BY <1>1, TwoOp
<1>3. OpOK(o) /\ o.do = "create3" /\ o.path \in Seq(Names \cup Dots) /\ o.call \in OpCalls
  BY <1>1, CurrentOp
<1>4. o.path # <<>>
  BY <1>3 DEF OpOK
<1>5. CASE Panics
  BY <1>5, PanicsInv DEF Panics, disk, cache
<1>6. CASE ~Panics
  <2>1. /\ ents' = [dirlink(dp, Head(o.path), ip) EXCEPT
                       ![ip] = IF dir THEN [@ EXCEPT !["."] = ip, ![".."] = dp] ELSE @]
        /\ Then(p, <<Put(dp)>> \o s)
        /\ ref' = ref /\ UNCHANGED procs
    BY <1>6 DEF create3
  <2>2. EntsOK'
    <3> DEFINE n == Head(o.path)  e == dirlink(dp, n, ip)
               d == IF dir THEN [e[ip] EXCEPT !["."] = ip, ![".."] = dp] ELSE e[ip]
    <3>1. ents \in [Inum -> [Names \cup Dots -> Inum \cup {None}]]
      BY DEF RefInv, RefTypeOK
    <3>2. n \in Names \cup Dots
      BY <1>3, <1>4, PathHead
    <3> HIDE DEF n, ip, dp, dir
    <3>3. e \in [Inum -> [Names \cup Dots -> Inum \cup {None}]]
      BY <1>2, <3>1, <3>2 DEF dirlink
    <3>4. ents' = [e EXCEPT ![ip] = d]
      <4> HIDE DEF e
      <4> QED
        BY <1>2, <2>1, <3>3 DEF n, e
    <3> HIDE DEF e
    <3>5. d \in [Names \cup Dots -> Inum \cup {None}]
      BY <1>2, <3>3
    <3> HIDE DEF d
    <3>6. ents' \in [Inum -> [Names \cup Dots -> Inum \cup {None}]]
      BY <1>2, <3>3, <3>4, <3>5
    <3> QED
      BY <3>6 DEF EntsOK
  <2>3. Mid(Put(dp)) /\ \A j : N(Put(dp).h, j) = Is(dp, j)
    BY <1>2, PutOp
  <2>4. Mid(Commit) /\ Fin(Commit) /\ \A j : N(Commit.h, j) = 0
    BY TransOps, MidFin
  <2>5. \E x, y : /\ s = <<x, y>> /\ Mid(x) /\ Fin(y)
                  /\ \A j \in Inum : N(x.h, j) + N(y.h, j) = Is(ip, j)
    <3>1. CASE o.call.op = "create"
      <4> DEFINE y == Op("open", <<ip>>, o.call, <<>>)
      <4>1. <<>> \in Seq(Names \cup Dots) /\ "open" \in OneNames
        BY SMT DEF OneNames
      <4>2. Fin(y) /\ \A j : N(y.h, j) = Is(ip, j)
        BY <1>2, <1>3, <4>1, CallOne
      <4>3. s = <<Commit, y>>
        BY <3>1
      <4> HIDE DEF y, s, ip
      <4>4. \A j \in Inum : N(Commit.h, j) + N(y.h, j) = Is(ip, j)
        BY <2>4, <4>2, Sums, SMTT(30)
      <4> QED
        BY <2>4, <4>2, <4>3, <4>4, SMT
    <3>2. CASE o.call.op # "create"
      <4> DEFINE x == Do("unlockput", <<ip>>)
      <4>1. Mid(x) /\ \A j : N(x.h, j) = Is(ip, j)
        BY <1>2, BareMid, Names1
      <4>2. s = <<x, Commit>>
        BY <3>2
      <4> HIDE DEF x, s, ip
      <4>3. \A j \in Inum : N(x.h, j) + N(Commit.h, j) = Is(ip, j)
        BY <2>4, <4>1, Sums, SMTT(30)
      <4> QED
        BY <2>4, <4>1, <4>2, <4>3
    <3> QED
      BY <3>1, <3>2
  <2> HIDE DEF s, ip, dp
  <2>6. PICK x, y : /\ s = <<x, y>> /\ Mid(x) /\ Fin(y)
                    /\ \A j \in Inum : N(x.h, j) + N(y.h, j) = Is(ip, j)
    BY <2>5
  <2>7. Then(p, <<Put(dp), x, y>>)
    <3>1. Put(dp) \in Ops /\ x \in Ops /\ y \in Ops
      BY <2>3, <2>6 DEF Mid, Fin
    <3> QED
      BY <2>1, <2>6, <3>1, Appended
  <2>8. \A j \in Inum : N(Put(dp).h, j) + (N(x.h, j) + N(y.h, j)) = N(o.h, j)
    BY <1>2, <2>3, <2>6, Sums, SMTT(30)
  <2> QED
    BY <1>1, <2>1, <2>2, <2>3, <2>6, <2>7, <2>8, LastThree, SMTT(30)
<1> QED
  BY <1>5, <1>6

-----------------------------------------------------------------------------
(* namex. *)

(* What a list of operations is and holds, when it is done with i and h. *)
Carries(s, i, h) == /\ s \in Seq(Ops) /\ Plain(s)
                    /\ \A j \in Inum : Cnt(s, j) = Is(i, j) + N(h, j)

(* A list of one operation that carries i and h. *)
LEMMA CarriesOne ==
  ASSUME NEW x, Fin(x), NEW i, NEW h, \A j \in Inum : N(x.h, j) = Is(i, j) + N(h, j)
  PROVE  Carries(<<x>>, i, h)
BY FinList DEF Carries

(* A list of two. *)
LEMMA CarriesTwo ==
  ASSUME NEW x, NEW y, Mid(x), Fin(y), NEW i, NEW h,
         \A j \in Inum : N(x.h, j) + N(y.h, j) = Is(i, j) + N(h, j)
  PROVE  Carries(<<x, y>>, i, h)
BY TwoList DEF Carries

(* A list of three. *)
LEMMA CarriesThree ==
  ASSUME NEW x, NEW y, NEW z, Mid(x), Mid(y), Fin(z), NEW i, NEW h,
         \A j \in Inum : N(x.h, j) + (N(y.h, j) + N(z.h, j)) = Is(i, j) + N(h, j)
  PROVE  Carries(<<x, y, z>>, i, h)
<1> DEFINE s == <<x, y, z>>
<1>1. s \in Seq(Ops) /\ Plain(s) /\ \A j : Cnt(s, j) = N(x.h, j) + (N(y.h, j) + N(z.h, j))
  BY ThreeList, SMT
<1> HIDE DEF s
<1>2. Carries(s, i, h)
  BY <1>1 DEF Carries
<1> QED
  BY <1>2 DEF s

(* What Found is, case by case. *)
FoundAs(c, i, h, path) ==
  /\ c.op = "link" /\ h = <<>> =>
       Found(c, i, h, path) = <<Begin, Op("link1", <<i>>, c, <<>>)>>
  /\ c.op = "link" /\ h # <<>> =>
       Found(c, i, h, path) = <<Op("link2", <<i>> \o h, c, path)>>
  /\ c.op = "unlink" => Found(c, i, h, path) = <<Begin, Op("unlink1", <<i>>, c, path)>>
  /\ c.op \in Creates => Found(c, i, h, path) = <<Op("create1", <<i>>, c, path)>>
  /\ c.op \notin Creates \cup {"link", "unlink"} =>
       Found(c, i, h, path) = <<Op("use", <<i>>, c, <<>>)>>

(* Found is one of these cases. *)
LEMMA FoundIs ==
  ASSUME NEW c, NEW i, NEW h, NEW path
  PROVE  FoundAs(c, i, h, path)
<1> DEFINE op == c.op
<1>1. "link" \notin Creates /\ "unlink" \notin Creates /\ "link" # "unlink"
  BY DEF Creates
<1> HIDE DEF op
<1>2. CASE op = "link"
  BY <1>1, <1>2 DEF Found, FoundAs, op
<1>3. CASE op = "unlink"
  BY <1>1, <1>3 DEF Found, FoundAs, op
<1>4. CASE op \in Creates
  BY <1>1, <1>4 DEF Found, FoundAs, op
<1>5. CASE op \notin Creates \cup {"link", "unlink"}
  BY <1>1, <1>5 DEF Found, FoundAs, op
<1> QED
  BY <1>2, <1>3, <1>4, <1>5

(* So is NotFound. *)
LEMMA NotFoundIs ==
  ASSUME NEW c, NEW h
  PROVE  /\ c.op = "link" /\ h # <<>> => NotFound(c, h) = <<Op("linkbad", h, c, <<>>), Commit>>
         /\ c.op \in Creates => NotFound(c, h) = <<Commit>>
         /\ ~(c.op = "link" /\ h # <<>>) /\ c.op \notin Creates => NotFound(c, h) = <<>>
<1>1. "link" \notin Creates
  BY DEF Creates
<1> QED
  BY <1>1 DEF NotFound

(* What a call goes on with when namex has found i. *)
LEMMA FoundOK ==
  ASSUME NEW i \in Inum, NEW h \in Seq(Inum), NEW c \in Calls, Hand(h, c),
         NEW path \in Seq(Names \cup Dots), WantsParent(c, h) => path # <<>>
  PROVE  Carries(Found(c, i, h, path), i, h)
<1>0. FoundAs(c, i, h, path)
  BY FoundIs
<1>1. c \in OpCalls /\ <<>> \in Seq(Names \cup Dots)
  <2>1. c \in OpCalls
    BY DEF OpCalls
  <2> QED
    BY <2>1, SMT
<1>2. Mid(Begin) /\ \A j : N(Begin.h, j) = 0
  BY TransOps
<1>3. {"link1", "unlink1", "create1", "use"} \subseteq OneNames /\ "link2" \in TwoRef
  BY DEF OneNames, TwoRef
<1>4. h = <<>> => \A j : N(h, j) = 0
  BY Holds
<1>5. \A j : Is(i, j) + 0 = Is(i, j) /\ 0 + Is(i, j) = Is(i, j)
  BY Sums
<1>6. ASSUME NEW do \in OneNames, NEW pa \in Seq(Names \cup Dots), h = <<>>,
             do \in {"unlink1", "create1"} => pa # <<>>, do = "link1" => c.op = "link"
      PROVE  /\ Carries(<<Op(do, <<i>>, c, pa)>>, i, h)
             /\ Carries(<<Begin, Op(do, <<i>>, c, pa)>>, i, h)
  <2> DEFINE x == Op(do, <<i>>, c, pa)
  <2>1. Fin(x) /\ \A j : N(x.h, j) = Is(i, j)
    BY <1>1, <1>6, CallOne
  <2> HIDE DEF x
  <2>2. \A j \in Inum : N(x.h, j) = Is(i, j) + N(h, j)
    BY <1>4, <1>5, <1>6, <2>1
  <2>3. \A j \in Inum : N(Begin.h, j) + N(x.h, j) = Is(i, j) + N(h, j)
    BY <1>2, <1>4, <1>5, <1>6, <2>1
  <2>4. Carries(<<x>>, i, h)
    BY <2>1, <2>2, CarriesOne
  <2>5. Carries(<<Begin, x>>, i, h)
    BY <1>2, <2>1, <2>3, CarriesTwo
  <2> QED
    BY <2>4, <2>5 DEF x
<1>7. c.op \in Creates \cup {"unlink"} => c.op # "link" /\ path # <<>>
  <2>1. "link" \notin Creates \cup {"unlink"} /\ "unlink" \notin Creates
    BY DEF Creates
  <2> QED
    BY <2>1 DEF WantsParent
<1>8. CASE c.op = "link" /\ h = <<>>
  <2>1. Found(c, i, h, path) = <<Begin, Op("link1", <<i>>, c, <<>>)>>
    BY <1>8, <1>0 DEF FoundAs
  <2> QED
    BY <1>1, <1>3, <1>6, <1>8, <2>1
<1>9. CASE c.op = "link" /\ h # <<>>
  <2>1. Found(c, i, h, path) = <<Op("link2", <<i>> \o h, c, path)>>
    BY <1>9, <1>0 DEF FoundAs
  <2>2. path # <<>> /\ Len(h) = 1
    BY <1>9 DEF WantsParent, Hand
  <2> DEFINE g == <<i>> \o h  x == Op("link2", g, c, path)
  <2>3. g \in Seq(Inum) /\ Len(g) = 2 /\ g[1] = i /\ g[2] = h[1]
    BY <2>2, Cons
  <2> HIDE DEF g
  <2>4. /\ \A j : N(g, j) = Is(g[1], j) + Is(g[2], j)
        /\ \A j : N(h, j) = Is(h[1], j)
    BY <2>2, <2>3, Holds
  <2>5. Fin(x) /\ x.h = g
    BY <1>1, <1>3, <2>2, <2>3, CallTwoOf
  <2> HIDE DEF x
  <2>6. \A j \in Inum : N(x.h, j) = Is(i, j) + N(h, j)
    BY <2>3, <2>4, <2>5
  <2>7. Carries(<<x>>, i, h)
    BY <2>5, <2>6, CarriesOne
  <2> QED
    BY <2>1, <2>7 DEF x, g
<1>10. CASE c.op = "unlink"
  <2>1. Found(c, i, h, path) = <<Begin, Op("unlink1", <<i>>, c, path)>>
    BY <1>10, <1>0 DEF FoundAs
  <2>2. h = <<>> /\ path # <<>>
    BY <1>7, <1>10 DEF Hand
  <2> QED
    BY <1>3, <1>6, <2>1, <2>2
<1>11. CASE c.op \in Creates
  <2>1. Found(c, i, h, path) = <<Op("create1", <<i>>, c, path)>>
    BY <1>11, <1>0 DEF FoundAs
  <2>2. h = <<>> /\ path # <<>>
    BY <1>7, <1>11 DEF Hand
  <2> QED
    BY <1>3, <1>6, <2>1, <2>2
<1>12. CASE c.op \notin Creates \cup {"link", "unlink"}
  <2>1. Found(c, i, h, path) = <<Op("use", <<i>>, c, <<>>)>>
    BY <1>12, <1>0 DEF FoundAs
  <2>2. h = <<>>
    BY <1>12 DEF Hand
  <2> QED
    BY <1>1, <1>3, <1>6, <2>1, <2>2
<1> QED
  BY <1>8, <1>9, <1>10, <1>11, <1>12

(* And when it has not, but had to put i. *)
LEMMA NotFoundOK ==
  ASSUME NEW i \in Inum, NEW h \in Seq(Inum), NEW c \in Calls, Hand(h, c)
  PROVE  Carries(<<Put(i)>> \o NotFound(c, h), i, h)
<1>0. /\ c.op = "link" /\ h # <<>> => NotFound(c, h) = <<Op("linkbad", h, c, <<>>), Commit>>
      /\ c.op \in Creates => NotFound(c, h) = <<Commit>>
      /\ ~(c.op = "link" /\ h # <<>>) /\ c.op \notin Creates => NotFound(c, h) = <<>>
  BY NotFoundIs
<1>1. c \in OpCalls /\ <<>> \in Seq(Names \cup Dots) /\ "linkbad" \in OneNames
  <2>1. c \in OpCalls
    BY DEF OpCalls
  <2> QED
    BY <2>1, SMT DEF OneNames
<1>2. Mid(Put(i)) /\ Fin(Put(i)) /\ \A j : N(Put(i).h, j) = Is(i, j)
  BY PutOp, MidFin
<1>3. Fin(Commit) /\ \A j : N(Commit.h, j) = 0
  BY TransOps, MidFin
<1>4. h = <<>> => \A j : N(h, j) = 0
  BY Holds
<1>5. \A k, j : Is(k, j) + 0 = Is(k, j)
  BY Sums
<1>6. Put(i) \in Ops /\ Commit \in Ops
  BY <1>2, <1>3 DEF Fin
<1>7. CASE c.op = "link" /\ h # <<>>
  <2> DEFINE y == Op("linkbad", h, c, <<>>)
  <2>1. NotFound(c, h) = <<y, Commit>>
    BY <1>7, <1>0
  <2>2. Len(h) = 1
    BY <1>7 DEF Hand
  <2>3. Mid(y) /\ y.h = h
    BY <1>1, <2>2, CallOneOf
  <2>4. \A j : N(h, j) = Is(h[1], j)
    BY <2>2, Holds
  <2> HIDE DEF y
  <2>5. \A j \in Inum : N(Put(i).h, j) + (N(y.h, j) + N(Commit.h, j)) = Is(i, j) + N(h, j)
    BY <1>2, <1>3, <1>5, <2>3, <2>4, SMTT(30)
  <2>6. Carries(<<Put(i), y, Commit>>, i, h)
    BY <1>2, <1>3, <2>3, <2>5, CarriesThree
  <2>7. y \in Ops
    BY <2>3 DEF Mid
  <2> QED
    BY <1>6, <2>1, <2>6, <2>7, Appended, ZenonT(30)
<1>8. CASE c.op \in Creates
  <2>0. "link" \notin Creates
    BY DEF Creates
  <2>1. NotFound(c, h) = <<Commit>> /\ c.op # "link"
    BY <1>8, <2>0, <1>0
  <2>2. \A j \in Inum : N(Put(i).h, j) + N(Commit.h, j) = Is(i, j) + N(h, j)
    BY <1>2, <1>3, <1>4, <2>1 DEF Hand
  <2>3. Carries(<<Put(i), Commit>>, i, h)
    BY <1>2, <1>3, <2>2, CarriesTwo
  <2> QED
    BY <1>6, <2>1, <2>3, Appended
<1>9. CASE ~(c.op = "link" /\ h # <<>>) /\ c.op \notin Creates
  <2>1. NotFound(c, h) = <<>>
    BY <1>9, <1>0
  <2>2. \A j \in Inum : N(Put(i).h, j) = Is(i, j) + N(h, j)
    BY <1>2, <1>4, <1>5, <1>9 DEF Hand
  <2>3. Carries(<<Put(i)>>, i, h)
    BY <1>2, <2>2, CarriesOne
  <2> QED
    BY <1>6, <2>1, <2>3, Appended
<1> QED
  BY <1>7, <1>8, <1>9

(* The inode in hand, behind the first. *)
LEMMA TailOfTwo ==
  ASSUME NEW g \in Seq(Inum), Len(g) = 2
  PROVE  Tail(g) \in Seq(Inum) /\ Len(Tail(g)) = 1 /\ Tail(g)[1] = g[2]
<1>1. g # <<>>
  BY SMT
<1>2. Tail(g) \in Seq(Inum)
  BY <1>1, SMT
<1>3. Len(Tail(g)) = 1
  BY <1>1, SMT
<1>4. \A k \in 1 .. Len(Tail(g)) : Tail(g)[k] = g[k + 1]
  BY <1>1, SMT
<1>5. 1 \in 1 .. 1 /\ 1 + 1 = 2
  BY SMT
<1>6. Tail(g)[1] = g[1 + 1]
  BY <1>3, <1>4, <1>5
<1> QED
  BY <1>2, <1>3, <1>5, <1>6

(* The references of a path look-up: the directory it has come to, and the *)
(* one in hand.                                                            *)
LEMMA WalkHand ==
  ASSUME NEW g \in Seq(Inum), NEW c, Len(g) = 1 \/ (Len(g) = 2 /\ c.op = "link")
  PROVE  /\ g[1] \in Inum /\ Tail(g) \in Seq(Inum) /\ Hand(Tail(g), c)
         /\ \A j : N(g, j) = Is(g[1], j) + N(Tail(g), j)
<1>1. CASE Len(g) = 1
  <2>1. g[1] \in Inum /\ Tail(g) = <<>> /\ \A j : N(g, j) = Is(g[1], j) /\ N(<<>>, j) = 0
    BY <1>1, Holds
  <2>2. <<>> \in Seq(Inum)
    BY SMT
  <2>3. \A k, j : Is(k, j) + 0 = Is(k, j)
    BY Sums
  <2> QED
    BY <2>1, <2>2, <2>3 DEF Hand
<1>2. CASE Len(g) = 2 /\ c.op = "link"
  <2>1. g[1] \in Inum /\ \A j : N(g, j) = Is(g[1], j) + Is(g[2], j)
    BY <1>2, Holds
  <2>2. Tail(g) \in Seq(Inum) /\ Len(Tail(g)) = 1 /\ Tail(g)[1] = g[2]
    BY <1>2, TailOfTwo
  <2>3. \A j : N(Tail(g), j) = Is(Tail(g)[1], j)
    BY <2>2, Holds
  <2> QED
    BY <1>2, <2>1, <2>2, <2>3 DEF Hand
<1> QED
  BY <1>1, <1>2

(* namex takes its first reference. *)
LEMMA namex0Inv ==
  ASSUME RefInv, NEW p \in Proc, namex0(p)
  PROVE  RefInv'
<1> DEFINE o == Cur(p)  i == IF o.call.abs THEN ROOT ELSE cwd[p]
           x == Op("walk", <<i>> \o o.h, o.call, o.path)  s == <<x>>
<1>1. Now(p, "namex") /\ "namex" \in Ends \ {"chdir", "dead"}
  BY Names2 DEF namex0
<1>2. OpOK(o) /\ o.do = "namex" /\ o.path \in Seq(Names \cup Dots) /\ o.h \in Seq(Inum) /\ cwd[p] # None
  BY <1>1, CurrentOp
<1>3. o.call \in Calls /\ Hand(o.h, o.call)
  BY <1>2 DEF OpOK, Hand
<1>4. i \in Inum
  <2>1. cwd[p] \in Inum
    BY <1>2 DEF RefInv, RefTypeOK
  <2> QED
    BY <2>1, FiniteSets_
<1>5. CASE Panics
  BY <1>5, PanicsInv DEF Panics, disk, cache
<1>6. CASE iget(i) /\ Then(p, s) /\ UNCHANGED <<disk, procs>>
  <2>1. EntsOK'
    BY <1>6, SameEnts DEF disk
  <2>2. iget(i) /\ Then(p, s) /\ UNCHANGED procs
    BY <1>6
  <2> HIDE DEF i
  <2>3. Fin(x) /\ \A j : N(x.h, j) = Is(i, j) + N(o.h, j)
    BY <1>2, <1>3, <1>4, PathOps
  <2> HIDE DEF x
  <2>4. s \in Seq(Ops) /\ Plain(s) /\ \A j : Cnt(s, j) = N(x.h, j)
    BY <2>3, FinList
  <2> HIDE DEF s
  <2>5. \A j \in Inum : Cnt(s, j) = Is(i, j) + N(o.h, j)
    BY <2>3, <2>4
  <2> QED
    BY <1>1, <1>4, <2>1, <2>2, <2>4, <2>5, Gains, SMT
<1> QED
  BY <1>5, <1>6 DEF namex0

(* One turn of namex's loop, whichever way it ends. *)
LEMMA namexInv ==
  ASSUME RefInv, NEW p \in Proc, namex(p)
  PROVE  RefInv'
<1> DEFINE o == Cur(p)  i == o.h[1]  h == Tail(o.h)  c == o.call
           next == dirlookup(i, Head(o.path))
<1>1. Now(p, "walk") /\ "walk" \in Ends \ {"chdir", "dead"}
  BY Names2 DEF namex
<1>2. OpOK(o) /\ o.do = "walk" /\ o.path \in Seq(Names \cup Dots) /\ o.h \in Seq(Inum)
  BY <1>1, CurrentOp
<1>3. c \in Calls /\ (Len(o.h) = 1 \/ (Len(o.h) = 2 /\ c.op = "link"))
  BY <1>2 DEF OpOK
<1>4. /\ i \in Inum /\ h \in Seq(Inum) /\ Hand(h, c)
      /\ \A j : N(o.h, j) = Is(i, j) + N(h, j)
  BY <1>2, <1>3, WalkHand
<1>5. UNCHANGED <<disk, procs>>
  BY DEF namex
<1>6. EntsOK'
  BY <1>5, SameEnts DEF disk
<1>7. CASE Panics
  BY <1>7, PanicsInv DEF Panics, disk, cache
<1>8. CASE Then(p, <<Put(i)>> \o NotFound(c, h)) /\ ref' = ref
  <2>1. Carries(<<Put(i)>> \o NotFound(c, h), i, h)
    BY <1>3, <1>4, NotFoundOK
  <2> DEFINE s == <<Put(i)>> \o NotFound(c, h)
  <2>2. Carries(s, i, h) /\ Then(p, s) /\ ref' = ref /\ UNCHANGED procs
    BY <1>5, <1>8, <2>1
  <2> HIDE DEF s, i, h
  <2>3. s \in Seq(Ops) /\ Plain(s) /\ \A j \in Inum : Cnt(s, j) = N(o.h, j)
    BY <1>4, <2>2, SMTT(30) DEF Carries
  <2> QED
    BY <1>1, <1>6, <2>2, <2>3, HandsLast
<1>9. CASE ~WantsParent(c, h) /\ Then(p, Found(c, i, h, <<>>)) /\ ref' = ref
  <2>1. <<>> \in Seq(Names \cup Dots)
    BY SMT
  <2>2. Carries(Found(c, i, h, <<>>), i, h)
    BY <1>3, <1>4, <1>9, <2>1, FoundOK
  <2> DEFINE s == Found(c, i, h, <<>>)
  <2>3. Carries(s, i, h) /\ Then(p, s) /\ ref' = ref /\ UNCHANGED procs
    BY <1>5, <1>9, <2>2, SMTT(30)
  <2> HIDE DEF s, i, h
  <2>4. s \in Seq(Ops) /\ Plain(s) /\ \A j \in Inum : Cnt(s, j) = N(o.h, j)
    BY <1>4, <2>3 DEF Carries
  <2> QED
    BY <1>1, <1>6, <2>3, <2>4, HandsLast
<1>10. CASE o.path # <<>> /\ Then(p, Found(c, i, h, o.path)) /\ ref' = ref
  <2>1. Carries(Found(c, i, h, o.path), i, h)
    BY <1>2, <1>3, <1>4, <1>10, FoundOK
  <2> DEFINE s == Found(c, i, h, o.path)
  <2>2. Carries(s, i, h) /\ Then(p, s) /\ ref' = ref /\ UNCHANGED procs
    BY <1>5, <1>10, <2>1
  <2> HIDE DEF s, i, h
  <2>3. s \in Seq(Ops) /\ Plain(s) /\ \A j \in Inum : Cnt(s, j) = N(o.h, j)
    BY <1>4, <2>2 DEF Carries
  <2> QED
    BY <1>1, <1>6, <2>2, <2>3, HandsLast
<1>11. CASE /\ o.path # <<>> /\ next # None /\ iget(next)
            /\ Then(p, <<Put(i), Op("walk", <<next>> \o h, c, Tail(o.path))>>)
  <2> DEFINE x == Put(i)  y == Op("walk", <<next>> \o h, c, Tail(o.path))  s == <<x, y>>
  <2>1. next \in Inum
    BY <1>2, <1>4, <1>11, Entry
  <2>2. Tail(o.path) \in Seq(Names \cup Dots)
    BY <1>2, <1>11, PathHead
  <2>3. iget(next) /\ Then(p, s)
    BY <1>11
  <2> HIDE DEF next, i, h, c
  <2>4. Mid(x) /\ \A j : N(x.h, j) = Is(i, j)
    BY <1>4, PutOp
  <2>5. Fin(y) /\ \A j : N(y.h, j) = Is(next, j) + N(h, j)
    BY <1>3, <1>4, <2>1, <2>2, PathOps
  <2> HIDE DEF x, y
  <2>6. s \in Seq(Ops) /\ Plain(s) /\ \A j : Cnt(s, j) = N(x.h, j) + N(y.h, j)
    BY <2>4, <2>5, TwoList
  <2> HIDE DEF s
  <2>7. \A j \in Inum : Cnt(s, j) = Is(next, j) + N(o.h, j)
    <3> SUFFICES ASSUME NEW j \in Inum PROVE Cnt(s, j) = Is(next, j) + N(o.h, j)
      OBVIOUS
    <3>1. /\ Cnt(s, j) = Is(i, j) + (Is(next, j) + N(h, j))
          /\ N(o.h, j) = Is(i, j) + N(h, j)
      BY <1>4, <2>4, <2>5, <2>6
    <3>2. Is(i, j) \in Nat /\ Is(next, j) \in Nat /\ N(h, j) \in Nat
      BY SMT DEF Is, N, Ind
    <3> QED
      BY <3>1, <3>2, SMT
  <2>8. UNCHANGED procs
    BY <1>5
  <2> QED
    BY <1>1, <1>6, <2>1, <2>3, <2>6, <2>7, <2>8, Gains, SMTT(30)
<1> QED
  BY <1>7, <1>8, <1>9, <1>10, <1>11 DEF namex, cache

-----------------------------------------------------------------------------
(* Current directories. *)

(* A list of two operations, the second of which ends the call. *)
LEMMA TodoTwo ==
  ASSUME NEW x, NEW y, NEW fds, OpOK(x), OpOK(y), x.do \notin Ends, y.do # "putcwd",
         x.do = "putcwd" => y.do \in {"chdir", "dead"},
         y.do = "dead" => \A fd \in FD : fds[fd] = None
  PROVE  TodoOK(<<x, y>>, TRUE, fds)
<1> DEFINE s == <<x, y>>
<1>1. Len(s) = 2 /\ s[1] = x /\ s[2] = y
  OBVIOUS
<1> HIDE DEF s
<1>2. Len(s) <= 4 /\ \A k \in 1 .. Len(s) : (s[k] = x /\ k = 1) \/ (s[k] = y /\ k = Len(s))
  BY <1>1, SMT
<1>3. x.do # "dead"
  BY DEF Ends
<1>4. TodoOK(s, TRUE, fds)
  BY <1>1, <1>2, <1>3 DEF TodoOK
<1> QED
  BY <1>4 DEF s

(* iput(proc->cwd), then x: the end of chdir or of exit. *)
LEMMA PutsCwd ==
  ASSUME NEW x \in Ops, OpOK(x), x.do \in {"chdir", "dead"}, NEW fds,
         x.do = "dead" => \A fd \in FD : fds[fd] = None
  PROVE  /\ <<Do("putcwd", <<>>), x>> \in Seq(Ops)
         /\ TodoOK(<<Do("putcwd", <<>>), x>>, TRUE, fds)
         /\ ~NoCwd(<<Do("putcwd", <<>>), x>>, TRUE)
         /\ \A j : Cnt(<<Do("putcwd", <<>>), x>>, j) = N(x.h, j)
<1> DEFINE o == Do("putcwd", <<>>)  s == <<o, x>>
<1>1. "putcwd" \in NoRef /\ "putcwd" \notin Ends
  BY DEF NoRef, Ends
<1>2. o \in Ops /\ o.do = "putcwd" /\ OpOK(o) /\ \A j : N(o.h, j) = 0
  BY <1>1, BareNone
<1> HIDE DEF o
<1>3. s \in Seq(Ops) /\ s[1] = o
  BY <1>2, SMT
<1>4. TodoOK(s, TRUE, fds)
  <2>1. x.do # "putcwd" /\ o.do \notin Ends
    BY <1>1, <1>2
  <2> QED
    BY <1>2, <2>1, TodoTwo
<1>5. ~NoCwd(s, TRUE)
  BY <1>2, <1>3 DEF NoCwd
<1>6. \A j : Cnt(s, j) = N(x.h, j)
  <2> SUFFICES ASSUME NEW j PROVE Cnt(s, j) = N(x.h, j)
    OBVIOUS
  <2>0. Cnt(s, j) = N(o.h, j) + N(x.h, j)
    BY <1>2, HeldTwo
  <2> HIDE DEF s
  <2>1. Cnt(s, j) = 0 + N(x.h, j)
    BY <1>2, <2>0
  <2>2. N(x.h, j) \in Nat
    BY SMT DEF N, Ind
  <2> QED
    BY <2>1, <2>2, SMT
<1> QED
  BY <1>3, <1>4, <1>5, <1>6 DEF o

(* The operations that end chdir and exit. *)
LEMMA EndOps ==
  /\ \A i \in Inum : /\ Do("chdir", <<i>>) \in Ops /\ Do("chdir", <<i>>).do = "chdir"
                     /\ OpOK(Do("chdir", <<i>>)) /\ \A j : N(Do("chdir", <<i>>).h, j) = Is(i, j)
  /\ Do("dead", <<>>) \in Ops /\ Do("dead", <<>>).do = "dead" /\ OpOK(Do("dead", <<>>))
  /\ \A j : N(Do("dead", <<>>).h, j) = 0
  /\ Do("exit", <<>>) \in Ops /\ Do("exit", <<>>).do = "exit" /\ Fin(Do("exit", <<>>))
  /\ \A j : N(Do("exit", <<>>).h, j) = 0
<1>1. /\ "chdir" \in OpNames /\ "chdir" \in OneRef /\ "chdir" \notin NoRef /\ "chdir" \notin TwoRef
      /\ "dead" \in NoRef /\ "exit" \in NoRef
  BY DEF OpNames, OneRef, NoRef, TwoRef
<1>2. ASSUME NEW i \in Inum
      PROVE  /\ Do("chdir", <<i>>) \in Ops /\ Do("chdir", <<i>>).do = "chdir"
             /\ OpOK(Do("chdir", <<i>>)) /\ \A j : N(Do("chdir", <<i>>).h, j) = Is(i, j)
  <2> DEFINE o == Do("chdir", <<i>>)
  <2>1. <<i>> \in Seq(Inum) /\ Len(<<i>>) = 1
    BY SMT
  <2>2. o \in Ops /\ o.do = "chdir" /\ o.h = <<i>>
    BY <1>1, <2>1, DoType
  <2> HIDE DEF o
  <2>3. OpOK(o)
    BY <1>1, <2>1, <2>2 DEF OpOK
  <2>4. \A j : N(<<i>>, j) = Is(i, j)
    BY Holds
  <2> QED
    BY <2>2, <2>3, <2>4 DEF o
<1>3. /\ Do("dead", <<>>) \in Ops /\ Do("dead", <<>>).do = "dead" /\ OpOK(Do("dead", <<>>))
      /\ \A j : N(Do("dead", <<>>).h, j) = 0
  BY <1>1, BareNone
<1>4. /\ Do("exit", <<>>) \in Ops /\ Do("exit", <<>>).do = "exit" /\ OpOK(Do("exit", <<>>))
      /\ \A j : N(Do("exit", <<>>).h, j) = 0
  BY <1>1, BareNone
<1>5. Fin(Do("exit", <<>>))
  BY <1>4 DEF Fin
<1> QED
  BY <1>2, <1>3, <1>4, <1>5

(* open, chdir and exec with the inode that namei returned. *)
LEMMA useInv ==
  ASSUME RefInv, NEW p \in Proc, use(p)
  PROVE  RefInv'
<1> DEFINE o == Cur(p)  i == o.h[1]
<1>1. Now(p, "use") /\ "use" \in Ends /\ "use" \in Ends \ {"chdir", "dead"} /\ "use" \in OneRef
  BY Names2 DEF use
<1>2. i \in Inum /\ \A j : N(o.h, j) = Is(i, j)
  BY <1>1, OneOp
<1>3. o.call \in OpCalls /\ alive[p] /\ cwd[p] # None
  BY <1>1, CurrentOp
<1>4. CASE Panics
  BY <1>4, PanicsInv DEF Panics, disk, cache
<1>5. CASE Then(p, <<Op("open", <<i>>, o.call, <<>>)>>) /\ UNCHANGED <<disk, ref, procs>>
  <2> DEFINE x == Op("open", <<i>>, o.call, <<>>)
  <2>1. EntsOK'
    BY <1>5, SameEnts DEF disk
  <2>2. <<>> \in Seq(Names \cup Dots) /\ "open" \in OneNames
    BY SMT DEF OneNames
  <2>3. Fin(x) /\ \A j : N(x.h, j) = Is(i, j)
    BY <1>2, <1>3, <2>2, CallOne
  <2>4. Then(p, <<x>>)
    BY <1>5
  <2> HIDE DEF x, i
  <2>5. \A j \in Inum : N(x.h, j) = N(o.h, j)
    BY <1>2, <2>3
  <2> QED
    BY <1>1, <1>5, <2>1, <2>3, <2>4, <2>5, LastOne
<1>6. CASE Then(p, <<Put(i)>>) /\ UNCHANGED <<disk, ref, procs>>
  <2>1. EntsOK'
    BY <1>6, SameEnts DEF disk
  <2>2. Fin(Put(i)) /\ \A j : N(Put(i).h, j) = Is(i, j)
    BY <1>2, PutOp, MidFin
  <2>3. \A j \in Inum : N(Put(i).h, j) = N(o.h, j)
    BY <1>2, <2>2
  <2> QED
    BY <1>1, <1>6, <2>1, <2>2, <2>3, LastOne
<1>7. CASE /\ Then(p, <<Do("putcwd", <<>>), Do("chdir", <<i>>)>>)
           /\ UNCHANGED <<disk, ref, procs>>
  <2> DEFINE x == Do("chdir", <<i>>)  s == <<Do("putcwd", <<>>), x>>
  <2>1. /\ ents' = ents /\ ref' = ref /\ alive' = alive /\ cwd' = cwd /\ ofile' = ofile
        /\ file' = file /\ Then(p, s)
    BY <1>7 DEF disk, procs
  <2>2. x \in Ops /\ x.do = "chdir" /\ OpOK(x) /\ \A j : N(x.h, j) = Is(i, j)
    BY <1>2, EndOps
  <2> HIDE DEF x
  <2>3. x.do \in {"chdir", "dead"} /\ x.do # "dead"
    BY <2>2
  <2>4. /\ s \in Seq(Ops) /\ TodoOK(s, TRUE, ofile[p]) /\ ~NoCwd(s, TRUE)
        /\ \A j : Cnt(s, j) = N(x.h, j)
    BY <2>2, <2>3, PutsCwd
  <2> HIDE DEF s, i
  <2>5. todo' = [todo EXCEPT ![p] = s]
    BY <1>1, <2>1, <2>4, LastIs
  <2>6. alive[p] = TRUE /\ alive \in [Proc -> BOOLEAN]
    BY <1>3 DEF RefInv, RefTypeOK
  <2>7. TodoInv' /\ CwdInv'
    BY <1>3, <2>1, <2>4, <2>5, <2>6, Moves
  <2>8. cwd \in [Proc -> Inum \cup {None}]
    BY DEF RefInv, RefTypeOK
  <2>9. cwd[p] \in Inum \cup {None} /\ cwd' = [cwd EXCEPT ![p] = cwd[p]]
    BY <2>1, <2>8
  <2>10. \A j \in Inum : Is(cwd[p], j) + Cnt(s, j) = Is(cwd[p], j) + Cnt(todo[p], j)
    BY <1>1, <1>2, <2>2, <2>4, LastIs
  <2>11. RefTypeOK' /\ RefsCounted'
    BY <2>1, <2>4, <2>5, <2>6, <2>9, <2>10, CwdStep, ZenonT(30)
  <2> QED
    BY <2>7, <2>11 DEF RefInv
<1> QED
  BY <1>4, <1>5, <1>6, <1>7 DEF use

(* The reference of chdir goes to the current directory. *)
LEMMA chdirInv ==
  ASSUME RefInv, NEW p \in Proc, chdir(p)
  PROVE  RefInv'
<1> DEFINE o == Cur(p)  i == o.h[1]
<1>1. Now(p, "chdir") /\ "chdir" \in Ends /\ "chdir" \in OneRef
  BY DEF chdir, Ends, OneRef
<1>2. i \in Inum /\ \A j : N(o.h, j) = Is(i, j)
  BY <1>1, OneOp
<1>3. /\ alive[p] /\ todo[p] # <<>> /\ todo[p] \in Seq(Ops) /\ Len(todo[p]) = 1
      /\ todo[p][1].do = "chdir"
  <2>1. /\ alive[p] /\ todo[p] # <<>> /\ todo[p] \in Seq(Ops) /\ Len(todo[p]) = 1
        /\ o = todo[p][1] /\ o.do = "chdir"
    BY <1>1, CurrentOp
  <2> QED
    BY <2>1
<1>4. cwd[p] = None
  <2>1. NoCwd(todo[p], alive[p])
    BY <1>3 DEF NoCwd
  <2> QED
    BY <2>1 DEF RefInv, CwdInv
<1>5. /\ ents' = ents /\ ref' = ref /\ alive' = alive /\ ofile' = ofile
      /\ file' = file /\ Then(p, <<>>) /\ cwd' = [cwd EXCEPT ![p] = i]
  BY DEF chdir, disk, cache
<1>6. alive[p] = TRUE /\ alive \in [Proc -> BOOLEAN] /\ cwd \in [Proc -> Inum \cup {None}]
  BY <1>3 DEF RefInv, RefTypeOK
<1> HIDE DEF i
<1>7. <<>> \in Seq(Ops) /\ Plain(<<>>) /\ \A j : Cnt(<<>>, j) = 0
  BY NoneList
<1>8. todo' = [todo EXCEPT ![p] = <<>>]
  BY <1>1, <1>5, <1>7, LastIs
<1>9. cwd'[p] = i /\ (\A q \in Proc \ {p} : cwd'[q] = cwd[q]) /\ i # None
  BY <1>2, <1>5, <1>6, FiniteSets_
<1>10. TodoOK(<<>>, TRUE, ofile[p]) /\ ~NoCwd(<<>>, TRUE)
  BY <1>7 DEF Plain, TodoOK, NoCwd
<1>11. TodoInv' /\ CwdInv'
  BY <1>5, <1>6, <1>7, <1>8, <1>9, <1>10, Moves
<1>12. \A j \in Inum : Is(i, j) + Cnt(<<>>, j) = Is(cwd[p], j) + Cnt(todo[p], j)
  <2> SUFFICES ASSUME NEW j \in Inum
               PROVE  Is(i, j) + Cnt(<<>>, j) = Is(cwd[p], j) + Cnt(todo[p], j)
    OBVIOUS
  <2>1. Cnt(<<>>, j) = 0 /\ Cnt(todo[p], j) = Is(i, j) /\ cwd[p] # j
    BY <1>1, <1>2, <1>4, <1>7, LastIs, FiniteSets_
  <2> QED
    BY <2>1, SMT DEF Is
<1>13. RefTypeOK' /\ RefsCounted'
  <2>1. /\ i \in Inum \cup {None} /\ alive' \in [Proc -> BOOLEAN]
        /\ UNCHANGED <<ents, ref, ofile, file>> /\ cwd' = [cwd EXCEPT ![p] = i]
    BY <1>2, <1>5, <1>6
  <2> QED
    BY <1>7, <1>8, <1>12, <2>1, CwdStep
<1> QED
  BY <1>11, <1>13 DEF RefInv

(* The parts of a list of two operations. *)
LEMMA TwoLeft ==
  ASSUME NEW t \in Seq(Ops), Len(t) = 2
  PROVE  t[1] \in Ops /\ t[2] \in Ops /\ t = <<t[1], t[2]>> /\ Tail(t) = <<t[2]>>
<1>1. t[1] \in Ops /\ t[2] \in Ops
  BY SMT
<1>2. t = <<t[1], t[2]>>
  BY <1>1, SMT
<1>3. \A a, b : Tail(<<a, b>>) = <<b>>
  BY SMT
<1> QED
  BY <1>1, <1>2, <1>3

(* The reference of the current directory goes to iput. *)
LEMMA putcwdInv ==
  ASSUME RefInv, NEW p \in Proc, putcwd(p)
  PROVE  RefInv'
<1> DEFINE t == todo[p]  x == t[2]  d == cwd[p]  s == <<Put(d), x>>
<1>1. Now(p, "putcwd") /\ "putcwd" \in NoRef
  BY DEF putcwd, NoRef
<1>2. /\ t \in Seq(Ops) /\ t # <<>> /\ Cur(p) = t[1] /\ Cur(p).do = "putcwd" /\ OpOK(Cur(p))
      /\ alive[p]
  BY <1>1, CurrentOp
<1>3. alive[p] = TRUE /\ alive \in [Proc -> BOOLEAN] /\ cwd \in [Proc -> Inum \cup {None}]
  BY <1>2 DEF RefInv, RefTypeOK
<1>4. TodoOK(t, TRUE, ofile[p]) /\ (d = None <=> NoCwd(t, TRUE))
  BY <1>3 DEF RefInv, TodoInv, CwdInv
<1>5. /\ ents' = ents /\ ref' = ref /\ alive' = alive /\ ofile' = ofile
      /\ file' = file /\ Then(p, <<Put(d)>>) /\ cwd' = [cwd EXCEPT ![p] = None]
  BY DEF putcwd, disk, cache
<1>6. d # None
  BY <1>2, <1>4 DEF NoCwd
<1>7. d \in Inum
  BY <1>3, <1>6
<1> HIDE DEF d, t
<1>8. todo' = [todo EXCEPT ![p] = <<Put(d)>> \o Tail(t)]
  BY <1>5 DEF Then, t
<1>9. /\ 1 \in 1 .. Len(t)
  BY <1>2, SMT
<1>10. Len(t) = 2 /\ x.do \in {"chdir", "dead"}
  BY <1>2, <1>4, <1>9 DEF TodoOK
<1>11. 2 \in 1 .. Len(t)
  BY <1>10, SMT
<1>12. OpOK(x) /\ (x.do = "dead" => \A fd \in FD : ofile[p][fd] = None)
  BY <1>4, <1>11 DEF TodoOK
<1>13. x \in Ops /\ t = <<t[1], x>> /\ t[1] \in Ops /\ Tail(t) = <<x>>
  BY <1>2, <1>10, TwoLeft
<1> HIDE DEF x
<1>14. Mid(Put(d)) /\ \A j : N(Put(d).h, j) = Is(d, j)
  BY <1>7, PutOp
<1>15. Put(d) \in Ops /\ OpOK(Put(d)) /\ Put(d).do \notin Ends /\ Put(d).do # "putcwd"
  BY <1>14 DEF Mid
<1>16. s \in Seq(Ops) /\ s[1] = Put(d) /\ s[2] = x /\ Len(s) = 2 /\ s # <<>>
  BY <1>13, <1>15, SMT
<1>17. todo' = [todo EXCEPT ![p] = s]
  BY <1>8, <1>13, <1>15, Appended
<1>18. TodoOK(s, TRUE, ofile[p])
  <2>1. x.do # "putcwd"
    BY <1>10
  <2> QED
    BY <1>12, <1>15, <2>1, TodoTwo
<1>19. NoCwd(s, TRUE)
  BY <1>10, <1>15, <1>16 DEF NoCwd
<1>20. \A j : Cnt(s, j) = Is(d, j) + N(x.h, j) /\ Cnt(t, j) = N(t[1].h, j) + N(x.h, j)
  <2>1. \A j : Cnt(s, j) = N(Put(d).h, j) + N(x.h, j)
    BY <1>13, <1>15, HeldTwo
  <2>2. \A j : Cnt(<<t[1], x>>, j) = N(t[1].h, j) + N(x.h, j)
    BY <1>13, HeldTwo
  <2> QED
    BY <1>13, <1>14, <2>1, <2>2
<1> HIDE DEF s
<1>21. cwd'[p] = None /\ \A q \in Proc \ {p} : cwd'[q] = cwd[q]
  BY <1>3, <1>5
<1>22. TodoInv' /\ CwdInv'
  BY <1>3, <1>5, <1>16, <1>17, <1>18, <1>19, <1>21, Moves, ZenonT(30)
<1>23. \A j \in Inum : Is(None, j) + Cnt(s, j) = Is(cwd[p], j) + Cnt(todo[p], j)
  <2> SUFFICES ASSUME NEW j \in Inum
               PROVE  Is(None, j) + Cnt(s, j) = Is(cwd[p], j) + Cnt(todo[p], j)
    OBVIOUS
  <2>1. t[1].h = <<>>
    BY <1>1, <1>2 DEF OpOK
  <2>2. N(t[1].h, j) = 0
    BY <2>1, Holds
  <2>3. None # j
    BY FiniteSets_
  <2>4. Is(None, j) = 0 /\ Is(d, j) \in Nat /\ N(x.h, j) \in Nat
    BY <2>3, SMT DEF Is, N, Ind
  <2>5. Cnt(s, j) = Is(d, j) + N(x.h, j) /\ Cnt(t, j) = 0 + N(x.h, j)
    BY <1>20, <2>2
  <2>6. Is(None, j) + Cnt(s, j) = Is(d, j) + Cnt(t, j)
    BY <2>4, <2>5, SMT
  <2> QED
    BY <2>6 DEF d, t
<1>24. RefTypeOK' /\ RefsCounted'
  <2>1. /\ None \in Inum \cup {None} /\ alive' \in [Proc -> BOOLEAN]
        /\ UNCHANGED <<ents, ref, ofile, file>> /\ cwd' = [cwd EXCEPT ![p] = None]
    BY <1>3, <1>5
  <2> QED
    BY <1>16, <1>17, <1>23, <2>1, CwdStep, ZenonT(30)
<1> QED
  BY <1>22, <1>24 DEF RefInv

(* exit comes to its end. *)
LEMMA deadInv ==
  ASSUME RefInv, NEW p \in Proc, dead(p)
  PROVE  RefInv'
<1> DEFINE o == Cur(p)  t == todo[p]
<1>1. Now(p, "dead") /\ "dead" \in Ends /\ "dead" \in NoRef
  BY DEF dead, Ends, NoRef
<1>2. /\ alive[p] /\ t # <<>> /\ t \in Seq(Ops) /\ Len(t) = 1
      /\ o = t[1] /\ o.do = "dead" /\ OpOK(o)
  BY <1>1, CurrentOp
<1>3. /\ ents' = ents /\ ref' = ref /\ cwd' = cwd /\ ofile' = ofile
      /\ file' = file /\ Then(p, <<>>) /\ alive' = [alive EXCEPT ![p] = FALSE]
  BY DEF dead, disk, cache
<1>4. alive[p] = TRUE /\ alive \in [Proc -> BOOLEAN] /\ cwd \in [Proc -> Inum \cup {None}]
  BY <1>2 DEF RefInv, RefTypeOK
<1>5. TodoOK(t, TRUE, ofile[p]) /\ (cwd[p] = None <=> NoCwd(t, TRUE))
  BY <1>4 DEF RefInv, TodoInv, CwdInv
<1>6. cwd[p] = None
  <2>1. t[1].do = "dead"
    BY <1>2
  <2>2. NoCwd(t, TRUE)
    BY <1>2, <2>1 DEF NoCwd
  <2> QED
    BY <1>5, <2>2
<1>7. 1 \in 1 .. Len(t)
  <2> HIDE DEF t
  <2> QED
    BY <1>2, SMT
<1>8. \A fd \in FD : ofile[p][fd] = None
  BY <1>2, <1>5, <1>7 DEF TodoOK
<1>9. <<>> \in Seq(Ops) /\ Plain(<<>>) /\ \A j : Cnt(<<>>, j) = 0
  BY NoneList
<1>10. todo' = [todo EXCEPT ![p] = <<>>]
  BY <1>1, <1>3, <1>9, LastIs
<1>11. alive'[p] = FALSE /\ (\A q \in Proc \ {p} : alive'[q] = alive[q]) /\ alive' \in [Proc -> BOOLEAN]
  BY <1>3, <1>4
<1>12. TodoOK(<<>>, FALSE, ofile[p]) /\ NoCwd(<<>>, FALSE)
  BY <1>8, <1>9 DEF Plain, TodoOK, NoCwd
<1>13. TodoInv' /\ CwdInv'
  BY <1>3, <1>6, <1>9, <1>10, <1>11, <1>12, Moves
<1>14. \A j \in Inum : Is(cwd[p], j) + Cnt(<<>>, j) = Is(cwd[p], j) + Cnt(todo[p], j)
  <2>1. o.h = <<>>
    BY <1>1, <1>2 DEF OpOK
  <2>2. \A j : N(<<>>, j) = 0
    BY Holds
  <2>3. \A j : Cnt(todo[p], j) = N(o.h, j)
    BY <1>1, LastIs
  <2> QED
    BY <1>9, <2>1, <2>2, <2>3
<1>15. RefTypeOK' /\ RefsCounted'
  <2>1. /\ cwd[p] \in Inum \cup {None} /\ alive' \in [Proc -> BOOLEAN]
        /\ UNCHANGED <<ents, ref, ofile, file>> /\ cwd' = [cwd EXCEPT ![p] = cwd[p]]
    BY <1>3, <1>4, <1>11
  <2> QED
    BY <1>9, <1>10, <1>14, <2>1, CwdStep
<1> QED
  BY <1>13, <1>15 DEF RefInv

-----------------------------------------------------------------------------
(* close and exit. *)

(* One descriptor of p changes, and one file structure with it. *)
LEMMA FileInv ==
  ASSUME RefInv, NEW p \in Proc, alive[p], cwd[p] # None,
         NEW s \in Seq(Ops), todo' = [todo EXCEPT ![p] = s], Plain(s),
         UNCHANGED <<ents, ref, alive, cwd>>,
         NEW fd \in FD, NEW b \in File \cup {None}, ofile' = [ofile EXCEPT ![p][fd] = b],
         NEW f \in File, NEW v \in [ref : Int, ip : Inum \cup {None}],
         file' = [file EXCEPT ![f] = v],
         DescMove(p, fd, b, f, v), RefMove(p, s, f, v)
  PROVE  RefInv'
<1>1. RefTypeOK' /\ RefsCounted'
  BY FileStep
<1>2. \A q \in Proc \ {p} : ofile'[q] = ofile[q]
  <2>1. ofile \in [Proc -> [FD -> File \cup {None}]]
    BY DEF RefInv, RefTypeOK
  <2> QED
    BY <2>1
<1>3. UNCHANGED <<alive, cwd>>
  OBVIOUS
<1>4. TodoInv' /\ CwdInv'
  BY <1>2, <1>3, EntersOK
<1> QED
  BY <1>1, <1>4 DEF RefInv

(* A descriptor is closed; p goes on with what fileclose still has to do, *)
(* and perhaps with more.                                                 *)
LEMMA ClosesInv ==
  ASSUME RefInv, NEW p \in Proc, alive[p], cwd[p] # None, \A j : Cnt(todo[p], j) = 0,
         NEW fd \in FD, ofile[p][fd] # None,
         NEW s \in Seq(Ops), todo' = [todo EXCEPT ![p] = s], Plain(s),
         \A j : Cnt(s, j) = Cnt(fileclose(ofile[p][fd]), j),
         ofile' = [ofile EXCEPT ![p][fd] = None], file' = Closed(ofile[p][fd]),
         UNCHANGED <<ents, ref, alive, cwd>>
  PROVE  RefInv'
<1> DEFINE f == ofile[p][fd]  v == Less(file[f])
<1>1. f \in File /\ file[f].ref > 0 /\ None \in File \cup {None}
  BY NamedFile
<1>2. /\ v \in [ref : Int, ip : Inum \cup {None}] /\ v.ref = file[f].ref - 1
      /\ file' = [file EXCEPT ![f] = v]
      /\ \A i \in Inum : Ind(v.ref > 0 /\ v.ip = i) + Cnt(fileclose(f), i)
                           = Ind(file[f].ref > 0 /\ file[f].ip = i)
  BY <1>1, CloseOK
<1> HIDE DEF v
<1>3. DescMove(p, fd, None, f, v)
  <2>1. \A g \in File : file[g].ref \in Int /\ g # None
    BY FiniteSets_ DEF RefInv, RefTypeOK
  <2>2. \A g \in File : (IF g = f THEN v.ref ELSE file[g].ref) = file[g].ref + Is(None, g) - Is(f, g)
    BY <1>1, <1>2, <2>1, SMTT(30) DEF Is
  <2> QED
    BY <2>2 DEF DescMove
<1>4. RefMove(p, s, f, v)
  <2> SUFFICES ASSUME NEW i \in Inum
               PROVE  Ind(v.ref > 0 /\ v.ip = i) + Cnt(s, i) =
                        Ind(file[f].ref > 0 /\ file[f].ip = i) + Cnt(todo[p], i)
    BY DEF RefMove
  <2>1. /\ Ind(v.ref > 0 /\ v.ip = i) + Cnt(s, i) = Ind(file[f].ref > 0 /\ file[f].ip = i)
        /\ Cnt(todo[p], i) = 0
    BY <1>2
  <2>2. Ind(file[f].ref > 0 /\ file[f].ip = i) \in Int
    BY SMT DEF Ind
  <2> QED
    BY <2>1, <2>2, SMT
<1> HIDE DEF f
<1>5. f = ofile[p][fd]
  BY DEF f
<1> QED
  BY <1>1, <1>2, <1>3, <1>4, FileInv

(* sys_close. *)
LEMMA closeInv ==
  ASSUME RefInv, NEW p \in Proc, NEW fd \in FD, close(p, fd)
  PROVE  RefInv'
<1> DEFINE f == ofile[p][fd]  s == fileclose(f)
<1>1. /\ Ready(p) /\ f # None /\ ofile' = [ofile EXCEPT ![p][fd] = None]
      /\ file' = Closed(f) /\ todo' = [todo EXCEPT ![p] = s] /\ UNCHANGED <<ents, ref, alive, cwd>>
  BY DEF close, Enter, disk, cache
<1>2. alive[p] /\ cwd[p] # None /\ \A j : Cnt(todo[p], j) = 0
  BY <1>1, Idle, FiniteSets_
<1>3. f \in File /\ file[f].ref > 0
  BY <1>1, NamedFile
<1>4. s \in Seq(Ops) /\ Mids(s)
  BY <1>3, CloseOK
<1>5. \A j : Cnt(s, j) = Cnt(fileclose(f), j)
  OBVIOUS
<1> HIDE DEF s
<1>6. Plain(s)
  BY <1>4, MidsPlain
<1> QED
  BY <1>1, <1>2, <1>4, <1>5, <1>6, ClosesInv

(* exit closes one descriptor, or goes on to its current directory. *)
LEMMA exitInv ==
  ASSUME RefInv, NEW p \in Proc, exit(p)
  PROVE  RefInv'
<1> DEFINE S == FD \ FreeFds(p)  x == Do("exit", <<>>)
<1>1. alive[p] /\ cwd[p] # None /\ \A j : Cnt(todo[p], j) = 0
  <2>1. Ready(p) \/ Now(p, "exit")
    BY DEF exit
  <2>2. CASE Ready(p)
    BY <2>2, Idle, FiniteSets_
  <2>3. CASE Now(p, "exit")
    <3>1. "exit" \in Ends \ {"chdir", "dead"} /\ "exit" \in NoRef
      BY DEF Ends, NoRef
    <3>2. alive[p] /\ cwd[p] # None /\ OpOK(Cur(p)) /\ Cur(p).do = "exit"
      BY <2>3, <3>1, CurrentOp
    <3>3. Cur(p).h = <<>>
      BY <3>1, <3>2 DEF OpOK
    <3>4. \A j : Cnt(todo[p], j) = N(Cur(p).h, j)
      BY <2>3, <3>1, LastIs
    <3>5. \A j : N(<<>>, j) = 0
      BY Holds
    <3> QED
      BY <3>2, <3>3, <3>4, <3>5
  <2> QED
    BY <2>1, <2>2, <2>3
<1>2. UNCHANGED <<ents, ref, alive, cwd>>
  BY DEF exit, disk, cache
<1>3. CASE S # {}
  <2> DEFINE fd == Min(S)  f == ofile[p][fd]  s == fileclose(f)  t == s \o <<x>>
  <2>1. fd \in S
    <3>1. S \in SUBSET Nat
      BY SMT DEF FD
    <3> QED
      BY <1>3, <3>1, MinIn
  <2>2. fd \in FD /\ f # None
    BY <2>1 DEF FreeFds
  <2>3. /\ ofile' = [ofile EXCEPT ![p][fd] = None] /\ file' = Closed(f)
        /\ todo' = [todo EXCEPT ![p] = t]
    BY <1>3 DEF exit
  <2> HIDE DEF fd
  <2>4. f \in File /\ file[f].ref > 0
    BY <2>2, NamedFile
  <2>5. s \in Seq(Ops) /\ Mids(s)
    BY <2>4, CloseOK
  <2>6. Fin(x) /\ \A j : N(x.h, j) = 0
    BY EndOps
  <2> HIDE DEF x
  <2>7. t \in Seq(Ops) /\ Plain(t) /\ \A j : Cnt(t, j) = Cnt(s, j) + N(x.h, j)
    BY <2>5, <2>6, MidsPlain
  <2> HIDE DEF s, t
  <2>8. \A j : Cnt(t, j) = Cnt(s, j)
    <3>1. Len(s) \in Nat
      BY <2>5, SMT
    <3>2. \A j : Cnt(s, j) \in Nat
      BY <3>1, HeldFinite
    <3>3. \A j : Cnt(t, j) = Cnt(s, j) + 0
      BY <2>6, <2>7, SMT
    <3> QED
      BY <3>2, <3>3, SMTT(30)
  <2>9. \A j : Cnt(t, j) = Cnt(fileclose(f), j)
    BY <2>8 DEF s
  <2> QED
    BY <1>1, <1>2, <2>2, <2>3, <2>7, <2>9, ClosesInv, ZenonT(30)
<1>4. CASE S = {}
  <2> DEFINE y == Do("dead", <<>>)  t == <<Do("putcwd", <<>>), y>>
  <2>1. todo' = [todo EXCEPT ![p] = t] /\ ofile' = ofile /\ file' = file
    BY <1>4 DEF exit
  <2>2. \A fd \in FD : ofile[p][fd] = None
    BY <1>4 DEF FreeFds
  <2>3. y \in Ops /\ y.do = "dead" /\ OpOK(y) /\ \A j : N(y.h, j) = 0
    BY EndOps
  <2> HIDE DEF y
  <2>4. /\ t \in Seq(Ops) /\ TodoOK(t, TRUE, ofile[p]) /\ ~NoCwd(t, TRUE)
        /\ \A j : Cnt(t, j) = N(y.h, j)
    BY <2>2, <2>3, PutsCwd
  <2> HIDE DEF t
  <2>5. /\ alive[p] = TRUE /\ alive \in [Proc -> BOOLEAN] /\ cwd \in [Proc -> Inum \cup {None}]
    BY <1>1 DEF RefInv, RefTypeOK
  <2>6. alive' = alive /\ cwd' = cwd /\ ents' = ents /\ ref' = ref
    BY <1>2
  <2>7. TodoInv' /\ CwdInv'
    BY <1>1, <2>1, <2>4, <2>5, <2>6, Moves, ZenonT(30)
  <2>8. \A j \in Inum : Is(cwd[p], j) + Cnt(t, j) = Is(cwd[p], j) + Cnt(todo[p], j)
    BY <1>1, <2>3, <2>4
  <2>9. cwd' = [cwd EXCEPT ![p] = cwd[p]] /\ cwd[p] \in Inum \cup {None}
    BY <2>5, <2>6
  <2>10. alive' \in [Proc -> BOOLEAN] /\ UNCHANGED <<ents, ref, ofile, file>>
    BY <2>1, <2>5, <2>6
  <2>11. RefTypeOK' /\ RefsCounted'
    BY <2>1, <2>4, <2>8, <2>9, <2>10, CwdStep, ZenonT(30)
  <2> QED
    BY <2>7, <2>11 DEF RefInv
<1> QED
  BY <1>3, <1>4

=============================================================================
