------------------------------- MODULE FileSys ------------------------------
(***************************************************************************)
(* kernel/fs.c, kernel/sysfile.c and kernel/file.c: inodes, the inode      *)
(* cache and its locks, directories and path names, descriptors and the    *)
(* file table, and the system calls on them.                               *)
(*                                                                         *)
(* A process works through a list of operations, todo.  One operation is   *)
(* what the code does between two places where it may have to wait:        *)
(* begin_trans, ilock, and iput where it drops icache.lock.  An inode lock *)
(* is held over several operations.  Disk blocks are reached through the   *)
(* log and the buffer cache (modules Log, BufferCache); here a transaction *)
(* is its owner, and an inode's content is one block.                      *)
(***************************************************************************)
EXTENDS Integers, Sequences, FiniteSets, FiniteSetsExt

CONSTANTS NProc, NInode, NBlock, NFILE, NOFILE,
          NINODE,     \* entries of the inode cache
          Names,      \* names a directory entry may have, without the dots
          Calls,      \* the path calls processes make: [op, abs, path, new]
          MaxCalls    \* bound: system calls made

Proc == 1 .. NProc
Inum == 1 .. NInode
Block == 1 .. NBlock
File == 1 .. NFILE
FD == 0 .. NOFILE - 1
ROOT == 1
None == 0
Dots == {".", ".."}
NoEntries == [n \in Names \cup Dots |-> None]

ASSUME FileSysAssumption ==
  /\ {NProc, NInode, NBlock, NFILE, NOFILE, NINODE} \subseteq Nat \ {0}
  /\ Names \cap Dots = {}
  /\ \A c \in Calls : /\ c.path \in Seq(Names \cup Dots)
                      /\ c.op = "link" => c.new \in Seq(Names \cup Dots)

VARIABLES
  type, nlink, ents, blk,   \* per inode: on disk and, when valid, in the cache
  bitmap,                   \* blocks in use
  ref, valid, busy,         \* per inode: its cache entry, if ref > 0
  trans,                    \* the process between begin_trans and commit_trans
  alive, cwd, ofile,        \* per process
  file,                     \* ftable: [ref, ip], ip = None for a pipe
  todo,                     \* per process: the rest of its system call
  panic,
  ncalls

disk == <<type, nlink, ents, blk, bitmap>>
cache == <<ref, valid, busy>>
procs == <<alive, cwd, ofile, file>>
vars == <<disk, cache, trans, procs, todo, panic, ncalls>>

Init ==    \* the file system of mkfs; init has forked once
  /\ type = [i \in Inum |-> IF i = ROOT THEN "DIR" ELSE "FREE"]
  /\ nlink = [i \in Inum |-> IF i = ROOT THEN 1 ELSE 0]
  /\ ents = [i \in Inum |-> IF i = ROOT THEN [n \in Names \cup Dots |->
                                                IF n \in Dots THEN ROOT ELSE None]
                            ELSE NoEntries]
  /\ blk = [i \in Inum |-> IF i = ROOT THEN 1 ELSE None]
  /\ bitmap = {1}
  /\ ref = [i \in Inum |-> IF i = ROOT THEN Cardinality({1, 2} \cap Proc) ELSE 0]
  /\ valid = [i \in Inum |-> FALSE]
  /\ busy = [i \in Inum |-> None]
  /\ trans = None
  /\ alive = [p \in Proc |-> p <= 2]
  /\ cwd = [p \in Proc |-> IF p <= 2 THEN ROOT ELSE None]
  /\ ofile = [p \in Proc |-> [fd \in FD |-> None]]
  /\ file = [f \in File |-> [ref |-> 0, ip |-> None]]
  /\ todo = [p \in Proc |-> <<>>]
  /\ panic = FALSE
  /\ ncalls = 0

-----------------------------------------------------------------------------
(* One operation: h lists the inode references it owns, the inode it works *)
(* on first; call is the call it is part of; path what is left of the path *)
(* name.                                                                   *)
Op(do, h, call, path) == [do |-> do, h |-> h, call |-> call, path |-> path]
On(i) == [op |-> "", ip |-> i]
Do(do, h) == Op(do, h, On(None), <<>>)
Put(i) == Do("put", <<i>>)
Begin == Do("begin", <<>>)
Commit == Do("commit", <<>>)

(* p's next operation is do; afterwards p goes on with s. *)
Now(p, do) == ~panic /\ todo[p] # <<>> /\ Head(todo[p]).do = do
Cur(p) == Head(todo[p])
Then(p, s) == todo' = [todo EXCEPT ![p] = s \o Tail(@)]
Enter(p, s) == todo' = [todo EXCEPT ![p] = s]
Panics == panic' = TRUE /\ UNCHANGED <<disk, cache, trans, procs, todo>>
Ready(p) == ~panic /\ alive[p] /\ todo[p] = <<>>

(* ilock waits for the lock; what it reads from the disk must be an inode. *)
CanLock(i) == busy[i] = None
NoType(i) == ~valid[i] /\ type[i] = "FREE"
Validated(i) == [valid EXCEPT ![i] = TRUE]
ilock(p, i) == CanLock(i) /\ busy' = [busy EXCEPT ![i] = p] /\ valid' = Validated(i)

(* ilock, work, iunlock in one operation. *)
LockUnlock(i) == CanLock(i) /\ valid' = Validated(i) /\ UNCHANGED busy

(* iget uses the inode's entry, or a free one of the NINODE; idup. *)
Cached == {i \in Inum : ref[i] > 0}
NoEntry(i) == ref[i] = 0 /\ Cardinality(Cached) >= NINODE
iget(i) == ref' = [ref EXCEPT ![i] = @ + 1]
idup(i) == iget(i)

(* The entry of directory d for a name, and the directories with one more. *)
dirlookup(d, n) == ents[d][n]
dirlink(d, n, i) == [ents EXCEPT ![d][n] = i]

-----------------------------------------------------------------------------
(* Wrong: the links are not counted. *)
FreesLinked(i) == ref[i] = 1 /\ valid[i]
(* Wrong: tested after the reference is dropped. *)
FreesTooLate(i) == ref[i] = 0 /\ valid[i] /\ nlink[i] = 0
(* iput.  The last reference to an inode without links frees it, with the  *)
(* lock taken and icache.lock released; a free cache entry forgets what it *)
(* held.                                                                   *)
Frees(i) == ref[i] = 1 /\ valid[i] /\ nlink[i] = 0

iput(p) ==
  LET i == Cur(p).h[1] IN
  /\ Now(p, "put")
  /\ IF Frees(i) /\ busy[i] # None THEN Panics
     ELSE IF Frees(i) THEN
       /\ busy' = [busy EXCEPT ![i] = p]
       /\ Then(p, <<Do("free", <<i>>)>>)
       /\ UNCHANGED <<disk, ref, valid, trans, procs, panic>>
     ELSE
       /\ ref' = [ref EXCEPT ![i] = @ - 1]
       /\ valid' = [valid EXCEPT ![i] = @ /\ ref[i] > 1]
       /\ Then(p, <<>>)
       /\ UNCHANGED <<disk, busy, trans, procs, panic>>

(* Wrong: the blocks are not freed. *)
itruncKeeps(i) == bitmap
(* The blocks still in use after itrunc of i. *)
itrunc(i) == bitmap \ {blk[i]}

(* itrunc, type = 0, iupdate: log_write panics unless somebody, not        *)
(* necessarily this process, is in a transaction.                          *)
ifree(p) ==
  LET i == Cur(p).h[1] IN
  /\ Now(p, "free")
  /\ IF trans = None \/ (blk[i] # None /\ blk[i] \notin bitmap) THEN Panics ELSE
     /\ bitmap' = itrunc(i)
     /\ blk' = [blk EXCEPT ![i] = None]
     /\ ents' = [ents EXCEPT ![i] = NoEntries]
     /\ type' = [type EXCEPT ![i] = "FREE"]
     /\ Then(p, <<Do("freed", <<i>>)>>)
     /\ UNCHANGED <<nlink, cache, trans, procs, panic>>

ifreed(p) ==
  LET i == Cur(p).h[1] IN
  /\ Now(p, "freed")
  /\ valid' = [valid EXCEPT ![i] = FALSE]
  /\ busy' = [busy EXCEPT ![i] = None]
  /\ ref' = [ref EXCEPT ![i] = @ - 1]
  /\ Then(p, <<>>)
  /\ UNCHANGED <<disk, trans, procs, panic>>

iunlockput(p) ==
  /\ Now(p, "unlockput")
  /\ busy' = [busy EXCEPT ![Cur(p).h[1]] = None]
  /\ Then(p, <<Put(Cur(p).h[1])>>)
  /\ UNCHANGED <<disk, ref, valid, trans, procs, panic>>

begin_trans(p) ==
  /\ Now(p, "begin") /\ trans = None
  /\ trans' = p
  /\ Then(p, <<>>)
  /\ UNCHANGED <<disk, cache, procs, panic>>

commit_trans(p) ==
  /\ Now(p, "commit")
  /\ trans' = None
  /\ Then(p, <<>>)
  /\ UNCHANGED <<disk, cache, procs, panic>>

-----------------------------------------------------------------------------
Creates == {"create", "mkdir", "mknod"}

(* What a call does with the inode, or the parent, that namex returns; h   *)
(* are the references it already has.                                      *)
Found(c, i, h, path) ==
  CASE c.op = "link"   -> IF h = <<>> THEN <<Begin, Op("link1", <<i>>, c, <<>>)>>
                                      ELSE <<Op("link2", <<i>> \o h, c, path)>>
    [] c.op = "unlink" -> <<Begin, Op("unlink1", <<i>>, c, path)>>
    [] c.op \in Creates -> <<Op("create1", <<i>>, c, path)>>
    [] OTHER           -> <<Op("use", <<i>>, c, <<>>)>>

NotFound(c, h) ==
  CASE c.op = "link" /\ h # <<>> -> <<Op("linkbad", h, c, <<>>), Commit>>
    [] c.op \in Creates -> <<Commit>>
    [] OTHER -> <<>>

WantsParent(c, h) == c.op \in Creates \cup {"unlink"} \/ h # <<>>

(* One turn of namex's loop: lock the directory, look the name up, unlock  *)
(* and put the directory, go on with the entry.                            *)
namex(p) ==
  LET o == Cur(p) i == o.h[1] h == Tail(o.h) par == WantsParent(o.call, h)
      next == dirlookup(i, Head(o.path))
  IN
  /\ Now(p, "walk")
  /\ IF o.path = <<>> THEN
       /\ Then(p, IF par THEN <<Put(i)>> \o NotFound(o.call, h)
                         ELSE Found(o.call, i, h, <<>>))
       /\ UNCHANGED <<cache, panic>>
     ELSE IF CanLock(i) /\ (NoType(i) \/ (/\ type[i] = "DIR" /\ ~(par /\ Len(o.path) = 1)
                                         /\ next # None /\ NoEntry(next)))
     THEN Panics
     ELSE
       /\ LockUnlock(i)
       /\ IF type[i] = "DIR" /\ par /\ Len(o.path) = 1 THEN
            Then(p, Found(o.call, i, h, o.path)) /\ UNCHANGED ref
          ELSE IF type[i] # "DIR" \/ next = None THEN
            Then(p, <<Put(i)>> \o NotFound(o.call, h)) /\ UNCHANGED ref
          ELSE
            /\ iget(next)
            /\ Then(p, <<Put(i), Op("walk", <<next>> \o h, o.call, Tail(o.path))>>)
       /\ UNCHANGED panic
  /\ UNCHANGED <<disk, trans, procs>>

(* namex's first lines: a reference to the root or to the current directory. *)
namex0(p) ==
  LET o == Cur(p) i == IF o.call.abs THEN ROOT ELSE cwd[p] IN
  /\ Now(p, "namex")
  /\ IF NoEntry(i) THEN Panics ELSE
     /\ iget(i)
     /\ Then(p, <<Op("walk", <<i>> \o o.h, o.call, o.path)>>)
     /\ UNCHANGED <<disk, valid, busy, trans, procs, panic>>

Start(p, c) ==
  LET w == Op("namex", <<>>, c, c.path) IN
  /\ Ready(p)
  /\ Enter(p, IF c.op \in Creates THEN <<Begin, w>> ELSE <<w>>)
  /\ UNCHANGED <<disk, cache, trans, procs, panic>>

-----------------------------------------------------------------------------
(* sys_link: the count goes up before the entry is made, and down again if *)
(* it cannot be made.                                                      *)
link1(p) ==
  LET o == Cur(p) i == o.h[1] IN
  /\ Now(p, "link1")
  /\ IF CanLock(i) /\ NoType(i) THEN Panics ELSE
     /\ LockUnlock(i)
     /\ IF type[i] = "DIR"
        THEN Then(p, <<Put(i), Commit>>) /\ UNCHANGED nlink
        ELSE /\ nlink' = [nlink EXCEPT ![i] = @ + 1]
             /\ Then(p, <<Op("namex", o.h, o.call, o.call.new)>>)
     /\ UNCHANGED <<type, ents, blk, bitmap, ref, trans, procs, panic>>

(* dirlink in the parent, h = <<dp, ip>>. *)
link2(p) ==
  LET o == Cur(p) dp == o.h[1] ip == o.h[2] n == Head(o.path) IN
  /\ Now(p, "link2")
  /\ IF CanLock(dp) /\ (NoType(dp) \/ (dirlookup(dp, n) # None /\ NoEntry(dirlookup(dp, n))))
     THEN Panics ELSE
     /\ LockUnlock(dp)
     /\ IF dirlookup(dp, n) # None
        THEN /\ Then(p, <<Put(dp), Op("linkbad", <<ip>>, o.call, <<>>), Commit>>)
             /\ UNCHANGED ents
        ELSE /\ ents' = dirlink(dp, n, ip)
             /\ Then(p, <<Put(dp), Put(ip), Commit>>)
     /\ UNCHANGED <<type, nlink, blk, bitmap, ref, trans, procs, panic>>

linkbad(p) ==
  LET i == Cur(p).h[1] IN
  /\ Now(p, "linkbad") /\ LockUnlock(i)
  /\ nlink' = [nlink EXCEPT ![i] = @ - 1]
  /\ Then(p, <<Put(i)>>)
  /\ UNCHANGED <<type, ents, blk, bitmap, ref, trans, procs, panic>>

isdirempty(i) == \A n \in Names : ents[i][n] = None

(* sys_unlink: the parent is locked, then the inode. *)
unlink1(p) ==
  LET o == Cur(p) dp == o.h[1] n == Head(o.path) ip == dirlookup(dp, n) IN
  /\ Now(p, "unlink1")
  /\ IF CanLock(dp) /\ (NoType(dp) \/ (n \notin Dots /\ ip # None /\ NoEntry(ip))) THEN Panics
     ELSE IF n \in Dots \/ ip = None THEN
       LockUnlock(dp) /\ Then(p, <<Put(dp), Commit>>)
         /\ UNCHANGED <<disk, ref, trans, procs, panic>>
     ELSE
       /\ ilock(p, dp) /\ iget(ip)
       /\ Then(p, <<Op("unlink2", <<dp, ip>>, o.call, o.path)>>)
       /\ UNCHANGED <<disk, trans, procs, panic>>

unlink2(p) ==
  LET o == Cur(p) dp == o.h[1] ip == o.h[2] n == Head(o.path) IN
  /\ Now(p, "unlink2")
  /\ IF CanLock(ip) /\ (NoType(ip) \/ nlink[ip] < 1) THEN Panics
     ELSE IF type[ip] = "DIR" /\ ~isdirempty(ip) THEN
       /\ LockUnlock(ip)
       /\ Then(p, <<Put(ip), Do("unlockput", <<dp>>), Commit>>)
       /\ UNCHANGED <<disk, ref, trans, procs, panic>>
     ELSE
       /\ CanLock(ip) /\ valid' = Validated(ip)
       /\ busy' = [busy EXCEPT ![ip] = p, ![dp] = None]
       /\ ents' = [ents EXCEPT ![dp][n] = None]
       /\ nlink' = IF type[ip] = "DIR" THEN [nlink EXCEPT ![dp] = @ - 1] ELSE nlink
       /\ Then(p, <<Put(dp), Do("unlink3", <<ip>>), Commit>>)
       /\ UNCHANGED <<type, blk, bitmap, ref, trans, procs, panic>>

unlink3(p) ==
  LET ip == Cur(p).h[1] IN
  /\ Now(p, "unlink3")
  /\ nlink' = [nlink EXCEPT ![ip] = @ - 1]
  /\ Then(p, <<Do("unlockput", <<ip>>)>>)
  /\ UNCHANGED <<type, ents, blk, bitmap, cache, trans, procs, panic>>

-----------------------------------------------------------------------------
TypeFor(c) == CASE c.op = "mkdir" -> "DIR" [] c.op = "mknod" -> "DEV" [] OTHER -> "FILE"
FreeInodes == {i \in Inum : type[i] = "FREE"}

(* create: the name exists, or ialloc takes the first inode that is free   *)
(* on the disk, which may still be in the cache.                           *)
create1(p) ==
  LET o == Cur(p) dp == o.h[1] n == Head(o.path) ip == dirlookup(dp, n)
      i == IF ip # None THEN ip ELSE Min(FreeInodes)
  IN
  /\ Now(p, "create1") /\ CanLock(dp)
  /\ IF NoType(dp) \/ (ip = None /\ FreeInodes = {}) \/ NoEntry(i) THEN Panics
     ELSE
       /\ iget(i)
       /\ IF ip # None
          THEN /\ LockUnlock(dp)
               /\ Then(p, <<Put(dp), Op("create2", <<i>>, o.call, <<>>)>>)
               /\ UNCHANGED <<type, nlink>>
          ELSE /\ ilock(p, dp)
               /\ type' = [type EXCEPT ![i] = TypeFor(o.call)]
               /\ nlink' = [nlink EXCEPT ![i] = 0]
               /\ Then(p, <<Op("create3", <<i, dp>>, o.call, o.path)>>)
       /\ UNCHANGED <<ents, blk, bitmap, trans, procs, panic>>

(* The file exists: open keeps it locked, other calls fail. *)
create2(p) ==
  LET o == Cur(p) i == o.h[1] IN
  /\ Now(p, "create2")
  /\ IF CanLock(i) /\ NoType(i) THEN Panics
     ELSE /\ IF o.call.op = "create" /\ type[i] = "FILE"
             THEN ilock(p, i) /\ Then(p, <<Commit, Op("open", <<i>>, o.call, <<>>)>>)
             ELSE LockUnlock(i) /\ Then(p, <<Put(i), Commit>>)
          /\ UNCHANGED <<disk, ref, trans, procs, panic>>

(* The new inode, h = <<ip, dp>>; a directory gets a block and its dots. *)
create3(p) ==
  LET o == Cur(p) ip == o.h[1] dp == o.h[2] dir == o.call.op = "mkdir"
      b == Min(Block \ bitmap)
  IN
  /\ Now(p, "create3")
  /\ IF CanLock(ip) /\ dir /\ Block \subseteq bitmap THEN Panics ELSE
     /\ CanLock(ip) /\ valid' = Validated(ip)
     /\ busy' = [busy EXCEPT ![ip] = p, ![dp] = None]
     /\ nlink' = [nlink EXCEPT ![ip] = 1, ![dp] = IF dir THEN @ + 1 ELSE @]
     /\ ents' = [dirlink(dp, Head(o.path), ip) EXCEPT
                             ![ip] = IF dir THEN [@ EXCEPT !["."] = ip, ![".."] = dp] ELSE @]
     /\ blk' = IF dir THEN [blk EXCEPT ![ip] = b] ELSE blk
     /\ bitmap' = IF dir THEN bitmap \cup {b} ELSE bitmap
     /\ Then(p, <<Put(dp)>> \o (IF o.call.op = "create"
                                THEN <<Commit, Op("open", <<ip>>, o.call, <<>>)>>
                                ELSE <<Do("unlockput", <<ip>>), Commit>>))
     /\ UNCHANGED <<type, ref, trans, procs, panic>>

-----------------------------------------------------------------------------
FreeFiles == {f \in File : file[f].ref = 0}
FreeFds(p) == {fd \in FD : ofile[p][fd] = None}

(* The end of sys_open, the inode locked: a file structure and the lowest  *)
(* free descriptor, or iunlockput, by now outside the transaction.         *)
open(p) ==
  LET i == Cur(p).h[1] f == Min(FreeFiles) IN
  /\ Now(p, "open")
  /\ busy' = [busy EXCEPT ![i] = None]
  /\ IF FreeFiles = {} \/ FreeFds(p) = {}
     THEN Then(p, <<Put(i)>>) /\ UNCHANGED <<file, ofile>>
     ELSE /\ file' = [file EXCEPT ![f] = [ref |-> 1, ip |-> i]]
          /\ ofile' = [ofile EXCEPT ![p][Min(FreeFds(p))] = f]
          /\ Then(p, <<>>)
  /\ UNCHANGED <<disk, ref, valid, trans, alive, cwd, panic>>

(* What sys_open without O_CREATE, sys_chdir and exec do with the inode    *)
(* that namei returned.  A directory can only be opened O_RDONLY.          *)
use(p) ==
  LET o == Cur(p) i == o.h[1] op == o.call.op IN
  /\ Now(p, "use")
  /\ IF CanLock(i) /\ NoType(i) THEN Panics ELSE
     /\ \/ /\ op = "open" /\ ilock(p, i)
           /\ Then(p, <<Op("open", <<i>>, o.call, <<>>)>>)
        \/ /\ op # "open" \/ type[i] = "DIR"
           /\ LockUnlock(i)
           /\ Then(p, IF op = "chdir" /\ type[i] = "DIR"
                      THEN <<Do("putcwd", <<>>), Do("chdir", <<i>>)>> ELSE <<Put(i)>>)
     /\ UNCHANGED <<disk, ref, trans, procs, panic>>

(* iput(proc->cwd), in chdir and in exit.  Nobody reads cwd before it is   *)
(* set again.                                                              *)
putcwd(p) ==
  /\ Now(p, "putcwd")
  /\ cwd' = [cwd EXCEPT ![p] = None]
  /\ Then(p, <<Put(cwd[p])>>)
  /\ UNCHANGED <<disk, cache, trans, alive, ofile, file, panic>>

chdir(p) ==
  /\ Now(p, "chdir")
  /\ cwd' = [cwd EXCEPT ![p] = Cur(p).h[1]]
  /\ Then(p, <<>>)
  /\ UNCHANGED <<disk, cache, trans, alive, ofile, file, panic>>

(* Wrong: every close puts the inode. *)
filecloseAlways(f) == IF file[f].ip # None THEN <<Begin, Put(file[f].ip), Commit>> ELSE <<>>
(* fileclose of f: what the last reference still has to do. *)
fileclose(f) ==
  IF file[f].ref = 1 /\ file[f].ip # None THEN <<Begin, Put(file[f].ip), Commit>> ELSE <<>>
Less(v) == IF v.ref = 1 THEN [ref |-> 0, ip |-> None] ELSE [v EXCEPT !.ref = @ - 1]
Closed(f) == [file EXCEPT ![f] = Less(@)]

close(p, fd) ==
  LET f == ofile[p][fd] IN
  /\ Ready(p) /\ f # None
  /\ ofile' = [ofile EXCEPT ![p][fd] = None]
  /\ file' = Closed(f)
  /\ Enter(p, fileclose(f))
  /\ UNCHANGED <<disk, cache, trans, alive, cwd, panic>>

dup(p, fd) ==
  LET f == ofile[p][fd] IN
  /\ Ready(p) /\ f # None /\ FreeFds(p) # {}
  /\ ofile' = [ofile EXCEPT ![p][Min(FreeFds(p))] = f]
  /\ file' = [file EXCEPT ![f].ref = @ + 1]
  /\ UNCHANGED <<disk, cache, trans, alive, cwd, todo, panic>>

(* sys_pipe: two file structures and two descriptors, or none of either. *)
pipe(p) ==
  /\ Ready(p) /\ Cardinality(FreeFiles) >= 2 /\ Cardinality(FreeFds(p)) >= 2
  /\ LET r == Min(FreeFiles) w == Min(FreeFiles \ {r})
         fd0 == Min(FreeFds(p)) fd1 == Min(FreeFds(p) \ {fd0})
     IN /\ file' = [file EXCEPT ![r] = [ref |-> 1, ip |-> None], ![w] = [ref |-> 1, ip |-> None]]
        /\ ofile' = [ofile EXCEPT ![p] = [@ EXCEPT ![fd0] = r, ![fd1] = w]]
  /\ UNCHANGED <<disk, cache, trans, alive, cwd, todo, panic>>

(* filewrite of a first block, one transaction; a directory is open for    *)
(* reading only.                                                           *)
write(p, fd) ==
  LET f == ofile[p][fd] i == file[f].ip IN
  /\ Ready(p) /\ f # None /\ i # None /\ type[i] # "DIR"
  /\ Enter(p, <<Begin, Op("writei", <<>>, On(i), <<>>), Commit>>)
  /\ UNCHANGED <<disk, cache, trans, procs, panic>>

(* fileread, and filestat, which locks the inode in the same way. *)
read(p, fd) ==
  LET f == ofile[p][fd] i == file[f].ip IN
  /\ Ready(p) /\ f # None /\ i # None
  /\ Enter(p, <<Op("readi", <<>>, On(i), <<>>)>>)
  /\ UNCHANGED <<disk, cache, trans, procs, panic>>

(* ilock, writei or readi, iunlock; writei's bmap allocates the block. *)
writei(p) ==
  LET i == Cur(p).call.ip new == Now(p, "writei") /\ blk[i] = None /\ type[i] = "FILE"
      b == Min(Block \ bitmap)
  IN
  /\ Now(p, "writei") \/ Now(p, "readi")
  /\ IF CanLock(i) /\ new /\ Block \subseteq bitmap THEN Panics ELSE
     /\ LockUnlock(i)
     /\ blk' = IF new THEN [blk EXCEPT ![i] = b] ELSE blk
     /\ bitmap' = IF new THEN bitmap \cup {b} ELSE bitmap
     /\ Then(p, <<>>)
     /\ UNCHANGED <<type, nlink, ents, ref, trans, procs, panic>>

(* fork: the child shares the open files and the current directory. *)
fork(p) ==
  /\ Ready(p)
  /\ \E c \in Proc :
       /\ ~alive[c] /\ \A q \in 1 .. c - 1 : alive[q]
       /\ alive' = [alive EXCEPT ![c] = TRUE]
       /\ ofile' = [ofile EXCEPT ![c] = ofile[p]]
       /\ cwd' = [cwd EXCEPT ![c] = cwd[p]]
  /\ file' = [f \in File |-> [file[f] EXCEPT !.ref =
                @ + Cardinality({fd \in FD : ofile[p][fd] = f})]]
  /\ idup(cwd[p])
  /\ UNCHANGED <<disk, valid, busy, trans, todo, panic>>

(* exit closes the descriptors in turn, then puts the current directory. *)
exit(p) ==
  LET open_ == FD \ FreeFds(p) fd == Min(open_) f == ofile[p][fd] IN
  /\ (Ready(p) /\ p # 1) \/ Now(p, "exit")
  /\ IF open_ # {}
     THEN /\ ofile' = [ofile EXCEPT ![p][fd] = None]
          /\ file' = Closed(f)
          /\ todo' = [todo EXCEPT ![p] = fileclose(f) \o <<Do("exit", <<>>)>>]
     ELSE /\ todo' = [todo EXCEPT ![p] = <<Do("putcwd", <<>>), Do("dead", <<>>)>>]
          /\ UNCHANGED <<ofile, file>>
  /\ UNCHANGED <<disk, cache, trans, alive, cwd, panic>>

dead(p) ==
  /\ Now(p, "dead")
  /\ alive' = [alive EXCEPT ![p] = FALSE]
  /\ Then(p, <<>>)
  /\ UNCHANGED <<disk, cache, trans, cwd, ofile, file, panic>>

-----------------------------------------------------------------------------
Step(p) ==
  \/ iput(p) \/ ifree(p) \/ ifreed(p) \/ iunlockput(p) \/ begin_trans(p) \/ commit_trans(p)
  \/ namex0(p) \/ namex(p) \/ link1(p) \/ link2(p) \/ linkbad(p)
  \/ unlink1(p) \/ unlink2(p) \/ unlink3(p) \/ create1(p) \/ create2(p) \/ create3(p)
  \/ open(p) \/ use(p) \/ putcwd(p) \/ chdir(p) \/ writei(p) \/ exit(p) \/ dead(p)

Call(p) ==
  \/ \E c \in Calls : Start(p, c)
  \/ \E fd \in FD : close(p, fd) \/ dup(p, fd) \/ write(p, fd) \/ read(p, fd)
  \/ pipe(p) \/ fork(p)

(* After a panic, or when the bound on calls is used up. *)
Halted == (panic \/ \A p \in Proc : todo[p] = <<>>) /\ UNCHANGED vars

Next ==
  \/ \E p \in Proc :
       \/ UNCHANGED ncalls /\ Step(p)
       \/ ncalls < MaxCalls /\ ncalls' = ncalls + 1 /\ Call(p)
  \/ Halted

Spec == Init /\ [][Next]_vars

-----------------------------------------------------------------------------
(* The pointers to inode i: current directories, open files, and the places *)
(* <<k, l>> in operations under way, the l-th reference of the k-th one.    *)
CwdRefs(i) == {p \in Proc : cwd[p] = i}
FileRefs(i) == {f \in File : file[f].ref > 0 /\ file[f].ip = i}
Held(s, i) == {x \in (1 .. Len(s)) \X {1, 2} :
                 x[2] \in DOMAIN s[x[1]].h /\ s[x[1]].h[x[2]] = i}
CallRefs(i) == UNION {{p} \X Held(todo[p], i) : p \in Proc}
Descriptors(f) == {t \in Proc \X FD : ofile[t[1]][t[2]] = f}

(* The reference counts are exact.  ip->ref counts the pointers to the     *)
(* inode: the current directories, the open files, and what the system     *)
(* calls under way, in whatever order they interleave and fail, still      *)
(* hold.  f->ref of a file structure counts the descriptors that name it,  *)
(* over dup, fork, pipe, close and exit.                                   *)
RefsCounted ==
  /\ \A i \in Inum :
       ref[i] = Cardinality(CwdRefs(i)) + Cardinality(FileRefs(i)) + Cardinality(CallRefs(i))
  /\ \A f \in File : file[f].ref = Cardinality(Descriptors(f))

EntriesFor(i) == {e \in Inum \X Names : ents[e[1]][e[2]] = i}

(* No name outlives its inode: an entry names an allocated inode, whose    *)
(* link count, between transactions, is at least the number of its names.  *)
NamesHold ==
  \A i \in Inum : EntriesFor(i) # {} =>
    /\ type[i] # "FREE"
    /\ trans = None => nlink[i] >= Cardinality(EntriesFor(i))

(* A block in use belongs to exactly one inode, an inode's block is in use,*)
(* and a free inode has none: nothing is shared or lost by itrunc, balloc  *)
(* and ialloc, whoever frees while others create.                          *)
BlocksOwned ==
  /\ \A i, j \in Inum : (i # j /\ blk[i] # None) => blk[i] # blk[j]
  /\ bitmap = {blk[i] : i \in Inum} \ {None}
  /\ \A i \in Inum : type[i] = "FREE" => blk[i] = None

(* No unlinked inode is left behind: when the last reference to an inode   *)
(* is gone and nothing links to it, iput has freed it, whether the last    *)
(* reference was an open file, a current directory or a call that raced    *)
(* with the unlink.                                                        *)
NothingLeft ==
  \A i \in Inum : (type[i] # "FREE" /\ ref[i] = 0) => nlink[i] > 0

-----------------------------------------------------------------------------
(* The inductive invariant behind RefsCounted: how many references each     *)
(* operation owns, and which ones end a call.                               *)
NoRef  == {"begin", "commit", "putcwd", "exit", "dead", "writei", "readi"}
OneRef == {"put", "free", "freed", "unlockput", "link1", "linkbad", "unlink1", "unlink3",
           "create1", "create2", "open", "use", "chdir"}
TwoRef == {"link2", "unlink2", "create3"}
Ends   == {"namex", "walk", "link1", "link2", "unlink1", "unlink2", "create1", "create2",
           "create3", "open", "use", "chdir", "dead", "exit"}
Ops == [do : NoRef \cup OneRef \cup TwoRef \cup {"namex", "walk"}, h : Seq(Inum),
        call : Calls \cup {On(i) : i \in Inum \cup {None}}, path : Seq(Names \cup Dots)]

RefTypeOK ==
  /\ ents \in [Inum -> [Names \cup Dots -> Inum \cup {None}]]
  /\ ref \in [Inum -> Int]
  /\ alive \in [Proc -> BOOLEAN]
  /\ cwd \in [Proc -> Inum \cup {None}]
  /\ ofile \in [Proc -> [FD -> File \cup {None}]]
  /\ file \in [File -> [ref : Int, ip : Inum \cup {None}]]
  /\ todo \in [Proc -> Seq(Ops)]

(* Only sys_link looks up a second path, with a reference in hand. *)
OpOK(o) ==
  /\ o.do \in NoRef => o.h = <<>>
  /\ o.do \in OneRef => Len(o.h) = 1
  /\ o.do \in TwoRef => Len(o.h) = 2
  /\ o.do = "namex" => o.h = <<>> \/ (Len(o.h) = 1 /\ o.call.op = "link")
  /\ o.do = "walk" => Len(o.h) = 1 \/ (Len(o.h) = 2 /\ o.call.op = "link")
  /\ o.do \in {"namex", "walk", "link1"} => o.call \in Calls
  /\ o.do = "link1" => o.call.op = "link"
  /\ o.do \in {"link2", "unlink1", "unlink2", "create1", "create3"} => o.path # <<>>

(* The operations s of a process with descriptors fds: the last one may     *)
(* start more; who has exited, or is about to, has closed its files.        *)
TodoOK(s, live, fds) ==
  /\ Len(s) <= 4
  /\ \A k \in 1 .. Len(s) :
       /\ OpOK(s[k])
       /\ s[k].do \in Ends => k = Len(s)
       /\ s[k].do = "putcwd" => k = 1 /\ Len(s) = 2 /\ s[2].do \in {"chdir", "dead"}
       /\ s[k].do = "dead" => \A fd \in FD : fds[fd] = None
  /\ ~live => s = <<>> /\ \A fd \in FD : fds[fd] = None
TodoInv == \A p \in Proc : TodoOK(todo[p], alive[p], ofile[p])

(* Between iput(proc->cwd) and the assignment that follows, and when it has *)
(* exited, a process has no current directory.                              *)
NoCwd(s, live) ==
  live => s # <<>> /\ s[1].do # "putcwd" /\ s[Len(s)].do \in {"chdir", "dead"}
CwdInv == \A p \in Proc : cwd[p] = None <=> NoCwd(todo[p], alive[p])

RefInv == RefTypeOK /\ TodoInv /\ CwdInv /\ RefsCounted

(* No pointer dangles.  A descriptor names a file structure in use, so      *)
(* filedup and fileclose do not reach their panics; what a process works    *)
(* in, an open file or a call under way points to keeps its cache entry,    *)
(* which iget gives to another inode only when ref is 0.                    *)
PointersHold ==
  /\ \A p \in Proc, fd \in FD : ofile[p][fd] # None => file[ofile[p][fd]].ref > 0
  /\ \A i \in Inum :
       \/ \E p \in Proc : cwd[p] = i \/ Held(todo[p], i) # {}
       \/ \E f \in File : file[f].ref > 0 /\ file[f].ip = i
       => ref[i] > 0
=============================================================================
