----------------------------- MODULE AtomicDisk -----------------------------
(***************************************************************************)
(* What kernel/log.c promises the file system: one system call at a time   *)
(* is in a transaction, its block writes become durable all together at    *)
(* one commit, and a crash puts every block back to its last committed     *)
(* content.                                                                *)
(***************************************************************************)
CONSTANTS Proc,      \* processes that use the file system
          NoProc,    \* "nobody"
          Sector,    \* home sectors of the file system
          Val        \* contents of a block

VARIABLES durable,   \* content of every sector that survives a crash
          view,      \* content of every sector as bread() returns it
          active     \* the process whose transaction is open

avars == <<durable, view, active>>

AInit == /\ durable \in [Sector -> Val]
         /\ view = durable
         /\ active = NoProc

Begin(p) == /\ active = NoProc
            /\ active' = p
            /\ UNCHANGED <<durable, view>>

Write(p, s, v) == /\ active = p
                  /\ view' = [view EXCEPT ![s] = v]
                  /\ UNCHANGED <<durable, active>>

Commit(p) == /\ active = p
             /\ durable' = view
             /\ UNCHANGED <<view, active>>

(* A transaction closes only when everything it wrote is durable. *)
End(p) == /\ active = p
          /\ view = durable
          /\ active' = NoProc
          /\ UNCHANGED <<durable, view>>

Crash == /\ view' = durable
         /\ active' = NoProc
         /\ UNCHANGED durable

ANext == \/ \E p \in Proc : \/ Begin(p)
                            \/ \E s \in Sector, v \in Val : Write(p, s, v)
                            \/ Commit(p)
                            \/ End(p)
         \/ Crash

ASpec == AInit /\ [][ANext]_avars
=============================================================================
