----------------------------- MODULE BlockStore -----------------------------
(***************************************************************************)
(* What bread, bwrite and brelse promise: every sector has one content,    *)
(* and one process at a time may hold the sector and change it.            *)
(***************************************************************************)
CONSTANTS Proc, NoProc, Sector, Val

VARIABLES content, holder

BInit ==
  /\ content \in [Sector -> Val]
  /\ holder = [s \in Sector |-> NoProc]

Take(p, s) ==
  /\ holder[s] = NoProc
  /\ holder' = [holder EXCEPT ![s] = p]
  /\ UNCHANGED content

Change(s, v) ==
  /\ holder[s] # NoProc
  /\ content' = [content EXCEPT ![s] = v]
  /\ UNCHANGED holder

Release(s) ==
  /\ holder[s] # NoProc
  /\ holder' = [holder EXCEPT ![s] = NoProc]
  /\ UNCHANGED content

BNext ==
  \E s \in Sector : \/ \E p \in Proc : Take(p, s)
                    \/ \E v \in Val : Change(s, v)
                    \/ Release(s)

BSpec == BInit /\ [][BNext]_<<content, holder>>
=============================================================================
