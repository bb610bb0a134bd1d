----------------------------- MODULE LogOutside -----------------------------
(***************************************************************************)
(* The log as exit() uses it: iput(proc->cwd), when it drops the last      *)
(* reference to an unlinked directory, frees the blocks of the directory   *)
(* with log_write() although exit() has not called begin_trans().          *)
(***************************************************************************)
EXTENDS Log

CONSTANT Exiting       \* processes that exit

(* exit: iput(cwd) -> itrunc -> bfree: bread, modify, log_write. *)
ExitIput(p) ==
  /\ ~booting
  /\ \E s \in Sector, v \in Val : Modify(p, "idle", s, v)

OutsideNext ==
  \/ \E p \in Proc \ Exiting : Step(p)
  \/ \E p \in Exiting : ~panicked /\ (ExitIput(p) \/ Continue(p))
  \/ Crash

OutsideSpec == Init /\ [][OutsideNext]_vars
=============================================================================
