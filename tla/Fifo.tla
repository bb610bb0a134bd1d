-------------------------------- MODULE Fifo --------------------------------
(***************************************************************************)
(* What a pipe promises: a bounded first-in first-out queue of bytes whose *)
(* write end and read end are closed once, in either order.                *)
(***************************************************************************)
EXTENDS Naturals, Sequences

CONSTANTS Byte, Size

VARIABLES q, wopen, ropen

FInit == q = <<>> /\ wopen = TRUE /\ ropen = TRUE

Put(b) ==
  /\ wopen /\ Len(q) < Size
  /\ q' = Append(q, b)
  /\ UNCHANGED <<wopen, ropen>>

Get ==
  /\ ropen /\ q # <<>>
  /\ q' = Tail(q)
  /\ UNCHANGED <<wopen, ropen>>

CloseW == wopen /\ wopen' = FALSE /\ UNCHANGED <<q, ropen>>

CloseR == ropen /\ ropen' = FALSE /\ UNCHANGED <<q, wopen>>

FNext == (\E b \in Byte : Put(b)) \/ Get \/ CloseW \/ CloseR

FSpec == FInit /\ [][FNext]_<<q, wopen, ropen>>
=============================================================================
