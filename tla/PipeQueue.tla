----------------------------- MODULE PipeQueue -----------------------------
(* What a pipe promises: while somebody has it open it is a bounded queue   *)
(* of bytes, written at one end and read at the other; what is still in it  *)
(* when the last user goes is gone.                                         *)
EXTENDS Integers, Sequences

CONSTANT Cap   \* bytes the queue holds

VARIABLES
  q,     \* the bytes written and not yet read, oldest first
  live   \* somebody has the pipe open

qvars == <<q, live>>

\* Some bytes are appended and the older ones stay where they are.
Append_ == /\ live /\ live'
           /\ Len(q') \in Len(q) .. Cap
           /\ SubSeq(q', 1, Len(q)) = q

\* Some of the oldest bytes are taken.
Take == /\ live /\ live'
        /\ \E n \in 1 .. Len(q) : q' = SubSeq(q, n + 1, Len(q))

Appear == ~live /\ live' /\ q' = <<>>
Vanish == live /\ ~live' /\ q' = <<>>

QInit == q = <<>> /\ ~live
QNext == Append_ \/ Take \/ Appear \/ Vanish
QSpec == QInit /\ [][QNext]_qvars
=============================================================================
