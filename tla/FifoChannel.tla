---------------------------- MODULE FifoChannel ----------------------------
(***************************************************************************)
(* What the single-producer single-consumer ring promises its two users: a *)
(* bounded FIFO channel.  A value handed to `push` is appended once, in    *)
(* order; `pop` returns the values in that order, each once.  The only way *)
(* to lose a value is a producer that dies before its push took effect.    *)
(***************************************************************************)
EXTENDS Integers, Sequences

CONSTANTS T,         \* the values that travel through the channel
          None,      \* no value
          Capacity   \* how many values the channel holds

VARIABLES inp,   \* the value whose push is in progress, or None
          q,     \* the values pushed and not yet popped
          out    \* the value the last pop returned

vars == <<inp, q, out>>

Init == inp = None /\ q = <<>> /\ out = None

\* The producer calls push.
Call(v) == inp = None /\ inp' = v /\ UNCHANGED <<q, out>>

\* The push takes effect; a full channel makes the producer wait.
Send ==
  /\ inp # None
  /\ Len(q) < Capacity
  /\ q' = Append(q, inp)
  /\ inp' = None
  /\ UNCHANGED out

\* The producer dies before its push took effect.
Abandon == inp # None /\ inp' = None /\ UNCHANGED <<q, out>>

\* A pop returns the oldest value.
Recv ==
  /\ q # <<>>
  /\ out' = Head(q)
  /\ q' = Tail(q)
  /\ UNCHANGED inp

Next == (\E v \in T : Call(v)) \/ Send \/ Abandon \/ Recv

Spec == Init /\ [][Next]_vars
=============================================================================
