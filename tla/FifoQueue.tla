----------------------------- MODULE FifoQueue ------------------------------
(***************************************************************************)
(* What a task queue promises to the threads that share it: tasks come out *)
(* in the order in which they went in, and there is always room.           *)
(***************************************************************************)
EXTENDS Sequences

CONSTANT Task

VARIABLE q

Init == q = <<>>

Put(x) == q' = Append(q, x)

Get == q # <<>> /\ q' = Tail(q)

Next == (\E x \in Task : Put(x)) \/ Get

Spec == Init /\ [][Next]_q
=============================================================================
