------------------------------ MODULE FifoQueue ------------------------------
(***************************************************************************)
(* What a LockfreeQueue promises to the threads that share it: a value     *)
(* that is pushed is delivered once, to one thread, in the order of the    *)
(* pushes.                                                                 *)
(***************************************************************************)
EXTENDS Sequences, Functions

CONSTANTS Thread, Value, NoValue

VARIABLES
  queue,      \* the values pushed and not yet popped, oldest first
  delivered   \* what the last pop of each thread that has just popped returned

vars == <<queue, delivered>>

Init ==
  /\ queue = <<>>
  /\ delivered = [t \in Thread |-> NoValue]

Push(v) ==
  /\ v \notin Range(queue)
  /\ queue' = Append(queue, v)
  /\ UNCHANGED delivered

Pop(t) ==
  /\ queue # <<>>
  /\ delivered[t] = NoValue
  /\ delivered' = [delivered EXCEPT ![t] = Head(queue)]
  /\ queue' = Tail(queue)

\* The thread makes use of what it popped.
Use(t) ==
  /\ delivered[t] # NoValue
  /\ delivered' = [delivered EXCEPT ![t] = NoValue]
  /\ UNCHANGED queue

Next ==
  \/ \E v \in Value : Push(v)
  \/ \E t \in Thread : Pop(t) \/ Use(t)

Spec == Init /\ [][Next]_vars
=============================================================================
