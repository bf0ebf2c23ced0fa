------------------------------ MODULE TaskQueue ------------------------------
(***************************************************************************)
(* What an EventLoop promises to the threads that hand it work: tasks are  *)
(* run one at a time, in the order in which they were handed over, each of *)
(* them at most once, and none after the loop has ended.  A task handed    *)
(* over by the loop's own thread (from inside a callback) does not queue:  *)
(* it is run on the spot.                                                  *)
(***************************************************************************)
EXTENDS Sequences, Functions

CONSTANT Task

VARIABLES
  queue,    \* tasks handed over and not yet run, oldest first
  done,     \* tasks run so far, in the order in which they were started
  stopped   \* the loop has returned

vars == <<queue, done, stopped>>

Known == Range(queue) \cup Range(done)

Init ==
  /\ queue = <<>>
  /\ done = <<>>
  /\ stopped = FALSE

\* Another thread hands over one or two tasks, in that order.
Submit(s) ==
  /\ Range(s) \cap Known = {}
  /\ queue' = queue \o s
  /\ UNCHANGED <<done, stopped>>

\* The oldest task runs; it may hand over one more, which runs on the spot.
RunOldest ==
  /\ ~stopped
  /\ queue # <<>>
  /\ queue' = Tail(queue)
  /\ \/ done' = Append(done, Head(queue))
     \/ \E t \in Task \ Known : done' = done \o <<Head(queue), t>>
  /\ UNCHANGED stopped

\* Another callback of the loop hands over a task, which runs on the spot.
RunInline(t) ==
  /\ ~stopped
  /\ t \notin Known
  /\ done' = Append(done, t)
  /\ UNCHANGED <<queue, stopped>>

Stop ==
  /\ ~stopped
  /\ stopped' = TRUE
  /\ UNCHANGED <<queue, done>>

Next ==
  \/ \E t \in Task : Submit(<<t>>)
  \/ \E t, u \in Task : t # u /\ Submit(<<t, u>>)
  \/ RunOldest
  \/ \E t \in Task : RunInline(t)
  \/ Stop

Spec == Init /\ [][Next]_vars
=============================================================================
