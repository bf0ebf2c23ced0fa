------------------------------ MODULE EventLoop ------------------------------
(***************************************************************************)
(* tcpserver/eventloop.cc: one thread that waits in poll() and runs, in    *)
(* each pass, the handlers of the ready descriptors, the tasks that other  *)
(* threads queued, and the timers that came due.  Other threads call       *)
(* AddTask, AddTasks, AddTimer and Quit at any moment, also in the window  *)
(* between EventLoopThread::StartLoop, which publishes the loop, and       *)
(* EventLoop::Run, which makes its wakeup pipe and sets running_.          *)
(*                                                                         *)
(* The step of a thread is what it does between two accesses that another  *)
(* thread can observe.  The loop's bool running_ is not atomic in the      *)
(* source; its accesses are taken in program order.  Wall-clock time is    *)
(* abstracted: a timer that has been armed comes due at some moment, and   *)
(* a poll() with a finite timeout may return at any moment.  The wheel     *)
(* that keeps the timers is not part of this module.                       *)
(***************************************************************************)
EXTENDS Naturals, Sequences, Functions

CONSTANTS
  Caller,       \* the threads, other than the loop's, that call into the loop
  NoCaller,     \* nobody holds mutex_
  Task,         \* the functors handed to AddTask and AddTasks, each once
  Timer,        \* the timers, each armed at most once
  RemoteTimer,  \* the timers armed by callers; callbacks arm the others
  PipeCap       \* bytes the wakeup pipe holds before write() blocks

ASSUME PipeCapAssumption == PipeCap \in Nat \ {0}
ASSUME NoCallerAssumption == NoCaller \notin Caller
ASSUME RemoteTimerAssumption == RemoteTimer \subseteq Timer

VARIABLES
  running,    \* running_
  tasks,      \* tasks_, guarded by mutex_
  mutex,      \* who holds mutex_ (the loop only holds it within one step)
  pipe,       \* bytes in the wakeup pipe
  timers,     \* state of each timer
  ioReady,    \* a descriptor other than the wakeup pipe is ready
  loopAt,     \* where the loop thread is
  timed,      \* the poll() of this pass has a finite timeout
  active,     \* active_events_ not yet handled in this pass
  batch,      \* the tasks swapped out by handleTasks and not yet run
  callerAt,   \* where each caller is
  executed,   \* history: the tasks run, in order
  announced   \* history: the tasks that were queued when a byte was written

loopVars   == <<loopAt, timed, active, batch>>
callerVars == <<callerAt, mutex>>
vars == <<running, tasks, mutex, pipe, timers, ioReady, loopAt, timed, active,
          batch, callerAt, executed, announced>>

EventName   == {"wakeup", "io"}
LoopPlace   == {"new", "created", "check", "poll", "events", "runTasks",
                "runTimers", "stopped"}
CallerPlace == {"idle", "notify", "quitNotify"}
TimerState  == {"idle", "armed", "due", "popped", "fired", "removed"}

TypeOK ==
  /\ running \in BOOLEAN
  /\ tasks \in Seq(Task)
  /\ mutex \in Caller \cup {NoCaller}
  /\ pipe \in 0..PipeCap
  /\ timers \in [Timer -> TimerState]
  /\ ioReady \in BOOLEAN
  /\ loopAt \in LoopPlace
  /\ timed \in BOOLEAN
  /\ active \subseteq EventName
  /\ batch \in Seq(Task)
  /\ callerAt \in [Caller -> CallerPlace]
  /\ executed \in Seq(Task)
  /\ announced \subseteq Task

Init ==
  /\ running = FALSE
  /\ tasks = <<>>
  /\ mutex = NoCaller
  /\ pipe = 0
  /\ timers = [tm \in Timer |-> "idle"]
  /\ ioReady = FALSE
  /\ loopAt = "new"
  /\ timed = FALSE
  /\ active = {}
  /\ batch = <<>>
  /\ callerAt = [c \in Caller |-> "idle"]
  /\ executed = <<>>
  /\ announced = {}

-----------------------------------------------------------------------------
(* The callers.                                                            *)

\* Tasks nobody has handed over yet, given the tasks run so far.
Fresh(done) == Task \ (Range(tasks) \cup Range(batch) \cup Range(done))

\* wakeup(): one byte into the pipe, which blocks while the pipe is full.
\* Before createWakeupfd the descriptor is not initialised: the byte reaches
\* no pipe of this loop.
WriteByte ==
  IF loopAt = "new"
    THEN UNCHANGED <<pipe, announced>>
    ELSE /\ pipe < PipeCap
         /\ pipe' = pipe + 1
         /\ announced' = announced \cup Range(tasks)

\* AddTask from another thread, up to the push under mutex_ ...
AddTask(c, t) ==
  /\ callerAt[c] = "idle"
  /\ mutex = NoCaller
  /\ t \in Fresh(executed)
  /\ mutex' = c
  /\ tasks' = Append(tasks, t)
  /\ callerAt' = [callerAt EXCEPT ![c] = "notify"]
  /\ UNCHANGED <<running, pipe, timers, ioReady, executed, announced>>
  /\ UNCHANGED loopVars

\* ... and from the write of the wakeup byte, made while holding mutex_, on.
Notify(c) ==
  /\ callerAt[c] = "notify"
  /\ WriteByte
  /\ mutex' = NoCaller
  /\ callerAt' = [callerAt EXCEPT ![c] = "idle"]
  /\ UNCHANGED <<running, tasks, timers, ioReady, executed>>
  /\ UNCHANGED loopVars

\* AddTasks queues all of its tasks at once and wakes nobody up.
AddTasks(c, t, u) ==
  /\ callerAt[c] = "idle"
  /\ mutex = NoCaller
  /\ t # u
  /\ {t, u} \subseteq Fresh(executed)
  /\ tasks' = tasks \o <<t, u>>
  /\ UNCHANGED <<running, pipe, timers, ioReady, executed, announced>>
  /\ UNCHANGED <<loopVars, callerVars>>

\* AddTimer from another thread: the wheel is locked, nobody is woken up.
AddTimer(c, tm) ==
  /\ callerAt[c] = "idle"
  /\ tm \in RemoteTimer
  /\ timers[tm] = "idle"
  /\ timers' = [timers EXCEPT ![tm] = "armed"]
  /\ UNCHANGED <<running, tasks, pipe, ioReady, executed, announced>>
  /\ UNCHANGED <<loopVars, callerVars>>

\* Quit from another thread: running_ first, then the wakeup byte.
Quit(c) ==
  /\ callerAt[c] = "idle"
  /\ running' = FALSE
  /\ callerAt' = [callerAt EXCEPT ![c] = "quitNotify"]
  /\ UNCHANGED <<tasks, mutex, pipe, timers, ioReady, executed, announced>>
  /\ UNCHANGED loopVars

QuitNotify(c) ==
  /\ callerAt[c] = "quitNotify"
  /\ WriteByte
  /\ callerAt' = [callerAt EXCEPT ![c] = "idle"]
  /\ UNCHANGED <<running, tasks, mutex, timers, ioReady, executed>>
  /\ UNCHANGED loopVars

-----------------------------------------------------------------------------
(* The loop thread.                                                        *)

CreateWakeupfd ==
  /\ loopAt = "new"
  /\ loopAt' = "created"
  /\ UNCHANGED <<running, tasks, pipe, timers, ioReady, timed, active, batch,
                 executed, announced>>
  /\ UNCHANGED callerVars

SetRunning ==
  /\ loopAt = "created"
  /\ running' = TRUE
  /\ loopAt' = "check"
  /\ UNCHANGED <<tasks, pipe, timers, ioReady, timed, active, batch, executed,
                 announced>>
  /\ UNCHANGED callerVars

Pending(tm) == timers[tm] \in {"armed", "due"}

\* The head of the while loop: leave, or compute the timeout and poll.
BeginPass ==
  /\ loopAt = "check"
  /\ loopAt' = IF running THEN "poll" ELSE "stopped"
  /\ timed' = (running /\ \E tm \in Timer : Pending(tm))
  /\ UNCHANGED <<running, tasks, pipe, timers, ioReady, active, batch,
                 executed, announced>>
  /\ UNCHANGED callerVars

PollReturns ==
  /\ loopAt = "poll"
  /\ pipe > 0 \/ ioReady \/ timed
  /\ active' = {e \in EventName : \/ e = "wakeup" /\ pipe > 0
                                  \/ e = "io" /\ ioReady}
  /\ loopAt' = "events"
  /\ UNCHANGED <<running, tasks, pipe, timers, ioReady, timed, batch, executed,
                 announced>>
  /\ UNCHANGED callerVars

\* What a callback that runs on the loop thread may do to the loop, when done
\* is the sequence of the tasks and tms the state of the timers up to it:
\* nothing, hand over a task (which isInLoopThread makes run on the spot),
\* quit, arm a timer, or remove one that has not been popped.
CallbackEffect(done, tms) ==
  \/ executed' = done /\ timers' = tms /\ UNCHANGED running
  \/ /\ \E t \in Fresh(done) : executed' = Append(done, t)
     /\ timers' = tms
     /\ UNCHANGED running
  \/ executed' = done /\ timers' = tms /\ running' = FALSE
  \/ /\ \E tm \in Timer \ RemoteTimer :
          tms[tm] = "idle" /\ timers' = [tms EXCEPT ![tm] = "armed"]
     /\ executed' = done
     /\ UNCHANGED running
  \/ /\ \E tm \in Timer :
          tms[tm] \in {"armed", "due"} /\ timers' = [tms EXCEPT ![tm] = "removed"]
     /\ executed' = done
     /\ UNCHANGED running

HandleWakeup ==
  /\ loopAt = "events"
  /\ "wakeup" \in active
  /\ active' = active \ {"wakeup"}
  /\ pipe' = pipe - 1
  /\ UNCHANGED <<running, tasks, timers, ioReady, loopAt, timed, batch,
                 executed, announced>>
  /\ UNCHANGED callerVars

HandleIO ==
  /\ loopAt = "events"
  /\ "io" \in active
  /\ active' = active \ {"io"}
  /\ ioReady' = FALSE
  /\ CallbackEffect(executed, timers)
  /\ UNCHANGED <<tasks, pipe, loopAt, timed, batch, announced>>
  /\ UNCHANGED callerVars

\* Fault: one task is taken per pass, as one byte is.
SwapOneTask ==
  /\ loopAt = "events"
  /\ active = {}
  /\ mutex = NoCaller
  /\ batch' = IF tasks = <<>> THEN <<>> ELSE <<Head(tasks)>>
  /\ tasks' = IF tasks = <<>> THEN <<>> ELSE Tail(tasks)
  /\ loopAt' = "runTasks"
  /\ UNCHANGED <<running, pipe, timers, ioReady, timed, active, executed,
                 announced>>
  /\ UNCHANGED callerVars

\* Fault: the queue is copied, not swapped.
CopyTasks ==
  /\ loopAt = "events"
  /\ active = {}
  /\ mutex = NoCaller
  /\ batch' = tasks
  /\ loopAt' = "runTasks"
  /\ UNCHANGED <<running, tasks, pipe, timers, ioReady, timed, active, executed,
                 announced>>
  /\ UNCHANGED callerVars

\* handleTasks: the queue is swapped out under mutex_ ...
SwapTasks ==
  /\ loopAt = "events"
  /\ active = {}
  /\ mutex = NoCaller
  /\ batch' = tasks
  /\ tasks' = <<>>
  /\ loopAt' = "runTasks"
  /\ UNCHANGED <<running, pipe, timers, ioReady, timed, active, executed,
                 announced>>
  /\ UNCHANGED callerVars

\* ... and run without it.
RunTask ==
  /\ loopAt = "runTasks"
  /\ batch # <<>>
  /\ batch' = Tail(batch)
  /\ CallbackEffect(Append(executed, Head(batch)), timers)
  /\ UNCHANGED <<tasks, pipe, ioReady, loopAt, timed, active, announced>>
  /\ UNCHANGED callerVars

PopTimers ==
  /\ loopAt = "runTasks"
  /\ batch = <<>>
  /\ timers' = [tm \in Timer |-> IF timers[tm] = "due" THEN "popped"
                                                       ELSE timers[tm]]
  /\ loopAt' = "runTimers"
  /\ UNCHANGED <<running, tasks, pipe, ioReady, timed, active, batch, executed,
                 announced>>
  /\ UNCHANGED callerVars

\* A popped timer runs, once.
RunTimer(tm) ==
  /\ loopAt = "runTimers"
  /\ timers[tm] = "popped"
  /\ CallbackEffect(executed, [timers EXCEPT ![tm] = "fired"])
  /\ UNCHANGED <<tasks, pipe, ioReady, loopAt, timed, active, batch, announced>>
  /\ UNCHANGED callerVars

EndPass ==
  /\ loopAt = "runTimers"
  /\ \A tm \in Timer : timers[tm] # "popped"
  /\ loopAt' = "check"
  /\ UNCHANGED <<running, tasks, pipe, timers, ioReady, timed, active, batch,
                 executed, announced>>
  /\ UNCHANGED callerVars

-----------------------------------------------------------------------------
(* The environment.                                                        *)

IoArrives ==
  /\ ~ioReady
  /\ loopAt \notin {"new", "stopped"}
  /\ ioReady' = TRUE
  /\ UNCHANGED <<running, tasks, pipe, timers, executed, announced>>
  /\ UNCHANGED <<loopVars, callerVars>>

ComesDue(tm) ==
  /\ timers[tm] = "armed"
  /\ timers' = [timers EXCEPT ![tm] = "due"]
  /\ UNCHANGED <<running, tasks, pipe, ioReady, executed, announced>>
  /\ UNCHANGED <<loopVars, callerVars>>

-----------------------------------------------------------------------------
CallerStep(c) ==
  \/ \E t \in Task : AddTask(c, t)
  \/ Notify(c)
  \/ \E t, u \in Task : AddTasks(c, t, u)
  \/ \E tm \in Timer : AddTimer(c, tm)
  \/ Quit(c)
  \/ QuitNotify(c)

LoopStep ==
  \/ CreateWakeupfd
  \/ SetRunning
  \/ BeginPass
  \/ PollReturns
  \/ HandleWakeup
  \/ HandleIO
  \/ SwapTasks
  \/ RunTask
  \/ PopTimers
  \/ \E tm \in Timer : RunTimer(tm)
  \/ EndPass

Next ==
  \/ \E c \in Caller : CallerStep(c)
  \/ LoopStep
  \/ IoArrives
  \/ \E tm \in Timer : ComesDue(tm)

\* Every thread is scheduled.  A caller that is inside a call goes on with it;
\* nothing makes a caller start one, input arrive, or a timer come due.
Fairness ==
  /\ WF_vars(LoopStep)
  /\ \A c \in Caller : WF_vars(Notify(c)) /\ WF_vars(QuitNotify(c))

Spec     == Init /\ [][Next]_vars
FairSpec == Spec /\ Fairness

-----------------------------------------------------------------------------
(* Properties.                                                             *)

\* A task whose AddTask wrote its wakeup byte is never left behind by a loop
\* that sleeps: while it is queued there is a byte in the pipe, or the loop is
\* on its way from poll() to the swap that takes it (handleWakeup reads one
\* byte per pass, whatever the number of tasks).
NoLostWakeup ==
  announced \cap Range(tasks) # {} => pipe > 0 \/ loopAt = "events"

\* A wakeup event still to be handled finds a byte to read, so handleWakeup
\* never blocks the loop in read().
WakeupReadable == "wakeup" \in active => pipe > 0

\* A byte announces tasks that were handed over before it was written.
AnnouncedKnown ==
  announced \subseteq Range(tasks) \cup Range(batch) \cup Range(executed)

\* handleTasks runs all it swapped out before the loop goes on.
BatchDrained == loopAt # "runTasks" => batch = <<>>

\* The inductive invariant the proofs rest on.
LoopInv ==
  /\ TypeOK
  /\ BatchDrained
  /\ WakeupReadable
  /\ AnnouncedKnown
  /\ NoLostWakeup

\* The loop waits for mutex_, whose holder waits for room in a full pipe that
\* only the loop reads: nobody moves again.
Wedged ==
  /\ loopAt = "events"
  /\ active = {}
  /\ pipe = PipeCap
  /\ mutex # NoCaller

\* Each task that was announced is run, unless the loop ends first or wedges.
AnnouncedTaskRuns ==
  [](~Wedged) =>
    \A t \in Task : (t \in announced) ~> (t \in Range(executed) \/ loopAt = "stopped")

\* The loop implements the task queue it promises: first in, first out across
\* the swap, each task at most once, none after the loop has returned.
Queue == INSTANCE TaskQueue
           WITH queue <- batch \o tasks, done <- executed,
                stopped <- (loopAt = "stopped")

ImplementsTaskQueue == Queue!Spec
=============================================================================
