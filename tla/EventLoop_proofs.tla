--------------------------- MODULE EventLoop_proofs ---------------------------
(***************************************************************************)
(* Theorems about EventLoop, for any number of callers, tasks and timers   *)
(* and any capacity of the wakeup pipe, and about TimerWheel, the timers   *)
(* of the loop, for any number of timers, slots and layers.                *)
(***************************************************************************)
EXTENDS EventLoop, TimerWheel, SequenceTheorems, FiniteSetTheorems, WellFoundedInduction, TLAPS

\* What the ranges of the sequences that hold the tasks become when a task
\* moves from one to the next.
LEMMA RangeOfAppend ==
  ASSUME NEW S, NEW s \in Seq(S), NEW e \in S
  PROVE  Range(Append(s, e)) = Range(s) \cup {e}
  <1>1. /\ Append(s, e) \in Seq(S)
        /\ Len(Append(s, e)) = Len(s) + 1
        /\ \A i \in 1..Len(s) : Append(s, e)[i] = s[i]
        /\ Append(s, e)[Len(s) + 1] = e
    BY AppendProperties
  <1>2. DOMAIN s = 1..Len(s) /\ DOMAIN Append(s, e) = 1..(Len(s) + 1)
    BY <1>1
  <1>3. Len(s) \in Nat
    OBVIOUS
  <1>4. Range(Append(s, e)) \subseteq Range(s) \cup {e}
    <2> SUFFICES ASSUME NEW i \in 1..(Len(s) + 1)
                 PROVE  Append(s, e)[i] \in Range(s) \cup {e}
      BY <1>2 DEF Range
    <2>1. CASE i = Len(s) + 1
      BY <2>1, <1>1
    <2>2. CASE i \in 1..Len(s)
      BY <2>2, <1>1, <1>2 DEF Range
    <2> QED
      BY <2>1, <2>2, <1>3
  <1>5. Range(s) \subseteq Range(Append(s, e))
    <2> SUFFICES ASSUME NEW i \in 1..Len(s)
                 PROVE  s[i] \in Range(Append(s, e))
      BY <1>2 DEF Range
    <2>1. i \in 1..(Len(s) + 1)
      BY <1>3
    <2> QED
      BY <2>1, <1>1, <1>2 DEF Range
  <1>6. e \in Range(Append(s, e))
    <2>1. Len(s) + 1 \in 1..(Len(s) + 1)
      BY <1>3
    <2> QED
      BY <2>1, <1>1, <1>2 DEF Range
  <1> QED
    BY <1>4, <1>5, <1>6

\* An empty queue holds no task.
LEMMA RangeOfEmpty == Range(<<>>) = {}
  BY DEF Range

\* The task at the head of a queue and those of its tail are its tasks.
LEMMA RangeOfHeadTail ==
  ASSUME NEW S, NEW s \in Seq(S), s # <<>>
  PROVE  /\ Head(s) \in S
         /\ Tail(s) \in Seq(S)
         /\ Range(s) = {Head(s)} \cup Range(Tail(s))
  <1>1. /\ Len(s) \in Nat \ {0}
        /\ Head(s) = s[1]
        /\ Tail(s) \in Seq(S)
        /\ Len(Tail(s)) = Len(s) - 1
        /\ \A i \in 1..(Len(s) - 1) : Tail(s)[i] = s[i + 1]
    BY HeadTailProperties, EmptySeq
  <1>2. DOMAIN s = 1..Len(s) /\ DOMAIN Tail(s) = 1..(Len(s) - 1)
    BY <1>1
  <1>3. Range(s) \subseteq {Head(s)} \cup Range(Tail(s))
    <2> SUFFICES ASSUME NEW i \in 1..Len(s)
                 PROVE  s[i] \in {Head(s)} \cup Range(Tail(s))
      BY <1>2 DEF Range
    <2>1. CASE i = 1
      BY <2>1, <1>1
    <2>2. CASE i # 1
      <3>1. i - 1 \in 1..(Len(s) - 1) /\ (i - 1) + 1 = i
        BY <2>2, <1>1
      <3> QED
        BY <3>1, <1>1, <1>2 DEF Range
    <2> QED
      BY <2>1, <2>2
  <1>4. Range(Tail(s)) \subseteq Range(s)
    <2> SUFFICES ASSUME NEW i \in 1..(Len(s) - 1)
                 PROVE  Tail(s)[i] \in Range(s)
      BY <1>2 DEF Range
    <2>1. i + 1 \in 1..Len(s)
      BY <1>1
    <2> QED
      BY <2>1, <1>1, <1>2 DEF Range
  <1>5. Head(s) \in Range(s)
    BY <1>1, <1>2 DEF Range
  <1> QED
    BY <1>1, <1>3, <1>4, <1>5

\* AddTasks adds its two tasks to those that are queued.
LEMMA RangeOfTwoMore ==
  ASSUME NEW S, NEW s \in Seq(S), NEW d \in S, NEW e \in S
  PROVE  /\ s \o <<d, e>> = Append(Append(s, d), e)
         /\ s \o <<d, e>> \in Seq(S)
         /\ Range(s \o <<d, e>>) = Range(s) \cup {d, e}
  <1>1. s \o <<d, e>> = Append(Append(s, d), e)
    OBVIOUS
  <1>2. Append(s, d) \in Seq(S) /\ Range(Append(s, d)) = Range(s) \cup {d}
    BY RangeOfAppend, AppendProperties
  <1>3. \A r \in Seq(S) : /\ Append(r, e) \in Seq(S)
                          /\ Range(Append(r, e)) = Range(r) \cup {e}
    BY RangeOfAppend, AppendProperties
  <1>4. Range(Append(Append(s, d), e)) = (Range(s) \cup {d}) \cup {e}
    BY <1>2, <1>3
  <1> QED
    BY <1>1, <1>2, <1>3, <1>4

-----------------------------------------------------------------------------
\* What a callback may leave behind keeps the types, and only adds to the
\* history of the tasks run.
LEMMA CallbackTypes ==
  ASSUME TypeOK, NEW done \in Seq(Task), NEW tms \in [Timer -> TimerState],
         CallbackEffect(done, tms)
  PROVE  /\ running' \in BOOLEAN
         /\ executed' \in Seq(Task)
         /\ timers' \in [Timer -> TimerState]
         /\ Range(done) \subseteq Range(executed')
  <1>1. ASSUME NEW t \in Fresh(done), executed' = Append(done, t)
        PROVE  executed' \in Seq(Task) /\ Range(done) \subseteq Range(executed')
    <2>1. t \in Task
      BY DEF Fresh
    <2> QED
      BY <1>1, <2>1, RangeOfAppend, AppendProperties
  <1>2. executed' \in Seq(Task) /\ Range(done) \subseteq Range(executed')
    BY <1>1 DEF CallbackEffect
  <1>3. running' \in BOOLEAN
    BY DEF CallbackEffect, TypeOK
  <1>4. timers' \in [Timer -> TimerState]
    BY DEF CallbackEffect, TimerState
  <1> QED
    BY <1>2, <1>3, <1>4

\* A wakeup byte adds to the announced tasks those that are queued.
LEMMA WriteByteEffect ==
  ASSUME LoopInv, WriteByte
  PROVE  /\ pipe' \in 0..PipeCap
         /\ pipe' >= pipe
         /\ announced' \subseteq Task
         /\ announced' \subseteq announced \cup Range(tasks)
         /\ pipe' > 0 \/ announced' = announced
  <1>1. pipe \in Nat /\ announced \subseteq Task /\ Range(tasks) \subseteq Task
    BY PipeCapAssumption DEF LoopInv, TypeOK, Range
  <1>2. CASE loopAt = "new"
    BY <1>1, <1>2 DEF WriteByte, LoopInv, TypeOK
  <1>3. CASE loopAt # "new"
    BY <1>1, <1>3, PipeCapAssumption DEF WriteByte
  <1> QED
    BY <1>2, <1>3

\* A loop that has just been made satisfies the invariant.
LEMMA InitEstablishes == Init => LoopInv
  <1> SUFFICES ASSUME Init PROVE LoopInv
    OBVIOUS
  <1>1. TypeOK
    <2>1. /\ timers \in [Timer -> TimerState]
          /\ callerAt \in [Caller -> CallerPlace]
          /\ loopAt \in LoopPlace
      BY DEF Init, TimerState, LoopPlace, CallerPlace
    <2>2. tasks \in Seq(Task) /\ batch \in Seq(Task) /\ executed \in Seq(Task)
      BY EmptySeq DEF Init
    <2>3. pipe \in 0..PipeCap
      BY PipeCapAssumption DEF Init
    <2> QED
      BY <2>1, <2>2, <2>3 DEF Init, TypeOK
  <1>2. BatchDrained /\ WakeupReadable /\ AnnouncedKnown /\ NoLostWakeup
    BY DEF Init, BatchDrained, WakeupReadable, AnnouncedKnown, NoLostWakeup
  <1> QED
    BY <1>1, <1>2 DEF LoopInv

\* Each call of another thread keeps the invariant.
LEMMA CallerStepKeeps ==
  ASSUME LoopInv, NEW c \in Caller, CallerStep(c)
  PROVE  LoopInv'
  <1> USE DEF LoopInv
  <1>1. ASSUME NEW t \in Task, AddTask(c, t)
        PROVE  LoopInv'
    <2>1. tasks' \in Seq(Task) /\ Range(tasks') = Range(tasks) \cup {t}
      BY <1>1, RangeOfAppend, AppendProperties DEF AddTask, TypeOK
    <2>2. t \notin announced
      BY <1>1 DEF AddTask, Fresh, AnnouncedKnown
    <2>3. TypeOK'
      BY <1>1, <2>1 DEF AddTask, TypeOK, loopVars, CallerPlace
    <2>4. BatchDrained' /\ WakeupReadable'
      BY <1>1 DEF AddTask, BatchDrained, WakeupReadable, Pending, loopVars
    <2>5. AnnouncedKnown' /\ NoLostWakeup'
      BY <1>1, <2>1, <2>2 DEF AddTask, AnnouncedKnown, NoLostWakeup, loopVars
    <2> QED
      BY <2>3, <2>4, <2>5
  <1>2. ASSUME Notify(c)
        PROVE  LoopInv'
    <2>1. WriteByte
      BY <1>2 DEF Notify
    <2>2. TypeOK'
      BY <1>2, <2>1, WriteByteEffect DEF Notify, TypeOK, loopVars, CallerPlace
    <2>3. BatchDrained' /\ WakeupReadable'
      BY <1>2, <2>1, WriteByteEffect
         DEF Notify, BatchDrained, WakeupReadable, TypeOK, loopVars
    <2>5. AnnouncedKnown'
      BY <1>2, <2>1, WriteByteEffect DEF Notify, AnnouncedKnown, loopVars
    <2>6. NoLostWakeup'
      BY <1>2, <2>1, WriteByteEffect DEF Notify, NoLostWakeup, TypeOK, loopVars
    <2> QED
      BY <2>2, <2>3, <2>5, <2>6
  <1>3. ASSUME NEW t \in Task, NEW u \in Task, AddTasks(c, t, u)
        PROVE  LoopInv'
    <2>1. tasks' \in Seq(Task) /\ Range(tasks') = Range(tasks) \cup {t, u}
      BY <1>3, RangeOfTwoMore DEF AddTasks, TypeOK
    <2>2. t \notin announced /\ u \notin announced
      BY <1>3 DEF AddTasks, Fresh, AnnouncedKnown
    <2>3. TypeOK'
      BY <1>3, <2>1 DEF AddTasks, TypeOK, loopVars, callerVars
    <2>4. BatchDrained' /\ WakeupReadable'
      BY <1>3 DEF AddTasks, BatchDrained, WakeupReadable, Pending, loopVars
    <2>5. AnnouncedKnown' /\ NoLostWakeup'
      BY <1>3, <2>1, <2>2 DEF AddTasks, AnnouncedKnown, NoLostWakeup, loopVars
    <2> QED
      BY <2>3, <2>4, <2>5
  <1>4. ASSUME NEW tm \in Timer, AddTimer(c, tm)
        PROVE  LoopInv'
    <2>1. TypeOK'
      BY <1>4 DEF AddTimer, TypeOK, loopVars, callerVars, TimerState
    <2>3. BatchDrained' /\ WakeupReadable' /\ AnnouncedKnown' /\ NoLostWakeup'
      BY <1>4 DEF AddTimer, BatchDrained, WakeupReadable, AnnouncedKnown, NoLostWakeup,
                  loopVars
    <2> QED
      BY <2>1, <2>3
  <1>5. ASSUME Quit(c)
        PROVE  LoopInv'
    <2>1. TypeOK'
      BY <1>5 DEF Quit, TypeOK, loopVars, CallerPlace
    <2>2. /\ BatchDrained' /\ WakeupReadable' /\ AnnouncedKnown'
          /\ NoLostWakeup'
      BY <1>5 DEF Quit, BatchDrained, WakeupReadable, AnnouncedKnown, NoLostWakeup,
                  Pending, loopVars
    <2> QED
      BY <2>1, <2>2
  <1>6. ASSUME QuitNotify(c)
        PROVE  LoopInv'
    <2>1. WriteByte
      BY <1>6 DEF QuitNotify
    <2>2. TypeOK'
      BY <1>6, <2>1, WriteByteEffect
         DEF QuitNotify, TypeOK, loopVars, CallerPlace
    <2>3. BatchDrained' /\ WakeupReadable'
      BY <1>6, <2>1, WriteByteEffect
         DEF QuitNotify, BatchDrained, WakeupReadable, TypeOK, loopVars
    <2>5. AnnouncedKnown'
      BY <1>6, <2>1, WriteByteEffect DEF QuitNotify, AnnouncedKnown, loopVars
    <2>6. NoLostWakeup'
      BY <1>6, <2>1, WriteByteEffect
         DEF QuitNotify, NoLostWakeup, TypeOK, loopVars
    <2> QED
      BY <2>2, <2>3, <2>5, <2>6
  <1> QED
    BY <1>1, <1>2, <1>3, <1>4, <1>5, <1>6 DEF CallerStep

\* Each step of the loop keeps the invariant.
LEMMA LoopStepKeeps ==
  ASSUME LoopInv, LoopStep
  PROVE  LoopInv'
  <1> USE DEF LoopInv
  <1>1. CASE CreateWakeupfd
    <2>1. TypeOK'
      BY <1>1 DEF CreateWakeupfd, TypeOK, callerVars, LoopPlace
    <2>2. /\ BatchDrained' /\ WakeupReadable' /\ AnnouncedKnown'
          /\ NoLostWakeup'
      BY <1>1 DEF CreateWakeupfd, BatchDrained, WakeupReadable, AnnouncedKnown, NoLostWakeup,
                  callerVars
    <2> QED
      BY <2>1, <2>2
  <1>2. CASE SetRunning
    <2>1. TypeOK'
      BY <1>2 DEF SetRunning, TypeOK, callerVars, LoopPlace
    <2>2. /\ BatchDrained' /\ WakeupReadable' /\ AnnouncedKnown'
          /\ NoLostWakeup'
      BY <1>2 DEF SetRunning, BatchDrained, WakeupReadable, AnnouncedKnown, NoLostWakeup,
                  callerVars
    <2> QED
      BY <2>1, <2>2
  <1>3. CASE BeginPass
    <2>1. TypeOK'
      <3>1. timed' \in BOOLEAN /\ loopAt' \in LoopPlace
        BY <1>3 DEF BeginPass, TypeOK, LoopPlace
      <3> QED
        BY <1>3, <3>1 DEF BeginPass, TypeOK, callerVars
    <2>2. BatchDrained' /\ WakeupReadable' /\ AnnouncedKnown' /\ NoLostWakeup'
      BY <1>3 DEF BeginPass, BatchDrained, WakeupReadable, AnnouncedKnown, NoLostWakeup,
                  callerVars
    <2> QED
      BY <2>1, <2>2
  <1>4. CASE PollReturns
    <2>1. TypeOK'
      <3>1. active' \subseteq EventName /\ loopAt' \in LoopPlace
        BY <1>4 DEF PollReturns, LoopPlace
      <3> QED
        BY <1>4, <3>1 DEF PollReturns, TypeOK, callerVars
    <2>2. BatchDrained' /\ WakeupReadable'
      BY <1>4 DEF PollReturns, BatchDrained, WakeupReadable
    <2>3. AnnouncedKnown' /\ NoLostWakeup'
      BY <1>4 DEF PollReturns, AnnouncedKnown, NoLostWakeup,
                  callerVars
    <2> QED
      BY <2>1, <2>2, <2>3
  <1>5. CASE HandleWakeup
    <2>1. pipe' \in 0..PipeCap
      BY <1>5, PipeCapAssumption DEF HandleWakeup, TypeOK, WakeupReadable
    <2>2. TypeOK'
      BY <1>5, <2>1 DEF HandleWakeup, TypeOK, callerVars
    <2>3. BatchDrained' /\ WakeupReadable' /\ NoLostWakeup'
      BY <1>5 DEF HandleWakeup, BatchDrained, WakeupReadable, NoLostWakeup
    <2>4. AnnouncedKnown'
      BY <1>5 DEF HandleWakeup, AnnouncedKnown
    <2> QED
      BY <2>2, <2>3, <2>4
  <1>6. CASE HandleIO
    <2>1. CallbackEffect(executed, timers)
      BY <1>6 DEF HandleIO
    <2>2. /\ running' \in BOOLEAN
          /\ executed' \in Seq(Task)
          /\ timers' \in [Timer -> TimerState]
          /\ Range(executed) \subseteq Range(executed')
      BY <2>1, CallbackTypes DEF TypeOK
    <2>3. TypeOK'
      BY <1>6, <2>2 DEF HandleIO, TypeOK, callerVars
    <2>4. BatchDrained' /\ WakeupReadable' /\ NoLostWakeup'
      BY <1>6 DEF HandleIO, BatchDrained, WakeupReadable, NoLostWakeup
    <2>5. AnnouncedKnown'
      BY <1>6, <2>2 DEF HandleIO, AnnouncedKnown
    <2> QED
      BY <2>3, <2>4, <2>5
  <1>7. CASE SwapTasks
    <2>1. tasks' = <<>> /\ batch' = tasks /\ Range(tasks') = {}
      BY <1>7, RangeOfEmpty DEF SwapTasks
    <2>2. TypeOK'
      <3>1. tasks' \in Seq(Task) /\ batch' \in Seq(Task)
        BY <2>1, EmptySeq DEF TypeOK
      <3>2. loopAt' \in LoopPlace
        BY <1>7 DEF SwapTasks, LoopPlace
      <3> QED
        BY <1>7, <3>1, <3>2 DEF SwapTasks, TypeOK, callerVars
    <2>3. BatchDrained' /\ WakeupReadable' /\ NoLostWakeup'
      BY <1>7, <2>1 DEF SwapTasks, BatchDrained, WakeupReadable, NoLostWakeup
    <2>4. AnnouncedKnown'
      BY <1>7, <2>1, RangeOfEmpty DEF SwapTasks, AnnouncedKnown, BatchDrained
    <2> QED
      BY <2>2, <2>3, <2>4
  <1>8. CASE RunTask
    <2> DEFINE ran == Append(executed, Head(batch))
    <2>1. /\ Head(batch) \in Task
          /\ batch' \in Seq(Task)
          /\ Range(batch) = {Head(batch)} \cup Range(batch')
      BY <1>8, RangeOfHeadTail DEF RunTask, TypeOK
    <2>2. ran \in Seq(Task) /\ Range(ran) = Range(executed) \cup {Head(batch)}
      BY <2>1, RangeOfAppend, AppendProperties DEF TypeOK
    <2>3. CallbackEffect(ran, timers)
      BY <1>8 DEF RunTask
    <2> HIDE DEF ran
    <2>4. /\ running' \in BOOLEAN
          /\ executed' \in Seq(Task)
          /\ timers' \in [Timer -> TimerState]
          /\ Range(ran) \subseteq Range(executed')
      BY <2>2, <2>3, CallbackTypes DEF TypeOK
    <2>5. TypeOK'
      BY <1>8, <2>1, <2>4 DEF RunTask, TypeOK, callerVars
    <2>6. BatchDrained' /\ WakeupReadable' /\ NoLostWakeup'
      BY <1>8 DEF RunTask, BatchDrained, WakeupReadable, NoLostWakeup
    <2>7. AnnouncedKnown'
      BY <1>8, <2>1, <2>2, <2>4 DEF RunTask, AnnouncedKnown
    <2> QED
      BY <2>5, <2>6, <2>7
  <1>9. CASE PopTimers
    <2>1. timers' \in [Timer -> TimerState] /\ loopAt' \in LoopPlace
      BY <1>9 DEF PopTimers, TypeOK, TimerState, LoopPlace
    <2>2. TypeOK'
      BY <1>9, <2>1 DEF PopTimers, TypeOK, callerVars
    <2>3. /\ BatchDrained' /\ WakeupReadable' /\ AnnouncedKnown'
          /\ NoLostWakeup'
      BY <1>9 DEF PopTimers, BatchDrained, WakeupReadable, AnnouncedKnown,
                  NoLostWakeup
    <2> QED
      BY <2>2, <2>3
  <1>10. ASSUME NEW tm \in Timer, RunTimer(tm)
         PROVE  LoopInv'
    <2> DEFINE tms == [timers EXCEPT ![tm] = "fired"]
    <2>1. tms \in [Timer -> TimerState]
      BY DEF TypeOK, TimerState
    <2>2. CallbackEffect(executed, tms)
      BY <1>10 DEF RunTimer
    <2> HIDE DEF tms
    <2>3. /\ running' \in BOOLEAN
          /\ executed' \in Seq(Task)
          /\ timers' \in [Timer -> TimerState]
          /\ Range(executed) \subseteq Range(executed')
      BY <2>1, <2>2, CallbackTypes DEF TypeOK
    <2>4. TypeOK'
      BY <1>10, <2>3 DEF RunTimer, TypeOK, callerVars
    <2>5. BatchDrained' /\ WakeupReadable' /\ NoLostWakeup'
      BY <1>10 DEF RunTimer, BatchDrained, WakeupReadable, NoLostWakeup
    <2>6. AnnouncedKnown'
      BY <1>10, <2>3 DEF RunTimer, AnnouncedKnown
    <2> QED
      BY <2>4, <2>5, <2>6
  <1>11. CASE EndPass
    <2>1. TypeOK'
      BY <1>11 DEF EndPass, TypeOK, callerVars, LoopPlace
    <2>2. /\ BatchDrained' /\ WakeupReadable' /\ AnnouncedKnown'
          /\ NoLostWakeup'
      BY <1>11 DEF EndPass, BatchDrained, WakeupReadable, AnnouncedKnown,
                   NoLostWakeup
    <2> QED
      BY <2>1, <2>2
  <1> QED
    BY <1>1, <1>2, <1>3, <1>4, <1>5, <1>6, <1>7, <1>8, <1>9, <1>10, <1>11
       DEF LoopStep

\* Input and the passing of time keep the invariant.
LEMMA EnvironmentKeeps ==
  ASSUME LoopInv, IoArrives \/ \E tm \in Timer : ComesDue(tm)
  PROVE  LoopInv'
  <1> USE DEF LoopInv
  <1>1. CASE IoArrives
    <2>1. TypeOK'
      BY <1>1 DEF IoArrives, TypeOK, loopVars, callerVars
    <2>2. /\ BatchDrained' /\ WakeupReadable' /\ AnnouncedKnown'
          /\ NoLostWakeup'
      BY <1>1 DEF IoArrives, BatchDrained, WakeupReadable, AnnouncedKnown,
                  NoLostWakeup, Pending, loopVars
    <2> QED
      BY <2>1, <2>2
  <1>2. ASSUME NEW tm \in Timer, ComesDue(tm)
        PROVE  LoopInv'
    <2>1. TypeOK'
      BY <1>2 DEF ComesDue, TypeOK, loopVars, callerVars, TimerState
    <2>3. /\ BatchDrained' /\ WakeupReadable' /\ AnnouncedKnown'
          /\ NoLostWakeup'
      BY <1>2 DEF ComesDue, BatchDrained, WakeupReadable, AnnouncedKnown,
                  NoLostWakeup, loopVars
    <2> QED
      BY <2>1, <2>3
  <1> QED
    BY <1>1, <1>2

\* Whatever the callers, the callbacks and the environment do, the loop stays
\* within LoopInv.
THEOREM LoopInvariant == Spec => []LoopInv
  <1>1. LoopInv /\ [Next]_vars => LoopInv'
    <2> SUFFICES ASSUME LoopInv, [Next]_vars
                 PROVE  LoopInv'
      OBVIOUS
    <2>1. CASE UNCHANGED vars
      BY <2>1 DEF vars, LoopInv, TypeOK, BatchDrained, WakeupReadable,
                  AnnouncedKnown, NoLostWakeup, Pending
    <2> QED
      BY <2>1, CallerStepKeeps, LoopStepKeeps, EnvironmentKeeps DEF Next
  <1> QED
    BY <1>1, InitEstablishes, PTL DEF Spec

\* The state of the loop stays within its types.
THEOREM TypeCorrect == Spec => []TypeOK
  BY LoopInvariant, PTL DEF LoopInv

\* No task whose AddTask wrote its byte is slept over: eventloop.cc writes the
\* byte under the lock it pushes under, and swaps after it reads.
THEOREM WakeupIsNotLost == Spec => []NoLostWakeup
  BY LoopInvariant, PTL DEF LoopInv

-----------------------------------------------------------------------------
(* The loop implements TaskQueue.                                          *)

\* The tasks of two queues taken as one are those of the first and those of the
\* second.
LEMMA RangeOfConcat ==
  ASSUME NEW S, NEW s \in Seq(S), NEW t \in Seq(S)
  PROVE  Range(s \o t) = Range(s) \cup Range(t)
  <1>1. /\ Len(s) \in Nat /\ Len(t) \in Nat
        /\ s \o t \in Seq(S)
        /\ Len(s \o t) = Len(s) + Len(t)
        /\ \A i \in 1..(Len(s) + Len(t)) :
             (s \o t)[i] = IF i <= Len(s) THEN s[i] ELSE t[i - Len(s)]
    BY ConcatProperties, LenProperties
  <1>2. /\ DOMAIN s = 1..Len(s)
        /\ DOMAIN t = 1..Len(t)
        /\ DOMAIN (s \o t) = 1..(Len(s) + Len(t))
    BY <1>1
  <1>3. Range(s \o t) \subseteq Range(s) \cup Range(t)
    <2> SUFFICES ASSUME NEW i \in 1..(Len(s) + Len(t))
                 PROVE  (s \o t)[i] \in Range(s) \cup Range(t)
      BY <1>2 DEF Range
    <2>1. CASE i <= Len(s)
      <3>1. i \in 1..Len(s)
        BY <2>1, <1>1
      <3> QED
        BY <3>1, <2>1, <1>1, <1>2 DEF Range
    <2>2. CASE ~(i <= Len(s))
      <3>1. i - Len(s) \in 1..Len(t)
        BY <2>2, <1>1
      <3> QED
        BY <3>1, <2>2, <1>1, <1>2 DEF Range
    <2> QED
      BY <2>1, <2>2
  <1>4. Range(s) \subseteq Range(s \o t)
    <2> SUFFICES ASSUME NEW i \in 1..Len(s)
                 PROVE  s[i] \in Range(s \o t)
      BY <1>2 DEF Range
    <2>1. i \in 1..(Len(s) + Len(t)) /\ i <= Len(s)
      BY <1>1
    <2> QED
      BY <2>1, <1>1, <1>2 DEF Range
  <1>5. Range(t) \subseteq Range(s \o t)
    <2> SUFFICES ASSUME NEW i \in 1..Len(t)
                 PROVE  t[i] \in Range(s \o t)
      BY <1>2 DEF Range
    <2>1. /\ i + Len(s) \in 1..(Len(s) + Len(t))
          /\ ~(i + Len(s) <= Len(s))
          /\ (i + Len(s)) - Len(s) = i
      BY <1>1
    <2> QED
      BY <2>1, <1>1, <1>2 DEF Range
  <1> QED
    BY <1>3, <1>4, <1>5

\* A concatenation whose first part is not empty loses its head to that part.
LEMMA ConcatHeadTail ==
  ASSUME NEW S, NEW s \in Seq(S), NEW t \in Seq(S), s # <<>>
  PROVE  /\ s \o t # <<>>
         /\ Head(s \o t) = Head(s)
         /\ Tail(s \o t) = Tail(s) \o t
  <1>1. /\ s \o t \in Seq(S)
        /\ Len(s \o t) = Len(s) + Len(t)
        /\ Len(s) \in Nat \ {0}
        /\ Len(t) \in Nat
        /\ \A i \in 1..(Len(s) + Len(t)) :
             (s \o t)[i] = IF i <= Len(s) THEN s[i] ELSE t[i - Len(s)]
    BY ConcatProperties, LenProperties, EmptySeq
  <1>2. s \o t # <<>>
    BY <1>1, EmptySeq
  <1>3. Head(s \o t) = Head(s)
    <2>1. (s \o t)[1] = s[1]
      BY <1>1
    <2> QED
      BY <2>1, <1>2, <1>1, HeadTailProperties
  <1>4. /\ Tail(s) \in Seq(S) /\ Len(Tail(s)) = Len(s) - 1
        /\ \A i \in 1..(Len(s) - 1) : Tail(s)[i] = s[i + 1]
    BY HeadTailProperties
  <1>5. /\ Tail(s \o t) \in Seq(S)
        /\ Len(Tail(s \o t)) = Len(s) + Len(t) - 1
        /\ \A i \in 1..(Len(s) + Len(t) - 1) : Tail(s \o t)[i] = (s \o t)[i + 1]
    BY <1>1, <1>2, HeadTailProperties
  <1>6. /\ Tail(s) \o t \in Seq(S)
        /\ Len(Tail(s) \o t) = Len(s) + Len(t) - 1
        /\ \A i \in 1..(Len(s) + Len(t) - 1) :
             (Tail(s) \o t)[i] = IF i <= Len(s) - 1 THEN Tail(s)[i]
                                 ELSE t[i - (Len(s) - 1)]
    BY <1>1, <1>4, ConcatProperties
  <1>7. ASSUME NEW i \in 1..(Len(s) + Len(t) - 1)
        PROVE  Tail(s \o t)[i] = (Tail(s) \o t)[i]
    <2>1. i + 1 \in 1..(Len(s) + Len(t))
      BY <1>1
    <2>2. CASE i <= Len(s) - 1
      BY <2>1, <2>2, <1>1, <1>4, <1>5, <1>6
    <2>3. CASE ~(i <= Len(s) - 1)
      <3>1. i - (Len(s) - 1) = (i + 1) - Len(s) /\ ~(i + 1 <= Len(s))
        BY <2>3, <1>1
      <3> QED
        BY <3>1, <2>1, <2>3, <1>1, <1>5, <1>6
    <2> QED
      BY <2>2, <2>3
  <1>8. Tail(s \o t) = Tail(s) \o t
    BY <1>5, <1>6, <1>7, SeqEqual
  <1> QED
    BY <1>2, <1>3, <1>8

\* The instance has a Range of its own, with the same definition.
LEMMA SameRange == \A f : Queue!Range(f) = Range(f)
  BY DEF Queue!Range, Range

\* What the task queue knows of: what is queued, swapped out or run.
LEMMA KnownTasks ==
  ASSUME TypeOK
  PROVE  Queue!Known = Range(tasks) \cup Range(batch) \cup Range(executed)
  <1>1. Range(batch \o tasks) = Range(batch) \cup Range(tasks)
    BY RangeOfConcat DEF TypeOK
  <1> QED
    BY <1>1, SameRange DEF Queue!Known

\* A callback outside handleTasks is a stutter of the task queue, or runs one
\* task on the spot.
LEMMA CallbackRefines ==
  ASSUME TypeOK, NEW tms, CallbackEffect(executed, tms),
         batch' = batch, tasks' = tasks, loopAt' = loopAt, loopAt # "stopped"
  PROVE  Queue!Next \/ UNCHANGED Queue!vars
  <1>1. CASE executed' = executed
    BY <1>1 DEF Queue!vars
  <1>2. ASSUME NEW t \in Fresh(executed), executed' = Append(executed, t)
        PROVE  Queue!Next
    <2>1. t \in Task /\ t \notin Queue!Known
      BY KnownTasks DEF Fresh
    <2>2. Queue!RunInline(t)
      BY <1>2, <2>1 DEF Queue!RunInline
    <2> QED
      BY <2>1, <2>2 DEF Queue!Next
  <1> QED
    BY <1>1, <1>2 DEF CallbackEffect

\* A call of another thread submits one or two tasks, or is a stutter of the
\* task queue.
LEMMA CallerStepRefines ==
  ASSUME LoopInv, NEW c \in Caller, CallerStep(c)
  PROVE  Queue!Next \/ UNCHANGED Queue!vars
  <1> TypeOK
    BY DEF LoopInv
  <1>1. ASSUME NEW t \in Task, AddTask(c, t)
        PROVE  Queue!Next
    <2>1. tasks' = tasks \o <<t>> /\ <<t>> \in Seq(Task)
      BY <1>1 DEF AddTask, TypeOK
    <2>2. batch' \o tasks' = (batch \o tasks) \o <<t>>
      BY <1>1, <2>1, ConcatAssociative DEF AddTask, TypeOK, loopVars
    <2>3. Range(<<t>>) \cap Queue!Known = {}
      <3>1. Range(<<t>>) = {t}
        BY DEF Range
      <3> QED
        BY <1>1, <3>1, KnownTasks DEF AddTask, Fresh
    <2>4. executed' = executed /\ loopAt' = loopAt
      BY <1>1 DEF AddTask, loopVars
    <2>5. Queue!Submit(<<t>>)
      BY <2>2, <2>3, <2>4, SameRange DEF Queue!Submit
    <2> QED
      BY <2>5 DEF Queue!Next
  <1>2. ASSUME NEW t \in Task, NEW u \in Task, AddTasks(c, t, u)
        PROVE  Queue!Next
    <2>1. <<t, u>> \in Seq(Task)
      OBVIOUS
    <2>2. batch' \o tasks' = (batch \o tasks) \o <<t, u>>
      BY <1>2, <2>1, ConcatAssociative, SMTT(30) DEF AddTasks, TypeOK, loopVars
    <2>3. Range(<<t, u>>) \cap Queue!Known = {}
      <3>1. Range(<<t, u>>) = {t, u}
        BY DEF Range
      <3> QED
        BY <1>2, <3>1, KnownTasks DEF AddTasks, Fresh
    <2>4. executed' = executed /\ loopAt' = loopAt
      BY <1>2 DEF AddTasks, loopVars
    <2>5. Queue!Submit(<<t, u>>)
      BY <2>2, <2>3, <2>4, SameRange DEF Queue!Submit
    <2> QED
      BY <1>2, <2>5 DEF AddTasks, Queue!Next
  <1>3. CASE Notify(c)
    BY <1>3 DEF Notify, loopVars, Queue!vars
  <1>4. ASSUME NEW tm \in Timer, AddTimer(c, tm)
        PROVE  UNCHANGED Queue!vars
    BY <1>4 DEF AddTimer, loopVars, Queue!vars
  <1>5. CASE Quit(c)
    BY <1>5 DEF Quit, loopVars, Queue!vars
  <1>6. CASE QuitNotify(c)
    BY <1>6 DEF QuitNotify, loopVars, Queue!vars
  <1> QED
    BY <1>1, <1>2, <1>3, <1>4, <1>5, <1>6 DEF CallerStep

\* A step of the loop runs the oldest task, runs one on the spot, ends the loop,
\* or is a stutter of the task queue; the swap of handleTasks is a stutter.
LEMMA LoopStepRefines ==
  ASSUME LoopInv, LoopStep
  PROVE  Queue!Next \/ UNCHANGED Queue!vars
  <1> TypeOK
    BY DEF LoopInv
  <1>1. CASE CreateWakeupfd \/ SetRunning \/ PollReturns \/ HandleWakeup
             \/ PopTimers \/ EndPass
    BY <1>1 DEF CreateWakeupfd, SetRunning, PollReturns, HandleWakeup,
                PopTimers, EndPass, Queue!vars
  <1>2. CASE BeginPass
    <2>1. CASE running
      BY <1>2, <2>1 DEF BeginPass, Queue!vars
    <2>2. CASE ~running
      BY <1>2, <2>2 DEF BeginPass, Queue!Stop, Queue!Next
    <2> QED
      BY <2>1, <2>2
  <1>3. CASE HandleIO
    BY <1>3, CallbackRefines DEF HandleIO
  <1>4. CASE SwapTasks
    <2>1. batch = <<>>
      BY <1>4 DEF SwapTasks, LoopInv, BatchDrained
    <2>2. batch \o tasks = tasks /\ batch' \o tasks' = tasks
      BY <1>4, <2>1, ConcatEmptySeq DEF SwapTasks, TypeOK
    <2> QED
      BY <1>4, <2>2 DEF SwapTasks, Queue!vars
  <1>5. CASE RunTask
    <2>1. /\ Head(batch) \in Task
          /\ Tail(batch) \in Seq(Task)
          /\ Range(batch) = {Head(batch)} \cup Range(Tail(batch))
      BY <1>5, RangeOfHeadTail DEF RunTask, TypeOK
    <2>2. /\ batch \o tasks # <<>>
          /\ Head(batch \o tasks) = Head(batch)
          /\ batch' \o tasks' = Tail(batch \o tasks)
      BY <1>5, ConcatHeadTail DEF RunTask, TypeOK
    <2>3. CallbackEffect(Append(executed, Head(batch)), timers)
      BY <1>5 DEF RunTask
    <2>4. \/ executed' = Append(executed, Head(batch))
          \/ \E t \in Fresh(Append(executed, Head(batch))) :
               executed' = Append(Append(executed, Head(batch)), t)
      BY <2>3 DEF CallbackEffect
    <2>5. ASSUME NEW t \in Fresh(Append(executed, Head(batch))),
                 executed' = Append(Append(executed, Head(batch)), t)
          PROVE  /\ t \in Task \ Queue!Known
                 /\ executed' = executed \o <<Head(batch), t>>
      <3>1. Range(Append(executed, Head(batch))) = Range(executed) \cup {Head(batch)}
        BY <2>1, RangeOfAppend DEF TypeOK
      <3>2. t \in Task \ Queue!Known
        BY <3>1, KnownTasks DEF Fresh
      <3> QED
        BY <3>2, <2>1, <2>5, RangeOfTwoMore DEF TypeOK
    <2>6. loopAt # "stopped" /\ loopAt' # "stopped"
      BY <1>5 DEF RunTask
    <2>7. Queue!RunOldest
      BY <2>2, <2>4, <2>5, <2>6 DEF Queue!RunOldest
    <2> QED
      BY <2>7 DEF Queue!Next
  <1>6. ASSUME NEW tm \in Timer, RunTimer(tm)
        PROVE  Queue!Next \/ UNCHANGED Queue!vars
    BY <1>6, CallbackRefines DEF RunTimer
  <1> QED
    BY <1>1, <1>2, <1>3, <1>4, <1>5, <1>6 DEF LoopStep

\* The loop implements the task queue: in order, at most once, and nothing
\* after it has returned, whatever the other threads do.
THEOREM LoopImplementsTaskQueue == Spec => ImplementsTaskQueue
  <1>1. Init => Queue!Init
    BY ConcatEmptySeq, EmptySeq DEF Init, Queue!Init
  <1>2. LoopInv /\ [Next]_vars => [Queue!Next]_(Queue!vars)
    <2> SUFFICES ASSUME LoopInv, [Next]_vars
                 PROVE  Queue!Next \/ UNCHANGED Queue!vars
      OBVIOUS
    <2>1. CASE UNCHANGED vars
      BY <2>1 DEF vars, Queue!vars
    <2>2. CASE IoArrives \/ \E tm \in Timer : ComesDue(tm)
      BY <2>2 DEF IoArrives, ComesDue, loopVars, Queue!vars
    <2> QED
      BY <2>1, <2>2, CallerStepRefines, LoopStepRefines DEF Next
  <1> QED
    BY <1>1, <1>2, LoopInvariant, PTL
       DEF Spec, ImplementsTaskQueue, Queue!Spec

-----------------------------------------------------------------------------
(***************************************************************************)
(* TimerWheel.  The loops of the wheel are recursive functions over their  *)
(* turns, so first: a function of that form exists, and what every turn    *)
(* keeps holds after the last.                                             *)
(***************************************************************************)
(* Counting up to n. *)
LEMMA CountedUpto ==
  ASSUME NEW n \in Nat, NEW T, 0 \in T, \A k \in Nat : k < n /\ k \in T => k + 1 \in T
  PROVE  0 .. n \subseteq T
<1> DEFINE U == {k \in 0 .. n : k \notin T}
<1>1. SUFFICES ASSUME U # {} PROVE FALSE
  OBVIOUS
<1>2. U \subseteq Nat
  OBVIOUS
<1> HIDE DEF U
<1>3. PICK k \in U : \A j \in U : ~ (<<j, k>> \in OpToRel(<, Nat))
  BY <1>1, <1>2, WFMin, NatLessThanWellFounded
<1>4. k \in 0 .. n /\ k \notin T /\ k # 0
  BY <1>3 DEF U
<1>5. k - 1 \in Nat /\ k - 1 \in 0 .. n /\ k - 1 < n /\ (k - 1) + 1 = k /\ k - 1 < k /\ k \in Nat
  BY <1>4
<1>6. <<k - 1, k>> \in OpToRel(<, Nat)
  BY <1>5 DEF OpToRel
<1>7. k - 1 \in T
  BY <1>3, <1>5, <1>6 DEF U
<1>. QED
  BY <1>4, <1>5, <1>7

(* A loop of n turns, each of which takes a value of V to one of V. *)
Iterates(h, n, v0, step) == h[0] = v0 /\ \A k \in 1 .. n : h[k] = step[<<k, h[k - 1]>>]
LEMMA IterationExists ==
  ASSUME NEW V, NEW n \in Nat, NEW v0 \in V, NEW step \in [(1 .. n) \X V -> V]
  PROVE  \E h \in [0 .. n -> V] : Iterates(h, n, v0, step)
<1> DEFINE T == {k \in Nat : k <= n => \E h \in [0 .. k -> V] : Iterates(h, k, v0, step)}
<1>1. 0 \in T
  <2>1. PICK h : h = [i \in 0 .. 0 |-> v0]
    OBVIOUS
  <2>2. h \in [0 .. 0 -> V] /\ Iterates(h, 0, v0, step)
    BY <2>1 DEF Iterates
  <2>. QED
    BY <2>2
<1>2. ASSUME NEW k \in Nat, k < n, k \in T PROVE k + 1 \in T
  <2>1. PICK h \in [0 .. k -> V] : Iterates(h, k, v0, step)
    BY <1>2
  <2>2. PICK last : last = step[<<k + 1, h[k]>>]
    OBVIOUS
  <2>3. last \in V
    <3>1. h[k] \in V /\ k + 1 \in 1 .. n
      BY <1>2
    <3>2. <<k + 1, h[k]>> \in (1 .. n) \X V
      BY <3>1
    <3>. QED
      BY <2>2, <3>2
  <2>4. PICK g : g = [i \in 0 .. k + 1 |-> IF i = k + 1 THEN last ELSE h[i]]
    OBVIOUS
  <2>5. g \in [0 .. k + 1 -> V]
    BY <2>3, <2>4
  <2>6. \A i \in 0 .. k : g[i] = h[i]
    BY <2>4
  <2>7. g[k + 1] = last
    BY <2>4
  <2>8. g[0] = v0
    BY <2>1, <2>6 DEF Iterates
  <2>9. ASSUME NEW i \in 1 .. k + 1 PROVE g[i] = step[<<i, g[i - 1]>>]
    <3>1. i - 1 \in 0 .. k
      OBVIOUS
    <3>2. g[i - 1] = h[i - 1]
      BY <3>1, <2>6
    <3>3. CASE i = k + 1
      <4>1. i - 1 = k
        BY <3>3
      <4>. QED
        BY <4>1, <3>2, <3>3, <2>2, <2>7
    <3>4. CASE i # k + 1
      <4>1. i \in 1 .. k /\ i \in 0 .. k
        BY <3>4
      <4>2. h[i] = step[<<i, h[i - 1]>>]
        BY <4>1, <2>1 DEF Iterates
      <4>. QED
        BY <4>1, <4>2, <3>2, <2>6
    <3>. QED
      BY <3>3, <3>4
  <2>10. Iterates(g, k + 1, v0, step)
    BY <2>8, <2>9 DEF Iterates
  <2>. QED
    BY <2>5, <2>10
<1>3. 0 .. n \subseteq T
  <2> HIDE DEF T
  <2>. QED
    BY <1>1, <1>2, CountedUpto
<1>4. n \in T
  BY <1>3
<1>. QED
  BY <1>4

Agree(f, h, n) == \A k \in 0 .. n : f[k] = h[k]
TurnAlike(f, h, n) == f[0] = h[0] /\ \A k \in 1 .. n : f[k - 1] = h[k - 1] => f[k] = h[k]
LEMMA IterationIsOne ==
  ASSUME NEW n \in Nat, NEW f, NEW h, TurnAlike(f, h, n)
  PROVE  Agree(f, h, n)
<1> USE DEF Agree, TurnAlike
<1> DEFINE T == {k \in 0 .. n : f[k] = h[k]}
<1>1. 0 \in T
  OBVIOUS
<1>2. ASSUME NEW k \in Nat, k < n, k \in T PROVE k + 1 \in T
  <2>1. PICK i \in 1 .. n : i = k + 1
    BY <1>2
  <2>2. i - 1 = k /\ i \in 0 .. n
    BY <2>1
  <2>3. f[i] = h[i]
    BY <2>2, <1>2
  <2>. QED
    BY <2>1, <2>2, <2>3
<1>3. 0 .. n \subseteq T
  <2> HIDE DEF T
  <2>. QED
    BY <1>1, <1>2, CountedUpto
<1>. QED
  BY <1>3

-----------------------------------------------------------------------------
(***************************************************************************)
(* TimerWheel: the places that its arithmetic finds are there.             *)
(***************************************************************************)
LEMMA PowIsPositive ==
  ASSUME NEW i \in Nat
  PROVE  Pow(i) \in Nat \ {0}
<1> DEFINE V == Nat \ {0}
           Is(g) == g = [k \in 0 .. i |-> IF k = 0 THEN 1 ELSE WheelSize * g[k - 1]]
           pow == CHOOSE g : Is(g)
<1>1. Pow(i) = pow[i]
  BY DEF Pow
<1>2. WheelSize \in V
  BY WheelAssumption
<1>3. PICK step : step = [x \in (1 .. i) \X V |-> WheelSize * x[2]]
  OBVIOUS
<1>4. step \in [(1 .. i) \X V -> V]
  <2>1. ASSUME NEW x \in (1 .. i) \X V PROVE WheelSize * x[2] \in V
    <3>1. x[2] \in V
      OBVIOUS
    <3>2. PICK a \in Nat, b \in Nat : a = WheelSize /\ b = x[2] /\ a > 0 /\ b > 0
      BY <1>2, <3>1
    <3>3. a * b \in Nat /\ a * b # 0
      BY <3>2
    <3>. QED
      BY <3>2, <3>3
  <2> HIDE DEF V
  <2>. QED
    BY <2>1, <1>3
<1>5. 1 \in V
  OBVIOUS
<1>6. PICK h \in [0 .. i -> V] : Iterates(h, i, 1, step)
  <2> HIDE DEF V
  <2>. QED
    BY <1>4, <1>5, IterationExists
<1>7. \A k \in 1 .. i : h[k] = WheelSize * h[k - 1]
  <2>1. ASSUME NEW k \in 1 .. i PROVE h[k] = WheelSize * h[k - 1]
    <3>1. k - 1 \in 0 .. i
      OBVIOUS
    <3> HIDE DEF V
    <3>2. <<k, h[k - 1]>> \in (1 .. i) \X V
      BY <3>1
    <3>3. step[<<k, h[k - 1]>>] = WheelSize * h[k - 1]
      BY <3>2, <1>3
    <3>. QED
      BY <3>3, <1>6 DEF Iterates
  <2>. QED
    BY <2>1
<1>8. Is(h)
  <2>1. ASSUME NEW k \in 0 .. i PROVE h[k] = IF k = 0 THEN 1 ELSE WheelSize * h[k - 1]
    <3>1. k # 0 => k \in 1 .. i
      OBVIOUS
    <3>. QED
      BY <3>1, <1>6, <1>7 DEF Iterates
  <2>2. h = [k \in 0 .. i |-> h[k]]
    OBVIOUS
  <2>. QED
    BY <2>1, <2>2
<1>9. PICK f : f = pow
  OBVIOUS
<1>10. Is(f)
  <2>1. \E g : Is(g)
    BY <1>8
  <2> HIDE DEF Is
  <2>. QED
    BY <2>1, <1>9, Zenon
<1>11. Pow(i) = f[i]
  BY <1>1, <1>9
<1> HIDE DEF pow
<1>12. \A k \in 0 .. i : f[k] = h[k]
  <2>1. f[0] = h[0]
    BY <1>8, <1>10
  <2>2. ASSUME NEW k \in 1 .. i, f[k - 1] = h[k - 1] PROVE f[k] = h[k]
    <3>1. k \in 0 .. i /\ k # 0
      OBVIOUS
    <3>2. f[k] = WheelSize * f[k - 1] /\ h[k] = WheelSize * h[k - 1]
      BY <3>1, <1>7, <1>10
    <3>. QED
      BY <3>2, <2>2
  <2>3. TurnAlike(f, h, i)
    BY <2>1, <2>2 DEF TurnAlike
  <2>4. Agree(f, h, i)
    BY <2>3, IterationIsOne
  <2>. QED
    BY <2>4 DEF Agree
<1>13. i \in 0 .. i
  OBVIOUS
<1>. QED
  BY <1>11, <1>12, <1>13

(* The layers turn by whole steps. *)
LEMMA NewStepsTyped ==
  ASSUME NEW w, w.steps \in [Layer -> Int], NEW ticks \in Int
  PROVE  NewSteps(w, ticks) \in [Layer -> Int]
<1> DEFINE n == Layers - 1
           E(i, x) == Digit(ticks, i) + w.steps[i] + (IF i > 0 /\ x > WheelSize - 1 THEN 1 ELSE 0)
           Is(g) == g = [i \in Layer |-> E(i, g[i - 1])]
           raw == CHOOSE g : Is(g)
<1>1. NewSteps(w, ticks) = [i \in Layer |-> IF raw[i] < 0 THEN raw[i] ELSE raw[i] % WheelSize]
  BY Zenon DEF NewSteps
<1>2. WheelSize \in Nat /\ WheelSize > 0 /\ n \in Nat /\ Layer = 0 .. n
  BY WheelAssumption DEF Layer
<1>3. ASSUME NEW i \in 0 .. n PROVE Digit(ticks, i) \in Int /\ w.steps[i] \in Int
  <2>1. Pow(i) \in Nat \ {0}
    BY PowIsPositive
  <2>2. ticks \div Pow(i) \in Int
    BY <2>1
  <2>. QED
    BY <2>2, <1>2 DEF Digit
<1>4. ASSUME NEW i \in 0 .. n, NEW x PROVE E(i, x) \in Int
  BY <1>3
<1>5. PICK step : step = [y \in (1 .. n) \X Int |-> E(y[1], y[2])]
  OBVIOUS
<1>6. step \in [(1 .. n) \X Int -> Int]
  <2>1. ASSUME NEW y \in (1 .. n) \X Int PROVE E(y[1], y[2]) \in Int
    <3>1. y[1] \in 0 .. n
      OBVIOUS
    <3> HIDE DEF E
    <3>. QED
      BY <3>1, <1>4
  <2> HIDE DEF E
  <2>. QED
    BY <2>1, <1>5
<1>7. PICK v0 : v0 = E(0, 0)
  OBVIOUS
<1>8. PICK h \in [0 .. n -> Int] : Iterates(h, n, v0, step)
  <2>1. v0 \in Int
    BY <1>2, <1>4, <1>7
  <2> HIDE DEF n
  <2>. QED
    BY <2>1, <1>2, <1>6, IterationExists
<1>9. \A x, z : E(0, x) = E(0, z)
  OBVIOUS
<1>10. \A i \in 0 .. n : h[i] = E(i, h[i - 1])
  <2>1. ASSUME NEW i \in 0 .. n PROVE h[i] = E(i, h[i - 1])
    <3> HIDE DEF E, n
    <3>1. CASE i = 0
      <4>1. h[i] = E(0, 0)
        BY <3>1, <1>7, <1>8 DEF Iterates
      <4>2. h[i] = E(0, h[i - 1])
        BY <4>1, <1>9, Zenon
      <4>. QED
        BY <4>2, <3>1
    <3>2. CASE i # 0
      <4>1. i \in 1 .. n /\ i - 1 \in 0 .. n
        BY <3>2, <1>2
      <4>2. <<i, h[i - 1]>> \in (1 .. n) \X Int
        BY <4>1
      <4>3. step[<<i, h[i - 1]>>] = E(i, h[i - 1])
        BY <4>2, <1>5
      <4>. QED
        BY <4>1, <4>3, <1>8 DEF Iterates
    <3>. QED
      BY <3>1, <3>2
  <2>. QED
    BY <2>1
<1>11. Is(h)
  <2> HIDE DEF E, n
  <2>1. h = [i \in 0 .. n |-> h[i]]
    OBVIOUS
  <2>. QED
    BY <2>1, <1>2, <1>10
<1>12. Is(raw)
  <2>1. \E g : Is(g)
    BY <1>11
  <2> HIDE DEF Is
  <2>. QED
    BY <2>1, Zenon
<1>13. \A i \in 0 .. n : raw[i] \in Int
  <2>1. ASSUME NEW i \in 0 .. n PROVE raw[i] \in Int
    <3> HIDE DEF raw
    <3>1. raw[i] = E(i, raw[i - 1])
      <4> HIDE DEF E, n
      <4>. QED
        BY <1>2, <1>12
    <3>2. E(i, raw[i - 1]) \in Int
      <4> HIDE DEF E
      <4>. QED
        BY <1>4
    <3> HIDE DEF E
    <3>. QED
      BY <3>1, <3>2
  <2>. QED
    BY <2>1
<1> HIDE DEF raw
<1>. QED
  BY <1>1, <1>2, <1>13

-----------------------------------------------------------------------------
(* The nodes of a slot in their order: what its list and their links say.    *)
(* While the slot is drained its first node is linked back to its last.      *)
Waits(w, t, pos) == w.timer[t].alive /\ ~ w.timer[t].poped /\ w.timer[t].pos = pos
Linked(w, pos, n, s, ring) ==
  /\ n \in Nat /\ s \in [1 .. n -> Timers]
  /\ \A i, j \in 1 .. n : s[i] = s[j] => i = j
  /\ w.list[pos].size = n
  /\ n > 0 => w.list[pos].head = s[1] /\ w.list[pos].tail = s[n]
  /\ \A i \in 1 .. n - 1 : w.timer[s[i]].next = s[i + 1]
  /\ ~ ring => /\ \A i \in 1 .. n : w.timer[s[i]].pre = IF i = 1 THEN Null ELSE s[i - 1]
               /\ n > 0 => w.timer[s[n]].next = Null
  /\ \A t \in Timers : Waits(w, t, pos) <=> \E i \in 1 .. n : s[i] = t
Chained(w, pos, d) == \E n, s : Linked(w, pos, n, s, pos = d)

LEMMA LinkedSame ==
  ASSUME NEW w, NEW v, NEW pos, NEW n, NEW s, NEW ring, Linked(w, pos, n, s, ring),
         v.list[pos] = w.list[pos],
         \A u \in Timers : Waits(v, u, pos) <=> Waits(w, u, pos),
         \A u \in Timers : Waits(w, u, pos) => v.timer[u].next = w.timer[u].next /\ v.timer[u].pre = w.timer[u].pre
  PROVE  Linked(v, pos, n, s, ring)
<1>1. \A i \in 1 .. n : s[i] \in Timers /\ Waits(w, s[i], pos)
  BY DEF Linked
<1>2. \A i \in 1 .. n : v.timer[s[i]].next = w.timer[s[i]].next /\ v.timer[s[i]].pre = w.timer[s[i]].pre
  BY <1>1
<1>3. n \in Nat
  BY DEF Linked
<1>4. \A i \in 1 .. n - 1 : i \in 1 .. n
  BY <1>3
<1>5. n > 0 => n \in 1 .. n
  BY <1>3
<1> HIDE DEF Waits
<1>. QED
  BY <1>2, <1>3, <1>4, <1>5, SMTT(40) DEF Linked

LEMMA LinkedPush ==
  ASSUME NEW w, NEW v, NEW pos, NEW n, NEW s, NEW t \in Timers, Linked(w, pos, n, s, FALSE), ~ Waits(w, t, pos),
         v.list[pos].head = IF n = 0 THEN t ELSE w.list[pos].head, v.list[pos].tail = t, v.list[pos].size = n + 1,
         Waits(v, t, pos), \A u \in Timers : u # t => (Waits(v, u, pos) <=> Waits(w, u, pos)),
         v.timer[t].next = Null, v.timer[t].pre = IF n = 0 THEN Null ELSE w.list[pos].tail,
         n > 0 => v.timer[w.list[pos].tail].next = t,
         \A u \in Timers : u # t /\ (n > 0 => u # w.list[pos].tail) => v.timer[u].next = w.timer[u].next,
         \A u \in Timers : u # t => v.timer[u].pre = w.timer[u].pre
  PROVE  \E r : Linked(v, pos, n + 1, r, FALSE)
<1>1. n \in Nat /\ s \in [1 .. n -> Timers]
  BY DEF Linked
<1>2. \A i \in 1 .. n : s[i] \in Timers /\ s[i] # t
  BY DEF Linked
<1>3. PICK r : r = [i \in 1 .. n + 1 |-> IF i = n + 1 THEN t ELSE s[i]]
  OBVIOUS
<1>4. r \in [1 .. n + 1 -> Timers]
  BY <1>1, <1>3
<1>5. \A i \in 1 .. n : r[i] = s[i]
  BY <1>1, <1>3
<1>6. r[n + 1] = t
  BY <1>1, <1>3
<1>7. \A i \in 1 .. n + 1 : i = n + 1 \/ i \in 1 .. n
  BY <1>1
<1>8. \A i, j \in 1 .. n + 1 : r[i] = r[j] => i = j
  BY <1>2, <1>5, <1>6, <1>7 DEF Linked
<1>9. v.list[pos].head = r[1] /\ v.list[pos].tail = r[n + 1]
  <2>1. CASE n = 0
    BY <2>1, <1>6
  <2>2. CASE n # 0
    <3>1. 1 \in 1 .. n
      BY <1>1, <2>2
    <3>. QED
      BY <3>1, <2>2, <1>1, <1>5, <1>6 DEF Linked
  <2>. QED
    BY <2>1, <2>2
<1>10. ASSUME NEW i \in 1 .. (n + 1) - 1 PROVE v.timer[r[i]].next = r[i + 1]
  <2>1. i \in 1 .. n /\ n > 0 /\ w.list[pos].tail = s[n] /\ n \in 1 .. n
    BY <1>1 DEF Linked
  <2>2. CASE i = n
    BY <2>1, <2>2, <1>5, <1>6
  <2>3. CASE i # n
    <3>1. i \in 1 .. n - 1 /\ i + 1 \in 1 .. n
      BY <2>1, <2>3, <1>1
    <3>2. s[i] # s[n]
      BY <2>1, <2>3 DEF Linked
    <3>3. v.timer[s[i]].next = w.timer[s[i]].next
      BY <3>2, <2>1, <1>2
    <3>4. w.timer[s[i]].next = s[i + 1]
      BY <3>1 DEF Linked
    <3>. QED
      BY <3>1, <3>3, <3>4, <2>1, <1>5
  <2>. QED
    BY <2>2, <2>3
<1>11. ASSUME NEW i \in 1 .. n + 1 PROVE v.timer[r[i]].pre = IF i = 1 THEN Null ELSE r[i - 1]
  <2>1. CASE i = n + 1
    <3>1. CASE n = 0
      BY <3>1, <2>1, <1>6
    <3>2. CASE n # 0
      <4>1. i # 1 /\ i - 1 = n /\ n \in 1 .. n /\ w.list[pos].tail = s[n]
        BY <3>2, <2>1, <1>1 DEF Linked
      <4>. QED
        BY <4>1, <3>2, <2>1, <1>5, <1>6
    <3>. QED
      BY <3>1, <3>2
  <2>2. CASE i \in 1 .. n
    <3>1. v.timer[s[i]].pre = w.timer[s[i]].pre
      BY <2>2, <1>2
    <3>2. w.timer[s[i]].pre = IF i = 1 THEN Null ELSE s[i - 1]
      BY <2>2 DEF Linked
    <3>3. i # 1 => i - 1 \in 1 .. n
      BY <2>2, <1>1
    <3>. QED
      BY <3>1, <3>2, <3>3, <2>2, <1>5
  <2>. QED
    BY <2>1, <2>2, <1>7
<1>12. ASSUME NEW u \in Timers PROVE Waits(v, u, pos) <=> \E i \in 1 .. n + 1 : r[i] = u
  <2> HIDE DEF Waits
  <2>1. CASE u = t
    <3>1. n + 1 \in 1 .. n + 1
      BY <1>1
    <3>. QED
      BY <3>1, <2>1, <1>6
  <2>2. CASE u # t
    <3>1. Waits(v, u, pos) <=> \E i \in 1 .. n : s[i] = u
      BY <2>2 DEF Linked
    <3>2. \A i \in 1 .. n : i \in 1 .. n + 1
      BY <1>1
    <3>. QED
      BY <3>1, <3>2, <2>2, <1>5, <1>6, <1>7
  <2>. QED
    BY <2>1, <2>2
<1>13. v.timer[r[n + 1]].next = Null /\ n + 1 \in Nat
  BY <1>1, <1>6
<1> HIDE DEF Waits
<1>14. Linked(v, pos, n + 1, r, FALSE)
  BY <1>4, <1>8, <1>9, <1>10, <1>11, <1>12, <1>13 DEF Linked
<1>. QED
  BY <1>14

(* The first node leaves; of the last one nothing is left.                   *)
Drops(w, v, pos, n) ==
  /\ n > 0
  /\ n = 1 => v.list[pos].size = 0
  /\ n # 1 => /\ v.list[pos].head = w.timer[w.list[pos].head].next
              /\ v.list[pos].tail = w.list[pos].tail /\ v.list[pos].size = n - 1
  /\ \A u \in Timers : Waits(v, u, pos) <=> Waits(w, u, pos) /\ u # w.list[pos].head
  /\ \A u \in Timers : u # w.list[pos].tail => v.timer[u].next = w.timer[u].next
LEMMA LinkedPop ==
  ASSUME NEW w, NEW v, NEW pos, NEW n, NEW s, NEW ring, Linked(w, pos, n, s, ring), Drops(w, v, pos, n)
  PROVE  \E r : (n = 1 => Linked(v, pos, n - 1, r, FALSE)) /\ (n # 1 => Linked(v, pos, n - 1, r, TRUE))
<1> USE DEF Linked, Drops
<1>1. PICK m \in Nat : n = m + 1
  <2>1. n - 1 \in Nat /\ n = (n - 1) + 1
    OBVIOUS
  <2>. QED
    BY <2>1
<1>2. s \in [1 .. n -> Timers] /\ n - 1 = m /\ (n # 1 <=> m > 0) /\ 1 \in 1 .. n
  BY <1>1
<1>3. PICK r : r = [i \in 1 .. m |-> s[i + 1]]
  OBVIOUS
<1>4. \A i \in 1 .. m : i + 1 \in 1 .. n /\ i + 1 # 1
  BY <1>1
<1>5. \A i \in 1 .. m : r[i] = s[i + 1]
  BY <1>3
<1>6. r \in [1 .. m -> Timers]
  BY <1>2, <1>3, <1>4
<1>7. \A i, j \in 1 .. m : r[i] = r[j] => i = j
  <2>1. ASSUME NEW i \in 1 .. m, NEW j \in 1 .. m, r[i] = r[j] PROVE i = j
    <3>1. s[i + 1] = s[j + 1]
      BY <2>1, <1>5
    <3>2. i + 1 = j + 1
      BY <3>1, <1>4
    <3>. QED
      BY <3>2
  <2>. QED
    BY <2>1
<1>8. m > 0 => v.list[pos].head = r[1] /\ v.list[pos].tail = r[m]
  <2>1. SUFFICES ASSUME m > 0 PROVE v.list[pos].head = r[1] /\ v.list[pos].tail = r[m]
    OBVIOUS
  <2>2. 1 \in 1 .. n - 1 /\ 1 \in 1 .. m /\ m \in 1 .. m /\ n # 1 /\ 1 + 1 = 2
    BY <2>1, <1>1
  <2>3. w.list[pos].head = s[1] /\ w.list[pos].tail = s[n] /\ w.timer[s[1]].next = s[1 + 1]
    BY <2>2
  <2>. QED
    BY <2>2, <2>3, <1>1, <1>5
<1>9. ASSUME NEW i \in 1 .. m - 1 PROVE v.timer[r[i]].next = r[i + 1]
  <2>1. i \in 1 .. m /\ i + 1 \in 1 .. m /\ i + 1 \in 1 .. n - 1 /\ i + 1 # n /\ n \in 1 .. n /\ i + 1 \in 1 .. n
    BY <1>1
  <2>2. w.list[pos].tail = s[n] /\ s[i + 1] # s[n] /\ s[i + 1] \in Timers
    BY <2>1
  <2>3. v.timer[s[i + 1]].next = w.timer[s[i + 1]].next
    BY <2>2
  <2>4. w.timer[s[i + 1]].next = s[(i + 1) + 1]
    BY <2>1
  <2>. QED
    BY <2>1, <2>3, <2>4, <1>5
<1>10. ASSUME NEW u \in Timers PROVE Waits(v, u, pos) <=> \E i \in 1 .. m : r[i] = u
  <2> HIDE DEF Waits
  <2>1. Waits(v, u, pos) <=> (\E i \in 1 .. n : s[i] = u) /\ u # s[1]
    OBVIOUS
  <2>2. \A i \in 1 .. n : i # 1 => i - 1 \in 1 .. m /\ (i - 1) + 1 = i
    BY <1>1
  <2>3. \A i \in 1 .. m : s[i + 1] # s[1]
    BY <1>2, <1>4
  <2>4. ASSUME NEW i \in 1 .. n, s[i] = u, u # s[1] PROVE \E j \in 1 .. m : r[j] = u
    <3>1. i - 1 \in 1 .. m /\ (i - 1) + 1 = i
      BY <2>2, <2>4
    <3>2. r[i - 1] = s[i]
      BY <3>1, <1>5
    <3>. QED
      BY <3>1, <3>2, <2>4
  <2>5. ASSUME NEW i \in 1 .. m, r[i] = u PROVE (\E j \in 1 .. n : s[j] = u) /\ u # s[1]
    BY <2>3, <2>5, <1>4, <1>5
  <2> HIDE DEF Linked
  <2>. QED
    BY <2>1, <2>4, <2>5
<1>11. v.list[pos].size = m
  BY <1>1
<1>12. Linked(v, pos, m, r, TRUE) /\ (m = 0 => Linked(v, pos, m, r, FALSE))
  <2> HIDE DEF Waits
  <2>. QED
    BY <1>6, <1>7, <1>8, <1>9, <1>10, <1>11
<1> HIDE DEF Linked, Drops
<1>13. n = 1 => m = 0
  BY <1>1
<1>14. (n = 1 => Linked(v, pos, n - 1, r, FALSE)) /\ (n # 1 => Linked(v, pos, n - 1, r, TRUE))
  BY <1>2, <1>12, <1>13
<1>. QED
  BY <1>14

(* A node between any two others leaves, or the first, or the last.          *)
Cuts(w, v, pos, n, t, before, after) ==
  /\ before = w.timer[t].pre /\ after = w.timer[t].next
  /\ v.list[pos].size = n - 1
  /\ v.list[pos].head = IF before = Null THEN after ELSE w.list[pos].head
  /\ v.list[pos].tail = IF before # Null /\ after = Null THEN before ELSE w.list[pos].tail
  /\ before # Null => v.timer[before].next = after
  /\ after # Null => v.timer[after].pre = before
  /\ \A u \in Timers : u # before /\ u # t => v.timer[u].next = w.timer[u].next
  /\ \A u \in Timers : u # after /\ u # t => v.timer[u].pre = w.timer[u].pre
  /\ \A u \in Timers : Waits(v, u, pos) <=> Waits(w, u, pos) /\ u # t
LEMMA LinkedErase ==
  ASSUME NEW w, NEW v, NEW pos, NEW n, NEW s, NEW t \in Timers, NEW before, NEW after,
         Linked(w, pos, n, s, FALSE), Waits(w, t, pos), Cuts(w, v, pos, n, t, before, after)
  PROVE  \E r : Linked(v, pos, n - 1, r, FALSE)
<1> USE DEF Cuts
<1>1. PICK k \in 1 .. n : s[k] = t
  BY DEF Linked
<1>2. PICK m \in Nat : n = m + 1 /\ n - 1 = m
  <2>1. n - 1 \in Nat /\ n = (n - 1) + 1
    BY <1>1 DEF Linked
  <2>. QED
    BY <2>1
<1>3. s \in [1 .. n -> Timers] /\ (\A i, j \in 1 .. n : s[i] = s[j] => i = j)
  BY DEF Linked
<1>4. Null \notin Timers
  BY WheelAssumption DEF Null
<1>5. before = (IF k = 1 THEN Null ELSE s[k - 1]) /\ (k # 1 => k - 1 \in 1 .. n)
  BY <1>1, <1>2 DEF Linked
<1>6. after = (IF k = n THEN Null ELSE s[k + 1]) /\ (k # n => k + 1 \in 1 .. n /\ k \in 1 .. n - 1)
  <2>1. k # n => k + 1 \in 1 .. n /\ k \in 1 .. n - 1
    BY <1>2
  <2>2. n > 0
    BY <1>2
  <2>. QED
    BY <1>1, <2>1, <2>2 DEF Linked
<1>7. PICK a : a = [i \in 1 .. m |-> IF i < k THEN i ELSE i + 1]
  OBVIOUS
<1>8. \A i \in 1 .. m : a[i] = IF i < k THEN i ELSE i + 1
  BY <1>7
<1>9. a \in [1 .. m -> 1 .. n] /\ \A i \in 1 .. m : a[i] # k
  BY <1>2, <1>7
<1>10. \A i, j \in 1 .. m : a[i] = a[j] => i = j
  BY <1>2, <1>8
<1>11. PICK r : r = [i \in 1 .. m |-> s[a[i]]]
  OBVIOUS
<1>12. \A i \in 1 .. m : r[i] = s[a[i]] /\ s[a[i]] \in Timers /\ s[a[i]] # t
  BY <1>1, <1>3, <1>9, <1>11
<1>13. r \in [1 .. m -> Timers]
  BY <1>11, <1>12
<1>14. \A i, j \in 1 .. m : r[i] = r[j] => i = j
  BY <1>3, <1>9, <1>10, <1>12
<1>15. ASSUME m > 0 PROVE v.list[pos].head = r[1] /\ v.list[pos].tail = r[m] /\ v.timer[r[m]].next = Null
  <2>1. 1 \in 1 .. m /\ m \in 1 .. m /\ n > 0 /\ n # 1
    BY <1>2, <1>15
  <2>2. w.list[pos].head = s[1] /\ w.list[pos].tail = s[n] /\ w.timer[s[n]].next = Null
    BY <2>1 DEF Linked
  <2>3. v.list[pos].head = r[1]
    <3>1. CASE k = 1
      <4>1. a[1] = k + 1 /\ k # n
        BY <3>1, <2>1, <1>8
      <4>. QED
        BY <4>1, <3>1, <2>1, <1>5, <1>6, <1>12
    <3>2. CASE k # 1
      <4>1. a[1] = 1 /\ before # Null
        BY <3>2, <2>1, <1>3, <1>4, <1>5, <1>8
      <4>. QED
        BY <4>1, <2>1, <2>2, <1>12
    <3>. QED
      BY <3>1, <3>2
  <2>4. CASE k = n
    <3>1. a[m] = k - 1 /\ k # 1
      BY <2>4, <2>1, <1>2, <1>8
    <3>2. before = r[m] /\ before # Null /\ after = Null
      BY <3>1, <2>4, <2>1, <1>4, <1>5, <1>6, <1>12
    <3>. QED
      BY <3>2, <2>3
  <2>5. CASE k # n
    <3>1. a[m] = n /\ n \in 1 .. n /\ n # k
      BY <2>5, <2>1, <1>2, <1>8
    <3>2. s[n] # before /\ s[n] # t /\ after # Null /\ s[n] \in Timers
      <4>1. k # 1 => s[n] # s[k - 1]
        BY <1>2, <1>3, <1>5, <3>1
      <4>. QED
        BY <4>1, <3>1, <2>5, <1>1, <1>3, <1>4, <1>5, <1>6
    <3>3. v.timer[s[n]].next = Null
      BY <3>2, <2>2
    <3>. QED
      BY <3>1, <3>2, <3>3, <2>1, <2>2, <2>3, <1>12
  <2>. QED
    BY <2>4, <2>5
<1>16. ASSUME NEW i \in 1 .. m - 1 PROVE v.timer[r[i]].next = r[i + 1]
  <2>1. i \in 1 .. m /\ i + 1 \in 1 .. m
    BY <1>2
  <2>2. CASE i = k - 1
    <3>1. a[i] = k - 1 /\ a[i + 1] = k + 1 /\ k # 1 /\ k # n
      BY <2>1, <2>2, <1>2, <1>8
    <3>2. before = r[i] /\ after = r[i + 1] /\ before # Null
      BY <3>1, <2>1, <1>4, <1>5, <1>6, <1>12
    <3>. QED
      BY <3>2
  <2>3. CASE i # k - 1
    <3>1. a[i + 1] = a[i] + 1 /\ a[i] \in 1 .. n - 1 /\ a[i] \in 1 .. n /\ a[i] # k - 1
      BY <2>1, <2>3, <1>2, <1>8
    <3>2. s[a[i]] # before
      BY <3>1, <2>1, <1>3, <1>4, <1>5, <1>12
    <3>3. v.timer[s[a[i]]].next = w.timer[s[a[i]]].next
      BY <3>2, <2>1, <1>12
    <3>4. w.timer[s[a[i]]].next = s[a[i] + 1]
      BY <3>1 DEF Linked
    <3>. QED
      BY <3>1, <3>3, <3>4, <2>1, <1>12
  <2>. QED
    BY <2>2, <2>3
<1>17. ASSUME NEW i \in 1 .. m PROVE v.timer[r[i]].pre = IF i = 1 THEN Null ELSE r[i - 1]
  <2>1. i # 1 => i - 1 \in 1 .. m
    BY <1>2
  <2>2. CASE i = k
    <3>1. a[i] = k + 1 /\ (i # 1 => a[i - 1] = k - 1) /\ k # n
      BY <2>1, <2>2, <1>2, <1>8
    <3>2. after = r[i] /\ after # Null
      BY <3>1, <1>4, <1>6, <1>12
    <3>3. before = IF i = 1 THEN Null ELSE r[i - 1]
      BY <3>1, <2>1, <2>2, <1>5, <1>12
    <3>. QED
      BY <3>2, <3>3
  <2>3. CASE i # k
    <3>1. (i # 1 => a[i - 1] = a[i] - 1) /\ a[i] \in 1 .. n /\ a[i] # k + 1 /\ (i = 1 <=> a[i] = 1)
      BY <2>1, <2>3, <1>2, <1>8
    <3>2. s[a[i]] # after
      BY <3>1, <1>3, <1>4, <1>6, <1>12
    <3>3. v.timer[s[a[i]]].pre = w.timer[s[a[i]]].pre
      BY <3>2, <1>12
    <3>4. w.timer[s[a[i]]].pre = IF a[i] = 1 THEN Null ELSE s[a[i] - 1]
      BY <3>1 DEF Linked
    <3>. QED
      BY <3>1, <3>3, <3>4, <2>1, <1>12
  <2>. QED
    BY <2>2, <2>3
<1>18. ASSUME NEW u \in Timers PROVE Waits(v, u, pos) <=> \E i \in 1 .. m : r[i] = u
  <2> HIDE DEF Waits
  <2>1. Waits(v, u, pos) <=> (\E j \in 1 .. n : s[j] = u) /\ u # t
    BY DEF Linked
  <2>2. ASSUME NEW j \in 1 .. n, s[j] = u, u # t PROVE \E i \in 1 .. m : r[i] = u
    <3>1. PICK i \in 1 .. m : a[i] = j
      <4>1. j # k
        BY <2>2, <1>1
      <4>2. CASE j < k
        BY <4>2, <1>2, <1>8
      <4>3. CASE j > k
        <5>1. j - 1 \in 1 .. m /\ ~ (j - 1 < k) /\ (j - 1) + 1 = j
          BY <4>3, <1>2
        <5>. QED
          BY <5>1, <1>8
      <4>. QED
        BY <4>1, <4>2, <4>3
    <3>. QED
      BY <3>1, <2>2, <1>12
  <2>3. ASSUME NEW i \in 1 .. m, r[i] = u PROVE (\E j \in 1 .. n : s[j] = u) /\ u # t
    BY <2>3, <1>9, <1>12
  <2>. QED
    BY <2>1, <2>2, <2>3
<1>19. v.list[pos].size = m
  BY <1>2
<1>20. Linked(v, pos, m, r, FALSE)
  <2> HIDE DEF Waits
  <2>. QED
    BY <1>13, <1>14, <1>15, <1>16, <1>17, <1>18, <1>19 DEF Linked
<1>. QED
  BY <1>2, <1>20

-----------------------------------------------------------------------------
Node == Timers \cup {Null}
Spot == Places \cup {Nowhere}
TimerRec == {r \in [exec : Int, interval : Int, repeats : Int, once : BOOLEAN, pos : Spot, poped : BOOLEAN,
                    alive : BOOLEAN, made : BOOLEAN, pre : Node, next : Node] : r.alive => r.made}
ListRec == [head : Node, tail : Node, size : Nat]
Why == {"no", "link", "range", "refilled", "unplaced"}
Wheels == [steps : [Layer -> Int], cnts : [Layer -> Int], last : Int, list : [Places -> ListRec],
           timer : [Timers -> TimerRec], timeouts : Seq(Timers), draining : Spot, broken : Why]
IsRecord(y) == y = [steps |-> y.steps, cnts |-> y.cnts, last |-> y.last, list |-> y.list, timer |-> y.timer,
                    timeouts |-> y.timeouts, draining |-> y.draining, broken |-> y.broken]
Alike(x, y) == y.steps = x.steps /\ y.last = x.last /\ y.timeouts = x.timeouts /\ y.draining = x.draining /\ y.broken = x.broken

LEMMA WheelIsRecord ==
  ASSUME NEW x \in Wheels
  PROVE  IsRecord(x)
  BY DEF Wheels, IsRecord
LEMMA RecordIsWheel ==
  ASSUME NEW y, IsRecord(y), y.steps \in [Layer -> Int], y.cnts \in [Layer -> Int], y.last \in Int,
         y.list \in [Places -> ListRec], y.timer \in [Timers -> TimerRec], y.timeouts \in Seq(Timers),
         y.draining \in Spot, y.broken \in Why
  PROVE  y \in Wheels
  BY DEF IsRecord, Wheels

(* What the list and the timers of a wheel are after a push.                 *)
ListAfter(x, y, pos, head, tail, size) ==
  /\ y.list[pos].head = head /\ y.list[pos].tail = tail /\ y.list[pos].size = size
  /\ \A p \in Places : p # pos => y.list[p] = x.list[p]
SameState(r, q) == q.alive = r.alive /\ q.poped = r.poped /\ q.pos = r.pos
NewLinks(r, q, pre, next) == q \in TimerRec /\ q.pre = pre /\ q.next = next /\ SameState(r, q)
LEMMA NewPreNext ==
  ASSUME NEW r \in TimerRec, NEW a \in Node, NEW b \in Node, NEW q, q = [r EXCEPT !.pre = a, !.next = b]
  PROVE  NewLinks(r, q, a, b)
  BY DEF TimerRec, SameState, NewLinks
LEMMA NewNext ==
  ASSUME NEW r \in TimerRec, NEW b \in Node, NEW q, q = [r EXCEPT !.next = b]
  PROVE  NewLinks(r, q, r.pre, b)
  BY DEF TimerRec, SameState, NewLinks
LEMMA NewPre ==
  ASSUME NEW r \in TimerRec, NEW a \in Node, NEW q, q = [r EXCEPT !.pre = a]
  PROVE  NewLinks(r, q, a, r.next)
  BY DEF TimerRec, SameState, NewLinks

LEMMA PushNodeDoes ==
  ASSUME NEW y \in Wheels, NEW pos \in Places, NEW t \in Timers, NEW l, l = y.list[pos],
         l.size # 0 => l.tail \in Timers /\ l.tail # t
  PROVE  /\ PushNode(y, pos, t) \in Wheels /\ Alike(y, PushNode(y, pos, t)) /\ PushNode(y, pos, t).cnts = y.cnts
         /\ ListAfter(y, PushNode(y, pos, t), pos, IF l.size = 0 THEN t ELSE l.head, t, l.size + 1)
         /\ PushNode(y, pos, t).timer[t].next = Null
         /\ PushNode(y, pos, t).timer[t].pre = IF l.size = 0 THEN Null ELSE l.tail
         /\ l.size # 0 => PushNode(y, pos, t).timer[l.tail].next = t
         /\ \A u \in Timers : u # t /\ (l.size # 0 => u # l.tail) => PushNode(y, pos, t).timer[u].next = y.timer[u].next
         /\ \A u \in Timers : u # t => PushNode(y, pos, t).timer[u].pre = y.timer[u].pre
         /\ \A u \in Timers : SameState(y.timer[u], PushNode(y, pos, t).timer[u])
<1>1. PICK v : v = PushNode(y, pos, t)
  OBVIOUS
<1>2. y.timer \in [Timers -> TimerRec] /\ y.list \in [Places -> ListRec] /\ l \in ListRec
  BY DEF Wheels
<1>3. y.steps \in [Layer -> Int] /\ y.cnts \in [Layer -> Int] /\ y.last \in Int /\ y.timeouts \in Seq(Timers)
      /\ y.draining \in Spot /\ y.broken \in Why
  BY DEF Wheels
<1>4. IsRecord(y)
  BY WheelIsRecord
<1>5. CASE l.size = 0
  <2>1. v = [y EXCEPT !.timer[t].pre = Null, !.timer[t].next = Null, !.list[pos] = [head |-> t, tail |-> t, size |-> 1]]
    BY <1>1, <1>5 DEF PushNode, SetList, Wheels
  <2>2. Alike(y, v) /\ v.cnts = y.cnts /\ IsRecord(v)
    BY <1>4, <2>1 DEF IsRecord, Alike
  <2>3. v.timer = [y.timer EXCEPT ![t].pre = Null, ![t].next = Null]
    BY <2>1 DEF Wheels
  <2>4. v.list = [y.list EXCEPT ![pos] = [head |-> t, tail |-> t, size |-> 1]]
    BY <2>1 DEF Wheels
  <2>5. v.timer[t] = [y.timer[t] EXCEPT !.pre = Null, !.next = Null]
    BY <1>2, <2>3
  <2>6. \A u \in Timers : u # t => v.timer[u] = y.timer[u]
    BY <1>2, <2>3
  <2>7. v.timer[t] \in TimerRec /\ v.timer[t].pre = Null /\ v.timer[t].next = Null /\ SameState(y.timer[t], v.timer[t])
    <3>1. Null \in Node /\ y.timer[t] \in TimerRec
      BY <1>2 DEF Node
    <3>2. NewLinks(y.timer[t], v.timer[t], Null, Null)
      BY <3>1, <2>5, NewPreNext, Zenon
    <3>. QED
      BY <3>2 DEF NewLinks
  <2>8. v.timer \in [Timers -> TimerRec]
    <3>1. v.timer = [u \in Timers |-> v.timer[u]]
      BY <1>2, <2>3
    <3>2. \A u \in Timers : v.timer[u] \in TimerRec
      BY <1>2, <2>6, <2>7
    <3>. QED
      BY <3>1, <3>2
  <2>9. v.list \in [Places -> ListRec]
    BY <1>2, <2>4 DEF ListRec, Node
  <2>10. v \in Wheels
    BY <1>3, <2>2, <2>8, <2>9, RecordIsWheel DEF Alike
  <2>11. ListAfter(y, v, pos, IF l.size = 0 THEN t ELSE l.head, t, l.size + 1)
    BY <1>2, <1>5, <2>4 DEF ListAfter
  <2>12. \A u \in Timers : SameState(y.timer[u], v.timer[u])
    BY <2>6, <2>7 DEF SameState
  <2>. QED
    BY <1>1, <1>5, <2>2, <2>6, <2>7, <2>10, <2>11, <2>12
<1>6. CASE l.size # 0
  <2> DEFINE a == l.tail
  <2>1. v = [y EXCEPT !.timer[a].next = t, !.timer[t].pre = a, !.timer[t].next = Null,
                      !.list[pos] = [l EXCEPT !.tail = t, !.size = @ + 1]]
    BY <1>1, <1>6 DEF PushNode, SetList, Wheels
  <2>2. Alike(y, v) /\ v.cnts = y.cnts /\ IsRecord(v)
    BY <1>4, <2>1 DEF IsRecord, Alike
  <2>3. v.timer = [y.timer EXCEPT ![a].next = t, ![t].pre = a, ![t].next = Null]
    BY <2>1 DEF Wheels
  <2>4. v.list = [y.list EXCEPT ![pos] = [l EXCEPT !.tail = t, !.size = @ + 1]]
    BY <2>1 DEF Wheels
  <2>5. a \in Timers /\ a # t
    BY <1>6
  <2>6. v.timer[t] = [y.timer[t] EXCEPT !.pre = a, !.next = Null]
    BY <1>2, <2>3, <2>5 DEF Null
  <2>7. v.timer[a] = [y.timer[a] EXCEPT !.next = t]
    BY <1>2, <2>3, <2>5
  <2>8. \A u \in Timers : u # t /\ u # a => v.timer[u] = y.timer[u]
    BY <1>2, <2>3, <2>5
  <2>9. v.timer[t] \in TimerRec /\ v.timer[t].pre = a /\ v.timer[t].next = Null /\ SameState(y.timer[t], v.timer[t])
    <3>1. a \in Node /\ Null \in Node /\ y.timer[t] \in TimerRec
      BY <1>2, <2>5 DEF Node
    <3> HIDE DEF a
    <3>2. NewLinks(y.timer[t], v.timer[t], a, Null)
      BY <3>1, <2>6, NewPreNext, Zenon
    <3>. QED
      BY <3>2 DEF NewLinks
  <2>10. v.timer[a] \in TimerRec /\ v.timer[a].next = t /\ v.timer[a].pre = y.timer[a].pre /\ SameState(y.timer[a], v.timer[a])
    BY <1>2, <2>5, <2>7 DEF TimerRec, Node, SameState
  <2> HIDE DEF a
  <2>11. v.timer \in [Timers -> TimerRec]
    <3>1. v.timer = [u \in Timers |-> v.timer[u]]
      BY <1>2, <2>3
    <3>2. \A u \in Timers : v.timer[u] \in TimerRec
      BY <1>2, <2>8, <2>9, <2>10
    <3>. QED
      BY <3>1, <3>2
  <2>12. v.list \in [Places -> ListRec]
    <3>1. PICK q : q = [l EXCEPT !.tail = t, !.size = @ + 1]
      OBVIOUS
    <3>2. q = [head |-> l.head, tail |-> t, size |-> l.size + 1]
      BY <1>2, <3>1 DEF ListRec
    <3>3. q \in ListRec
      BY <1>2, <3>2 DEF ListRec, Node
    <3>. QED
      BY <3>1, <3>3, <1>2, <2>4
  <2>13. v \in Wheels
    BY <1>3, <2>2, <2>11, <2>12, RecordIsWheel DEF Alike
  <2>14. ListAfter(y, v, pos, IF l.size = 0 THEN t ELSE l.head, t, l.size + 1)
    BY <1>2, <1>6, <2>4 DEF ListAfter, ListRec
  <2>15. \A u \in Timers : SameState(y.timer[u], v.timer[u])
    BY <2>8, <2>9, <2>10 DEF SameState
  <2>16. a = l.tail
    BY DEF a
  <2>. QED
    BY <1>1, <1>6, <2>2, <2>8, <2>9, <2>10, <2>13, <2>14, <2>15, <2>16
<1>. QED
  BY <1>5, <1>6

-----------------------------------------------------------------------------
WaitsIn(w, i) == {t \in Timers : \E pos \in Places : pos[1] = i /\ Waits(w, t, pos)}
Counted(w, i) == IsFiniteSet(WaitsIn(w, i)) /\ w.cnts[i] = Cardinality(WaitsIn(w, i))
Rest(w, d) == (\A pos \in Places : Chained(w, pos, d)) /\ (\A i \in Layer : Counted(w, i))

LEMMA OneMoreWaits ==
  ASSUME NEW x, NEW v, NEW pos \in Places, NEW t \in Timers, \A i \in Layer : Counted(x, i),
         \A p \in Places : ~ Waits(x, t, p), \A p \in Places : Waits(v, t, p) <=> p = pos,
         \A u \in Timers, p \in Places : u # t => (Waits(v, u, p) <=> Waits(x, u, p)),
         x.cnts \in [Layer -> Int], v.cnts = [x.cnts EXCEPT ![pos[1]] = @ + 1]
  PROVE  \A i \in Layer : Counted(v, i)
<1> HIDE DEF Waits
<1>1. TAKE i \in Layer
<1>2. IsFiniteSet(WaitsIn(x, i)) /\ x.cnts[i] = Cardinality(WaitsIn(x, i)) /\ t \notin WaitsIn(x, i)
  BY DEF Counted, WaitsIn
<1>3. CASE i = pos[1]
  <2>1. WaitsIn(v, i) = WaitsIn(x, i) \cup {t}
    BY <1>3 DEF WaitsIn
  <2>2. v.cnts[i] = x.cnts[i] + 1
    BY <1>3
  <2>3. IsFiniteSet(WaitsIn(x, i) \cup {t}) /\ Cardinality(WaitsIn(x, i) \cup {t}) = Cardinality(WaitsIn(x, i)) + 1
    BY <1>2, FS_AddElement
  <2>. QED
    BY <2>1, <2>2, <2>3, <1>2 DEF Counted
<1>4. CASE i # pos[1]
  <2>1. WaitsIn(v, i) = WaitsIn(x, i)
    BY <1>4 DEF WaitsIn
  <2>2. v.cnts[i] = x.cnts[i]
    BY <1>4
  <2>. QED
    BY <2>1, <2>2, <1>2 DEF Counted
<1>. QED
  BY <1>3, <1>4

LEMMA OneLessWaits ==
  ASSUME NEW x, NEW v, NEW pos \in Places, NEW t \in Timers, \A i \in Layer : Counted(x, i),
         Waits(x, t, pos), \A p \in Places : Waits(x, t, p) => p = pos,
         \A u \in Timers, p \in Places : Waits(v, u, p) <=> Waits(x, u, p) /\ u # t,
         x.cnts \in [Layer -> Int], v.cnts = [x.cnts EXCEPT ![pos[1]] = @ - 1]
  PROVE  \A i \in Layer : Counted(v, i)
<1> HIDE DEF Waits
<1>1. TAKE i \in Layer
<1>2. IsFiniteSet(WaitsIn(x, i)) /\ x.cnts[i] = Cardinality(WaitsIn(x, i))
  BY DEF Counted
<1>3. CASE i = pos[1]
  <2>1. WaitsIn(v, i) = WaitsIn(x, i) \ {t}
    BY <1>3 DEF WaitsIn
  <2>2. v.cnts[i] = x.cnts[i] - 1
    BY <1>3
  <2>3. t \in WaitsIn(x, i)
    BY <1>3 DEF WaitsIn
  <2>. QED
    BY <2>1, <2>2, <2>3, <1>2, FS_RemoveElement DEF Counted
<1>4. CASE i # pos[1]
  <2>1. WaitsIn(v, i) = WaitsIn(x, i)
    BY <1>4 DEF WaitsIn
  <2>2. v.cnts[i] = x.cnts[i]
    BY <1>4
  <2>. QED
    BY <2>1, <2>2, <1>2 DEF Counted
<1>. QED
  BY <1>3, <1>4

(* A timer that waits nowhere is put into the slot pos, and counted.         *)
Enter(x, pos, t) == PushNode([x EXCEPT !.timer[t].pos = pos, !.timer[t].poped = FALSE, !.cnts[pos[1]] = @ + 1], pos, t)
LEMMA EnterKeeps ==
  ASSUME NEW x \in Wheels, NEW d \in Spot, Rest(x, d), NEW t \in Timers, x.timer[t].alive,
         \A p \in Places : ~ Waits(x, t, p), NEW pos \in Places, pos # d
  PROVE  Enter(x, pos, t) \in Wheels /\ Alike(x, Enter(x, pos, t)) /\ Rest(Enter(x, pos, t), d)
         /\ \A p \in Places : p # pos => Enter(x, pos, t).list[p] = x.list[p]
<1>1. PICK y : y = [x EXCEPT !.timer[t].pos = pos, !.timer[t].poped = FALSE, !.cnts[pos[1]] = @ + 1]
  OBVIOUS
<1>2. PICK v : v = Enter(x, pos, t)
  OBVIOUS
<1>3. v = PushNode(y, pos, t)
  BY <1>1, <1>2, Zenon DEF Enter
<1>4. x.timer \in [Timers -> TimerRec] /\ x.list \in [Places -> ListRec] /\ x.cnts \in [Layer -> Int]
  BY DEF Wheels
<1>5. x.steps \in [Layer -> Int] /\ x.last \in Int /\ x.timeouts \in Seq(Timers) /\ x.draining \in Spot /\ x.broken \in Why
  BY DEF Wheels
<1>6. IsRecord(x)
  BY WheelIsRecord
<1>7. pos[1] \in Layer
  BY DEF Places
<1>8. Alike(x, y) /\ y.list = x.list /\ IsRecord(y)
  BY <1>1, <1>6 DEF IsRecord, Alike
<1>9. y.timer = [x.timer EXCEPT ![t].pos = pos, ![t].poped = FALSE] /\ y.cnts = [x.cnts EXCEPT ![pos[1]] = @ + 1]
  BY <1>1 DEF Wheels
<1>10. y.timer[t] = [x.timer[t] EXCEPT !.pos = pos, !.poped = FALSE]
  BY <1>4, <1>9
<1>11. \A u \in Timers : u # t => y.timer[u] = x.timer[u]
  BY <1>4, <1>9
<1>12. y.timer[t] \in TimerRec /\ y.timer[t].pos = pos /\ y.timer[t].poped = FALSE /\ y.timer[t].alive = x.timer[t].alive
  <2>1. PICK r \in TimerRec : r = x.timer[t]
    BY <1>4
  <2>2. PICK q : q = [r EXCEPT !.pos = pos, !.poped = FALSE]
    OBVIOUS
  <2>3. pos \in Spot
    BY DEF Spot
  <2>4. q \in TimerRec /\ q.pos = pos /\ q.poped = FALSE /\ q.alive = r.alive
    BY <2>2, <2>3 DEF TimerRec
  <2>. QED
    BY <2>1, <2>2, <2>4, <1>10
<1>13. y \in Wheels
  <2>1. y.timer = [u \in Timers |-> y.timer[u]]
    BY <1>4, <1>9
  <2>2. \A u \in Timers : y.timer[u] \in TimerRec
    BY <1>4, <1>11, <1>12
  <2>3. y.timer \in [Timers -> TimerRec]
    BY <2>1, <2>2
  <2>4. y.cnts \in [Layer -> Int]
    BY <1>4, <1>7, <1>9
  <2>. QED
    BY <2>3, <2>4, <1>4, <1>5, <1>8, RecordIsWheel DEF Alike
<1>14. PICK n, s : Linked(x, pos, n, s, FALSE)
  <2>1. (pos = d) = FALSE
    OBVIOUS
  <2>2. PICK n, s : Linked(x, pos, n, s, pos = d)
    BY DEF Rest, Chained
  <2>3. Linked(x, pos, n, s, FALSE)
    BY <2>1, <2>2, Zenon
  <2>. QED
    BY <2>3
<1>15. PICK l : l = x.list[pos]
  OBVIOUS
<1>16. n \in Nat /\ l.size = n
  BY <1>14, <1>15 DEF Linked
<1>17. n # 0 => l.tail \in Timers /\ Waits(x, l.tail, pos) /\ l.tail # t
  <2> HIDE DEF Waits
  <2>1. n # 0 => n \in 1 .. n /\ l.tail = s[n]
    BY <1>14, <1>15, <1>16 DEF Linked
  <2>2. n # 0 => s[n] \in Timers /\ Waits(x, s[n], pos)
    BY <1>14, <2>1 DEF Linked
  <2>. QED
    BY <2>1, <2>2
<1>18. /\ v \in Wheels /\ Alike(y, v) /\ v.cnts = y.cnts
       /\ ListAfter(y, v, pos, IF n = 0 THEN t ELSE l.head, t, n + 1)
       /\ v.timer[t].next = Null
       /\ v.timer[t].pre = IF n = 0 THEN Null ELSE l.tail
       /\ n # 0 => v.timer[l.tail].next = t
       /\ \A u \in Timers : u # t /\ (n # 0 => u # l.tail) => v.timer[u].next = y.timer[u].next
       /\ \A u \in Timers : u # t => v.timer[u].pre = y.timer[u].pre
       /\ \A u \in Timers : SameState(y.timer[u], v.timer[u])
  <2>1. l = y.list[pos]
    BY <1>8, <1>15
  <2>. QED
    BY <2>1, <1>3, <1>13, <1>16, <1>17, PushNodeDoes
<1>19. \A u \in Timers, p \in Places : u # t => (Waits(v, u, p) <=> Waits(x, u, p))
  BY <1>11, <1>18 DEF Waits, SameState
<1>20. \A p \in Places : Waits(v, t, p) <=> p = pos
  BY <1>12, <1>18 DEF Waits, SameState
<1>21. \A i \in Layer : Counted(v, i)
  <2>1. \A i \in Layer : Counted(x, i)
    BY DEF Rest
  <2>2. v.cnts = [x.cnts EXCEPT ![pos[1]] = @ + 1]
    BY <1>9, <1>18
  <2> HIDE DEF Waits
  <2>. QED
    BY <2>1, <2>2, <1>4, <1>19, <1>20, OneMoreWaits
<1>22. \A p \in Places : p # pos => v.list[p] = x.list[p]
  BY <1>8, <1>18 DEF ListAfter
<1>23. ASSUME NEW p \in Places, p # pos PROVE Chained(v, p, d)
  <2>1. PICK m, r : Linked(x, p, m, r, p = d)
    BY DEF Rest, Chained
  <2>2. \A u \in Timers : Waits(x, u, p) => u # t /\ (n # 0 => u # l.tail)
    BY <1>17, <1>23 DEF Waits
  <2> HIDE DEF Waits
  <2>3. \A u \in Timers : Waits(v, u, p) <=> Waits(x, u, p)
    BY <1>19, <1>20, <1>23
  <2>4. \A u \in Timers : Waits(x, u, p) => v.timer[u].next = x.timer[u].next /\ v.timer[u].pre = x.timer[u].pre
    BY <2>2, <1>11, <1>18
  <2>5. v.list[p] = x.list[p]
    BY <1>22, <1>23
  <2>6. Linked(v, p, m, r, p = d)
    BY <2>1, <2>3, <2>4, <2>5, LinkedSame
  <2>. QED
    BY <2>6 DEF Chained
<1>24. Chained(v, pos, d)
  <2> HIDE DEF Waits
  <2>1. v.list[pos].head = (IF n = 0 THEN t ELSE l.head) /\ v.list[pos].tail = t /\ v.list[pos].size = n + 1
    BY <1>18 DEF ListAfter
  <2>2. \A u \in Timers : u # t => (Waits(v, u, pos) <=> Waits(x, u, pos))
    BY <1>19
  <2>3. Waits(v, t, pos)
    BY <1>20
  <2>4. n > 0 <=> n # 0
    BY <1>16
  <2>5. n > 0 => v.timer[x.list[pos].tail].next = t
    BY <2>4, <1>15, <1>18
  <2>6. \A u \in Timers : u # t /\ (n > 0 => u # x.list[pos].tail) => v.timer[u].next = x.timer[u].next
    BY <2>4, <1>11, <1>15, <1>18
  <2>7. \A u \in Timers : u # t => v.timer[u].pre = x.timer[u].pre
    BY <1>11, <1>18
  <2>8. v.timer[t].next = Null /\ v.timer[t].pre = IF n = 0 THEN Null ELSE x.list[pos].tail
    BY <1>15, <1>18
  <2>9. v.list[pos].head = IF n = 0 THEN t ELSE x.list[pos].head
    BY <2>1, <1>15
  <2>10. ~ Waits(x, t, pos)
    OBVIOUS
  <2>11. PICK r : Linked(v, pos, n + 1, r, FALSE)
    BY <1>14, <2>1, <2>2, <2>3, <2>5, <2>6, <2>7, <2>8, <2>9, <2>10, LinkedPush
  <2>12. (pos = d) = FALSE
    OBVIOUS
  <2>13. Linked(v, pos, n + 1, r, pos = d)
    BY <2>11, <2>12, Zenon
  <2>. QED
    BY <2>13 DEF Chained
<1>25. Rest(v, d)
  BY <1>21, <1>23, <1>24 DEF Rest
<1>26. Alike(x, v)
  BY <1>8, <1>18 DEF Alike
<1>. QED
  BY <1>2, <1>18, <1>22, <1>25, <1>26

-----------------------------------------------------------------------------
(* One link of one timer changes.                                            *)
PreChanged(T, S, a, p) ==
  /\ S \in [Timers -> TimerRec] /\ S[a].pre = p
  /\ \A u \in Timers : SameState(T[u], S[u]) /\ S[u].next = T[u].next /\ (u # a => S[u].pre = T[u].pre)
NextChanged(T, S, a, p) ==
  /\ S \in [Timers -> TimerRec] /\ S[a].next = p
  /\ \A u \in Timers : SameState(T[u], S[u]) /\ S[u].pre = T[u].pre /\ (u # a => S[u].next = T[u].next)
LEMMA ChangePre ==
  ASSUME NEW T \in [Timers -> TimerRec], NEW a \in Timers, NEW p \in Node, NEW S, S = [T EXCEPT ![a].pre = p]
  PROVE  PreChanged(T, S, a, p)
<1>1. S[a] = [T[a] EXCEPT !.pre = p] /\ (\A u \in Timers : u # a => S[u] = T[u]) /\ S = [u \in Timers |-> S[u]]
  OBVIOUS
<1>2. NewLinks(T[a], S[a], p, T[a].next)
  BY <1>1, NewPre, Zenon
<1>3. S[a] \in TimerRec /\ S[a].pre = p /\ S[a].next = T[a].next /\ SameState(T[a], S[a])
  BY <1>2 DEF NewLinks
<1>4. \A u \in Timers : S[u] \in TimerRec
  BY <1>1, <1>3
<1>5. S \in [Timers -> TimerRec]
  BY <1>1, <1>4
<1>. QED
  BY <1>1, <1>3, <1>5 DEF PreChanged, SameState
LEMMA ChangeNext ==
  ASSUME NEW T \in [Timers -> TimerRec], NEW a \in Timers, NEW p \in Node, NEW S, S = [T EXCEPT ![a].next = p]
  PROVE  NextChanged(T, S, a, p)
<1>1. S[a] = [T[a] EXCEPT !.next = p] /\ (\A u \in Timers : u # a => S[u] = T[u]) /\ S = [u \in Timers |-> S[u]]
  OBVIOUS
<1>2. NewLinks(T[a], S[a], T[a].pre, p)
  BY <1>1, NewNext, Zenon
<1>3. S[a] \in TimerRec /\ S[a].next = p /\ S[a].pre = T[a].pre /\ SameState(T[a], S[a])
  BY <1>2 DEF NewLinks
<1>4. \A u \in Timers : S[u] \in TimerRec
  BY <1>1, <1>3
<1>5. S \in [Timers -> TimerRec]
  BY <1>1, <1>4
<1>. QED
  BY <1>1, <1>3, <1>5 DEF NextChanged, SameState

(* A list changes and at most links of timers with it.                       *)
Rewire(w, T, pos, l) == [w EXCEPT !.timer = T, !.list[pos] = l]
Rewired(w, v, T, pos, l) ==
  v \in Wheels /\ Alike(w, v) /\ v.cnts = w.cnts /\ v.timer = T /\ v.list = [w.list EXCEPT ![pos] = l]
LEMMA RewireDoes ==
  ASSUME NEW w \in Wheels, NEW T \in [Timers -> TimerRec], NEW pos \in Places, NEW l \in ListRec,
         NEW v, v = Rewire(w, T, pos, l)
  PROVE  Rewired(w, v, T, pos, l)
<1>1. w.list \in [Places -> ListRec] /\ w.steps \in [Layer -> Int] /\ w.cnts \in [Layer -> Int] /\ w.last \in Int
      /\ w.timeouts \in Seq(Timers) /\ w.draining \in Spot /\ w.broken \in Why
  BY DEF Wheels
<1>2. v.timer = T /\ v.list = [w.list EXCEPT ![pos] = l] /\ Alike(w, v) /\ v.cnts = w.cnts
  BY DEF Wheels, Rewire, Alike
<1>3. IsRecord(v)
  BY WheelIsRecord DEF Rewire, IsRecord
<1>4. v.list \in [Places -> ListRec]
  BY <1>1, <1>2
<1>5. v \in Wheels
  BY <1>1, <1>2, <1>3, <1>4, RecordIsWheel DEF Alike
<1>. QED
  BY <1>2, <1>5 DEF Rewired

\* What is the same when the first node leaves.
Popped(w, v, pos, l) ==
  /\ v \in Wheels /\ Alike(w, v) /\ v.cnts = w.cnts
  /\ \A p \in Places : p # pos => v.list[p] = w.list[p]
  /\ l.size = 1 => v.list[pos].size = 0
  /\ l.size # 1 => v.list[pos].head = w.timer[l.head].next /\ v.list[pos].tail = l.tail /\ v.list[pos].size = l.size - 1
  /\ \A u \in Timers : SameState(w.timer[u], v.timer[u])
  /\ \A u \in Timers : u # l.tail => v.timer[u].next = w.timer[u].next
  /\ \A u \in Timers : u # w.timer[l.head].next => v.timer[u].pre = w.timer[u].pre
LEMMA PopNodeDoes ==
  ASSUME NEW w \in Wheels, NEW pos \in Places, NEW l, l = w.list[pos], l.size > 0, l.size # 1 => l.tail \in Timers,
         l.size # 1 => w.timer[l.head].next \in Timers
  PROVE  Popped(w, PopNode(w, pos), pos, l)
<1>1. PICK v : v = PopNode(w, pos)
  OBVIOUS
<1>2. w.timer \in [Timers -> TimerRec] /\ w.list \in [Places -> ListRec] /\ l \in ListRec
  BY DEF Wheels
<1>3. CASE l.size = 1
  <2>1. v = [w EXCEPT !.list[pos] = Empty]
    BY <1>1, <1>3 DEF PopNode, SetList
  <2>2. v = Rewire(w, w.timer, pos, Empty)
    BY <2>1 DEF Rewire, Wheels
  <2>3. Empty \in ListRec /\ Empty.size = 0
    BY DEF Empty, ListRec, Node
  <2>4. Rewired(w, v, w.timer, pos, Empty)
    BY <2>2, <2>3, <1>2, RewireDoes
  <2>. QED
    BY <1>1, <1>2, <1>3, <2>3, <2>4 DEF Popped, Rewired, SameState
<1>4. CASE l.size # 1
  <2>1. PICK a \in Timers : a = w.timer[l.head].next
    BY <1>4
  <2>2. PICK b \in Timers : b = l.tail
    BY <1>4
  <2>3. PICK S : S = [w.timer EXCEPT ![a].pre = b]
    OBVIOUS
  <2>4. PICK T : T = [S EXCEPT ![b].next = a]
    OBVIOUS
  <2>5. PICK q : q = [l EXCEPT !.head = a, !.size = @ - 1]
    OBVIOUS
  <2>6. a \in Node /\ b \in Node /\ a # Null
    BY WheelAssumption DEF Node, Null
  <2>7. PreChanged(w.timer, S, a, b)
    BY <1>2, <2>3, <2>6, ChangePre
  <2>8. NextChanged(S, T, b, a)
    BY <2>4, <2>6, <2>7, ChangeNext DEF PreChanged
  <2>9. v = [w EXCEPT !.timer[a].pre = b, !.timer[b].next = a, !.list[pos] = q]
    BY <1>1, <1>4, <2>1, <2>2, <2>5, <2>6 DEF PopNode, SetList
  <2>10. v = Rewire(w, T, pos, q)
    BY <2>3, <2>4, <2>9 DEF Rewire, Wheels
  <2>11. q = [head |-> a, tail |-> b, size |-> l.size - 1]
    BY <1>2, <2>2, <2>5 DEF ListRec
  <2>12. q \in ListRec
    BY <1>2, <1>4, <2>6, <2>11 DEF ListRec
  <2>13. Rewired(w, v, T, pos, q)
    BY <2>8, <2>10, <2>12, RewireDoes DEF NextChanged
  <2>14. v \in Wheels /\ Alike(w, v) /\ v.cnts = w.cnts /\ v.timer = T /\ v.list[pos] = q
         /\ \A p \in Places : p # pos => v.list[p] = w.list[p]
    BY <1>2, <2>13 DEF Rewired
  <2>15. \A u \in Timers : SameState(w.timer[u], T[u])
    BY <2>7, <2>8 DEF PreChanged, NextChanged, SameState
  <2>16. \A u \in Timers : (u # b => T[u].next = w.timer[u].next) /\ (u # a => T[u].pre = w.timer[u].pre)
    BY <2>7, <2>8 DEF PreChanged, NextChanged
  <2>. QED
    BY <1>1, <1>4, <2>1, <2>2, <2>11, <2>14, <2>15, <2>16, SMTT(40) DEF Popped
<1>. QED
  BY <1>3, <1>4

(* The first node leaves its slot and its layer's count.                     *)
Leave(w, pos) == [PopNode(w, pos) EXCEPT !.timer[w.list[pos].head].poped = TRUE, !.cnts[pos[1]] = @ - 1]
HasLeft(w, v, pos, t, d) ==
  /\ v \in Wheels /\ Alike(w, v) /\ Rest(v, d) /\ v.list[pos].size = w.list[pos].size - 1
  /\ v.timer[t].alive /\ \A p \in Places : ~ Waits(v, t, p)
LEMMA LeaveKeeps ==
  ASSUME NEW w \in Wheels, NEW pos \in Places, Rest(w, pos), NEW n, n = w.list[pos].size, n > 0,
         NEW t, t = w.list[pos].head, NEW v, v = Leave(w, pos), NEW d, d = IF n = 1 THEN Nowhere ELSE pos
  PROVE  t \in Timers /\ w.timer[t].alive /\ HasLeft(w, v, pos, t, d)
<1>1. PICK s : Linked(w, pos, n, s, TRUE)
  <2>1. PICK m, s : Linked(w, pos, m, s, pos = pos)
    BY DEF Rest, Chained
  <2>2. m = n
    BY <2>1 DEF Linked
  <2>3. (pos = pos) = TRUE
    OBVIOUS
  <2>4. Linked(w, pos, n, s, TRUE)
    BY <2>1, <2>2, <2>3, Zenon
  <2>. QED
    BY <2>4
<1>2. PICK l : l = w.list[pos]
  OBVIOUS
<1>3. PICK y : y = PopNode(w, pos)
  OBVIOUS
<1>4. n \in Nat /\ l.size = n /\ l.head = s[1] /\ l.tail = s[n] /\ 1 \in 1 .. n /\ n \in 1 .. n
  BY <1>1, <1>2 DEF Linked
<1>5. \A i \in 1 .. n : s[i] \in Timers /\ Waits(w, s[i], pos)
  <2> HIDE DEF Waits
  <2>. QED
    BY <1>1 DEF Linked
<1>6. t = s[1] /\ t \in Timers /\ Waits(w, t, pos) /\ l.tail \in Timers /\ Waits(w, l.tail, pos) /\ t = l.head
  BY <1>2, <1>4, <1>5
<1>7. n # 1 => w.timer[t].next \in Timers /\ Waits(w, w.timer[t].next, pos)
  <2> HIDE DEF Waits
  <2>1. n # 1 => 1 \in 1 .. n - 1 /\ 1 + 1 \in 1 .. n
    BY <1>4
  <2>2. n # 1 => w.timer[s[1]].next = s[1 + 1]
    BY <1>1, <2>1 DEF Linked
  <2>. QED
    BY <2>1, <2>2, <1>5, <1>6
<1>8. Popped(w, y, pos, l)
  BY <1>2, <1>3, <1>4, <1>6, <1>7, PopNodeDoes
<1>9. y \in Wheels /\ Alike(w, y) /\ y.cnts = w.cnts
  BY <1>8 DEF Popped
<1>10. v = [y EXCEPT !.timer[t].poped = TRUE, !.cnts[pos[1]] = @ - 1]
  BY <1>3, Zenon DEF Leave
<1>11. y.timer \in [Timers -> TimerRec] /\ y.list \in [Places -> ListRec] /\ y.cnts \in [Layer -> Int]
  BY <1>9 DEF Wheels
<1>12. y.steps \in [Layer -> Int] /\ y.last \in Int /\ y.timeouts \in Seq(Timers) /\ y.draining \in Spot /\ y.broken \in Why
  BY <1>9 DEF Wheels
<1>13. IsRecord(y)
  BY <1>9, WheelIsRecord
<1>14. pos[1] \in Layer
  BY DEF Places
<1>15. Alike(y, v) /\ v.list = y.list /\ IsRecord(v)
  BY <1>10, <1>13 DEF IsRecord, Alike
<1>16. v.timer = [y.timer EXCEPT ![t].poped = TRUE] /\ v.cnts = [y.cnts EXCEPT ![pos[1]] = @ - 1]
  BY <1>9, <1>10 DEF Wheels
<1>17. v.timer[t] = [y.timer[t] EXCEPT !.poped = TRUE] /\ v.timer = [u \in Timers |-> v.timer[u]]
  BY <1>6, <1>11, <1>16
<1>18. \A u \in Timers : u # t => v.timer[u] = y.timer[u]
  BY <1>11, <1>16
<1>19. v.timer[t] \in TimerRec /\ v.timer[t].poped = TRUE /\ v.timer[t].alive = y.timer[t].alive
       /\ v.timer[t].next = y.timer[t].next /\ v.timer[t].pre = y.timer[t].pre
  <2>1. PICK r \in TimerRec : r = y.timer[t]
    BY <1>6, <1>11
  <2>2. PICK q : q = [r EXCEPT !.poped = TRUE]
    OBVIOUS
  <2>3. q \in TimerRec /\ q.poped = TRUE /\ q.alive = r.alive /\ q.next = r.next /\ q.pre = r.pre
    BY <2>2 DEF TimerRec
  <2>. QED
    BY <2>1, <2>2, <2>3, <1>17
<1>20. v \in Wheels
  <2>1. \A u \in Timers : v.timer[u] \in TimerRec
    BY <1>11, <1>18, <1>19
  <2>2. v.timer \in [Timers -> TimerRec]
    BY <2>1, <1>17
  <2>3. v.cnts \in [Layer -> Int]
    BY <1>11, <1>14, <1>16
  <2>. QED
    BY <2>2, <2>3, <1>11, <1>12, <1>15, RecordIsWheel DEF Alike
<1>21. \A u \in Timers, p \in Places : Waits(v, u, p) <=> Waits(w, u, p) /\ u # t
  BY <1>8, <1>18, <1>19, SMTT(40) DEF Popped, SameState, Waits
<1>22. w.timer[t].alive /\ v.timer[t].alive
  BY <1>6, <1>8, <1>19 DEF Popped, SameState, Waits
<1>23. \A u \in Timers : v.timer[u].next = y.timer[u].next /\ v.timer[u].pre = y.timer[u].pre
  BY <1>18, <1>19
<1>24. \A u \in Timers : u # l.tail => v.timer[u].next = w.timer[u].next
  BY <1>8, <1>23 DEF Popped
<1>25. \A i \in Layer : Counted(v, i)
  <2>1. \A i \in Layer : Counted(w, i)
    BY DEF Rest
  <2>2. v.cnts = [w.cnts EXCEPT ![pos[1]] = @ - 1] /\ w.cnts \in [Layer -> Int]
    BY <1>9, <1>11, <1>16
  <2>3. \A p \in Places : Waits(w, t, p) => p = pos
    BY <1>6 DEF Waits
  <2> HIDE DEF Waits
  <2>. QED
    BY <2>1, <2>2, <2>3, <1>6, <1>21, OneLessWaits, SMTT(40)
<1>26. \A p \in Places : p # pos => v.list[p] = w.list[p]
  BY <1>8, <1>15 DEF Popped
<1>27. ASSUME NEW p \in Places, p # pos PROVE Chained(v, p, d)
  <2>1. PICK m, r : Linked(w, p, m, r, p = pos)
    BY DEF Rest, Chained
  <2>2. \A u \in Timers : Waits(w, u, p) => u # t /\ u # l.tail /\ (n # 1 => u # w.timer[t].next)
    BY <1>6, <1>7, <1>27 DEF Waits
  <2>3. \A u \in Timers : Waits(w, u, p) => v.timer[u].pre = w.timer[u].pre
    <3>1. CASE n = 1
      <4>1. PopNode(w, pos).timer = w.timer
        BY <3>1, <1>2, <1>4 DEF PopNode, SetList, Wheels
      <4>. QED
        BY <4>1, <1>3, <1>23
    <3>2. CASE n # 1
      <4> HIDE DEF Waits
      <4>. QED
        BY <3>2, <2>2, <1>6, <1>8, <1>23 DEF Popped
    <3>. QED
      BY <3>1, <3>2
  <2> HIDE DEF Waits
  <2>4. \A u \in Timers : Waits(v, u, p) <=> Waits(w, u, p)
    BY <2>2, <1>21
  <2>5. \A u \in Timers : Waits(w, u, p) => v.timer[u].next = w.timer[u].next /\ v.timer[u].pre = w.timer[u].pre
    BY <2>2, <2>3, <1>24
  <2>6. v.list[p] = w.list[p]
    BY <1>26, <1>27
  <2>7. Linked(v, p, m, r, p = pos)
    BY <2>1, <2>4, <2>5, <2>6, LinkedSame
  <2>8. (p = pos) = FALSE
    BY <1>27
  <2>9. Linked(v, p, m, r, FALSE)
    BY <2>7, <2>8, Zenon
  <2>10. Linked(v, p, m, r, p = d)
    BY <2>9 DEF Linked
  <2>. QED
    BY <2>10 DEF Chained
<1>28. /\ n = 1 => v.list[pos].size = 0
       /\ n # 1 => v.list[pos].head = w.timer[l.head].next /\ v.list[pos].tail = l.tail /\ v.list[pos].size = n - 1
  BY <1>4, <1>8, <1>15 DEF Popped
<1>29. Chained(v, pos, d)
  <2> HIDE DEF Waits
  <2>1. \A u \in Timers : Waits(v, u, pos) <=> Waits(w, u, pos) /\ u # w.list[pos].head
    BY <1>21
  <2>2. \A u \in Timers : u # w.list[pos].tail => v.timer[u].next = w.timer[u].next
    BY <1>2, <1>24
  <2>3. n # 1 => /\ v.list[pos].head = w.timer[w.list[pos].head].next
                 /\ v.list[pos].tail = w.list[pos].tail /\ v.list[pos].size = n - 1
    BY <1>2, <1>28
  <2>4. Drops(w, v, pos, n)
    BY <1>28, <2>1, <2>2, <2>3 DEF Drops
  <2>5. PICK r : (n = 1 => Linked(v, pos, n - 1, r, FALSE)) /\ (n # 1 => Linked(v, pos, n - 1, r, TRUE))
    BY <1>1, <2>4, LinkedPop
  <2>6. pos # Nowhere
    BY WheelAssumption DEF Places, Nowhere, Layer
  <2>7. CASE n = 1
    <3>1. (pos = d) = FALSE
      BY <2>6, <2>7
    <3>2. Linked(v, pos, n - 1, r, pos = d)
      BY <2>5, <2>7, <3>1, Zenon
    <3>. QED
      BY <3>2 DEF Chained
  <2>8. CASE n # 1
    <3>1. (pos = d) = TRUE
      BY <2>8
    <3>2. Linked(v, pos, n - 1, r, pos = d)
      BY <2>5, <2>8, <3>1, Zenon
    <3>. QED
      BY <3>2 DEF Chained
  <2>. QED
    BY <2>7, <2>8
<1>30. Rest(v, d)
  BY <1>25, <1>27, <1>29 DEF Rest
<1>31. v.list[pos].size = n - 1
  BY <1>4, <1>28
<1>32. Alike(w, v)
  BY <1>9, <1>15 DEF Alike
<1>33. \A p \in Places : ~ Waits(v, t, p)
  BY <1>6, <1>21
<1>. QED
  BY <1>6, <1>20, <1>22, <1>30, <1>31, <1>32, <1>33 DEF HasLeft

-----------------------------------------------------------------------------
(* What erasing the node t, which lies between before and after, does.       *)
Erased(w, v, pos, l, before, after) ==
  /\ v \in Wheels /\ Alike(w, v) /\ v.cnts = w.cnts
  /\ ListAfter(w, v, pos, IF before = Null THEN after ELSE l.head,
               IF before # Null /\ after = Null THEN before ELSE l.tail, l.size - 1)
  /\ before # Null => v.timer[before].next = after
  /\ after # Null => v.timer[after].pre = before
  /\ \A u \in Timers : SameState(w.timer[u], v.timer[u])
  /\ \A u \in Timers : u # before => v.timer[u].next = w.timer[u].next
  /\ \A u \in Timers : u # after => v.timer[u].pre = w.timer[u].pre
LEMMA EraseNodeDoes ==
  ASSUME NEW w \in Wheels, NEW pos \in Places, NEW t \in Timers, NEW l, l = w.list[pos], l.size > 0,
         NEW before, NEW after, before = w.timer[t].pre, after = w.timer[t].next, before = Null => l.head = t
  PROVE  Erased(w, EraseNode(w, pos, t), pos, l, before, after)
<1>1. PICK v : v = EraseNode(w, pos, t)
  OBVIOUS
<1>2. w.timer \in [Timers -> TimerRec] /\ w.list \in [Places -> ListRec] /\ l \in ListRec
  BY DEF Wheels
<1>3. PICK k : k = [l EXCEPT !.size = @ - 1]
  OBVIOUS
<1>4. k = [head |-> l.head, tail |-> l.tail, size |-> l.size - 1] /\ ~ (k.size < 0) /\ l.head \in Node /\ l.tail \in Node
      /\ l.size - 1 \in Nat
  BY <1>2, <1>3 DEF ListRec
<1>5. before \in Node /\ after \in Node /\ Null \in Node /\ (\A a \in Node : a # Null => a \in Timers)
  BY <1>2 DEF Node, TimerRec
<1>6. \A u \in Timers : SameState(w.timer[u], w.timer[u])
  BY DEF SameState
<1>7. \A p \in Places : p # pos => \A q : [w.list EXCEPT ![pos] = q][p] = w.list[p]
  BY <1>2
<1>8. \A q : [w.list EXCEPT ![pos] = q][pos] = q
  BY <1>2
<1>9. CASE before = Null
  <2>1. PICK q : q = [k EXCEPT !.head = after]
    OBVIOUS
  <2>2. q = [head |-> after, tail |-> l.tail, size |-> l.size - 1]
    BY <1>4, <2>1
  <2>3. q \in ListRec
    BY <1>4, <1>5, <2>2 DEF ListRec
  <2>4. PICK T : T = IF after = Null THEN w.timer ELSE [w.timer EXCEPT ![after].pre = Null]
    OBVIOUS
  <2>5. T \in [Timers -> TimerRec] /\ (after # Null => PreChanged(w.timer, T, after, Null))
    <3>1. CASE after = Null
      BY <3>1, <2>4, <1>2
    <3>2. CASE after # Null
      <4>1. PreChanged(w.timer, T, after, Null)
        BY <3>2, <2>4, <1>2, <1>5, ChangePre
      <4>. QED
        BY <4>1, <3>2 DEF PreChanged
    <3>. QED
      BY <3>1, <3>2
  <2>6. v = SetList(IF after = Null THEN w ELSE [w EXCEPT !.timer[after].pre = Null], pos, q)
    <3>1. w.timer[k.head].next = after
      BY <1>4, <1>9
    <3>. QED
      BY <3>1, <1>1, <1>3, <1>4, <1>9, <2>1, Zenon DEF EraseNode
  <2>7. v = Rewire(w, T, pos, q)
    <3>1. CASE after = Null
      BY <3>1, <2>4, <2>6 DEF Rewire, SetList, Wheels
    <3>2. CASE after # Null
      BY <3>2, <2>4, <2>6 DEF Rewire, SetList, Wheels
    <3>. QED
      BY <3>1, <3>2
  <2>8. Rewired(w, v, T, pos, q)
    BY <2>3, <2>5, <2>7, RewireDoes
  <2>9. ListAfter(w, v, pos, after, l.tail, l.size - 1)
    BY <2>2, <2>8, <1>7, <1>8 DEF Rewired, ListAfter
  <2>10. \A u \in Timers : SameState(w.timer[u], T[u]) /\ T[u].next = w.timer[u].next /\ (u # after => T[u].pre = w.timer[u].pre)
    BY <1>6, <2>4, <2>5 DEF PreChanged
  <2>11. after # Null => T[after].pre = before
    BY <1>9, <2>5 DEF PreChanged
  <2>. QED
    BY <1>1, <1>9, <2>8, <2>9, <2>10, <2>11 DEF Rewired, Erased
<1>10. CASE before # Null /\ after = Null
  <2>1. PICK q : q = [k EXCEPT !.tail = before]
    OBVIOUS
  <2>2. q = [head |-> l.head, tail |-> before, size |-> l.size - 1]
    BY <1>4, <2>1
  <2>3. q \in ListRec
    BY <1>4, <1>5, <2>2 DEF ListRec
  <2>4. PICK T : T = [w.timer EXCEPT ![before].next = Null]
    OBVIOUS
  <2>5. NextChanged(w.timer, T, before, Null)
    BY <1>2, <1>5, <1>10, <2>4, ChangeNext
  <2>6. v = SetList([w EXCEPT !.timer[before].next = Null], pos, q)
    BY <1>1, <1>3, <1>4, <1>10, <2>1, Zenon DEF EraseNode
  <2>7. v = Rewire(w, T, pos, q)
    BY <2>4, <2>6 DEF Rewire, SetList, Wheels
  <2>8. Rewired(w, v, T, pos, q)
    BY <2>3, <2>5, <2>7, RewireDoes DEF NextChanged
  <2>9. ListAfter(w, v, pos, l.head, before, l.size - 1)
    BY <2>2, <2>8, <1>7, <1>8 DEF Rewired, ListAfter
  <2>. QED
    BY <1>1, <1>10, <2>5, <2>8, <2>9 DEF Rewired, Erased, NextChanged
<1>11. CASE before # Null /\ after # Null
  <2>1. PICK S : S = [w.timer EXCEPT ![before].next = after]
    OBVIOUS
  <2>2. PICK T : T = [S EXCEPT ![after].pre = before]
    OBVIOUS
  <2>3. NextChanged(w.timer, S, before, after)
    BY <1>2, <1>5, <1>11, <2>1, ChangeNext
  <2>4. PreChanged(S, T, after, before)
    BY <1>5, <1>11, <2>2, <2>3, ChangePre DEF NextChanged
  <2>5. v = SetList([w EXCEPT !.timer[before].next = after, !.timer[after].pre = before], pos, k)
    BY <1>1, <1>3, <1>4, <1>11, Zenon DEF EraseNode
  <2>6. v = Rewire(w, T, pos, k)
    <3>1. PICK a \in Timers, b \in Timers : a = before /\ b = after
      BY <1>5, <1>11
    <3>2. v = [w EXCEPT !.timer[a].next = b, !.timer[b].pre = a, !.list[pos] = k]
      BY <2>5, <3>1 DEF SetList
    <3>3. S = [w.timer EXCEPT ![a].next = b] /\ T = [S EXCEPT ![b].pre = a]
      BY <2>1, <2>2, <3>1
    <3>. QED
      BY <3>2, <3>3 DEF Rewire, Wheels
  <2>7. k \in ListRec
    BY <1>4 DEF ListRec
  <2>8. Rewired(w, v, T, pos, k)
    BY <2>4, <2>6, <2>7, RewireDoes DEF PreChanged
  <2>9. ListAfter(w, v, pos, l.head, l.tail, l.size - 1)
    BY <2>8, <1>4, <1>7, <1>8 DEF Rewired, ListAfter
  <2>10. \A u \in Timers : SameState(w.timer[u], T[u])
    BY <2>3, <2>4 DEF NextChanged, PreChanged, SameState
  <2>11. T[before].next = after /\ T[after].pre = before
    BY <1>5, <1>11, <2>3, <2>4 DEF NextChanged, PreChanged
  <2>12. \A u \in Timers : (u # before => T[u].next = w.timer[u].next) /\ (u # after => T[u].pre = w.timer[u].pre)
    BY <2>3, <2>4 DEF NextChanged, PreChanged
  <2>. QED
    BY <1>1, <1>11, <2>8, <2>9, <2>10, <2>11, <2>12 DEF Rewired, Erased
<1>. QED
  BY <1>9, <1>10, <1>11

-----------------------------------------------------------------------------
LEMMA BreakDoes ==
  ASSUME NEW w \in Wheels, NEW why \in Why
  PROVE  Break(w, why) \in Wheels /\ Break(w, why).broken = why
<1>1. PICK v : v = Break(w, why)
  OBVIOUS
<1>2. w.list \in [Places -> ListRec] /\ w.steps \in [Layer -> Int] /\ w.cnts \in [Layer -> Int] /\ w.last \in Int
      /\ w.timeouts \in Seq(Timers) /\ w.draining \in Spot /\ w.timer \in [Timers -> TimerRec]
  BY DEF Wheels
<1>3. IsRecord(v) /\ v.list = w.list /\ v.steps = w.steps /\ v.cnts = w.cnts /\ v.last = w.last
      /\ v.timeouts = w.timeouts /\ v.draining = w.draining /\ v.timer = w.timer /\ v.broken = why
  BY <1>1, WheelIsRecord DEF Break, IsRecord
<1>4. v \in Wheels
  BY <1>2, <1>3, RecordIsWheel
<1>. QED
  BY <1>1, <1>3, <1>4

(* A timer is written that waits nowhere, before and after, or whose links   *)
(* stay.                                                                     *)
Write(w, t, r) == [w EXCEPT !.timer[t] = r]
Written(w, v, t, r) ==
  /\ v \in Wheels /\ Alike(w, v) /\ v.list = w.list /\ v.cnts = w.cnts
  /\ v.timer[t] = r /\ \A u \in Timers : u # t => v.timer[u] = w.timer[u]
LEMMA WriteDoes ==
  ASSUME NEW w \in Wheels, NEW t \in Timers, NEW r \in TimerRec, NEW v, v = Write(w, t, r)
  PROVE  Written(w, v, t, r)
<1>1. w.list \in [Places -> ListRec] /\ w.steps \in [Layer -> Int] /\ w.cnts \in [Layer -> Int] /\ w.last \in Int
      /\ w.timeouts \in Seq(Timers) /\ w.draining \in Spot /\ w.timer \in [Timers -> TimerRec] /\ w.broken \in Why
  BY DEF Wheels
<1>2. v.timer = [w.timer EXCEPT ![t] = r] /\ v.list = w.list /\ Alike(w, v) /\ v.cnts = w.cnts
  BY DEF Wheels, Write, Alike
<1>3. IsRecord(v)
  BY WheelIsRecord DEF Write, IsRecord
<1>4. v.timer \in [Timers -> TimerRec] /\ v.timer[t] = r /\ \A u \in Timers : u # t => v.timer[u] = w.timer[u]
  BY <1>1, <1>2
<1>5. v \in Wheels
  BY <1>1, <1>2, <1>3, <1>4, RecordIsWheel DEF Alike
<1>. QED
  BY <1>2, <1>4, <1>5 DEF Written
Harmless(w, t, r) ==
  \/ r.pre = w.timer[t].pre /\ r.next = w.timer[t].next /\ SameState(w.timer[t], r)
  \/ (\A p \in Places : ~ Waits(w, t, p)) /\ (r.pos \notin Places \/ r.poped \/ ~ r.alive)
LEMMA WriteKeeps ==
  ASSUME NEW w, NEW t \in Timers, NEW r, NEW v, NEW d, Written(w, v, t, r), Harmless(w, t, r), Rest(w, d)
  PROVE  Rest(v, d)
<1>1. v.list = w.list /\ v.cnts = w.cnts /\ v.timer[t] = r /\ \A u \in Timers : u # t => v.timer[u] = w.timer[u]
  BY DEF Written
<1>2. \A u \in Timers, p \in Places : Waits(v, u, p) <=> Waits(w, u, p)
  BY <1>1 DEF Harmless, Waits, SameState
<1>3. \A u \in Timers, p \in Places : Waits(w, u, p) => v.timer[u].next = w.timer[u].next /\ v.timer[u].pre = w.timer[u].pre
  <2> HIDE DEF Waits
  <2>. QED
    BY <1>1 DEF Harmless
<1> HIDE DEF Waits
<1>4. ASSUME NEW p \in Places PROVE Chained(v, p, d)
  <2>1. PICK n, s : Linked(w, p, n, s, p = d)
    BY DEF Rest, Chained
  <2>2. v.list[p] = w.list[p]
    BY <1>1
  <2>3. Linked(v, p, n, s, p = d)
    BY <2>1, <2>2, <1>2, <1>3, LinkedSame
  <2>. QED
    BY <2>3 DEF Chained
<1>5. ASSUME NEW i \in Layer PROVE Counted(v, i)
  <2>1. WaitsIn(v, i) = WaitsIn(w, i)
    BY <1>2 DEF WaitsIn
  <2>. QED
    BY <2>1, <1>1 DEF Rest, Counted
<1>. QED
  BY <1>4, <1>5 DEF Rest

Corpse == [NoTimer EXCEPT !.made = TRUE]
LEMMA CorpseIsTimer == Corpse \in TimerRec /\ ~ Corpse.alive
<1>1. PICK r : r = NoTimer
  OBVIOUS
<1>2. r = [exec |-> 0, interval |-> 0, repeats |-> 0, once |-> FALSE, pos |-> Nowhere, poped |-> FALSE,
           alive |-> FALSE, made |-> FALSE, pre |-> Null, next |-> Null]
  BY <1>1 DEF NoTimer
<1>3. Corpse = [r EXCEPT !.made = TRUE]
  BY <1>1 DEF Corpse
<1>4. Corpse = [exec |-> 0, interval |-> 0, repeats |-> 0, once |-> FALSE, pos |-> Nowhere, poped |-> FALSE,
                alive |-> FALSE, made |-> TRUE, pre |-> Null, next |-> Null]
  BY <1>2, <1>3
<1>5. Null \in Node /\ Nowhere \in Spot
  BY DEF Node, Spot
<1>. QED
  BY <1>4, <1>5 DEF TimerRec
LEMMA GoneKeeps ==
  ASSUME NEW w \in Wheels, NEW t \in Timers, NEW d, Rest(w, d), \A p \in Places : ~ Waits(w, t, p)
  PROVE  Gone(w, t) \in Wheels /\ Alike(w, Gone(w, t)) /\ Rest(Gone(w, t), d)
<1>1. PICK v : v = Gone(w, t)
  OBVIOUS
<1>2. v = Write(w, t, Corpse)
  BY <1>1 DEF Gone, Write, Corpse
<1>3. Written(w, v, t, Corpse)
  BY <1>2, WriteDoes, CorpseIsTimer
<1>4. Harmless(w, t, Corpse)
  BY CorpseIsTimer DEF Harmless
<1>5. Rest(v, d)
  BY <1>3, <1>4, WriteKeeps
<1>. QED
  BY <1>1, <1>3, <1>5 DEF Written

(* A timer that waits is taken out of its slot and deleted.                  *)
Take(w, t) == Gone([EraseNode(w, w.timer[t].pos, t) EXCEPT !.cnts[w.timer[t].pos[1]] = @ - 1], t)
LEMMA TakeKeeps ==
  ASSUME NEW w \in Wheels, Rest(w, Nowhere), NEW t \in Timers, NEW pos \in Places, Waits(w, t, pos)
  PROVE  Take(w, t) \in Wheels /\ Alike(w, Take(w, t)) /\ Rest(Take(w, t), Nowhere)
<1>1. pos # Nowhere
  BY WheelAssumption DEF Places, Nowhere, Layer
<1>2. PICK n, s : Linked(w, pos, n, s, FALSE)
  <2>1. (pos = Nowhere) = FALSE
    BY <1>1
  <2>2. PICK n, s : Linked(w, pos, n, s, pos = Nowhere)
    BY DEF Rest, Chained
  <2>3. Linked(w, pos, n, s, FALSE)
    BY <2>1, <2>2, Zenon
  <2>. QED
    BY <2>3
<1>3. PICK l, before, after : l = w.list[pos] /\ before = w.timer[t].pre /\ after = w.timer[t].next
  OBVIOUS
<1>4. PICK k \in 1 .. n : s[k] = t
  BY <1>2 DEF Linked
<1>5. n \in Nat /\ l.size = n /\ n > 0 /\ l.head = s[1]
  BY <1>2, <1>3, <1>4 DEF Linked
<1>6. Null \notin Timers /\ s \in [1 .. n -> Timers] /\ (\A i, j \in 1 .. n : s[i] = s[j] => i = j)
  BY <1>2, WheelAssumption DEF Linked, Null
<1>7. before = IF k = 1 THEN Null ELSE s[k - 1]
  BY <1>2, <1>3, <1>4 DEF Linked
<1>8. after = IF k = n THEN Null ELSE s[k + 1]
  <2>1. k # n => k \in 1 .. n - 1
    BY <1>4, <1>5
  <2>. QED
    BY <2>1, <1>2, <1>3, <1>4, <1>5 DEF Linked
<1>9. (before = Null => l.head = t) /\ (before # Null => before \in Timers /\ Waits(w, before, pos))
      /\ before # t
  <2> HIDE DEF Waits
  <2>1. k # 1 => k - 1 \in 1 .. n /\ k - 1 # k
    BY <1>4, <1>5
  <2>2. \A i \in 1 .. n : Waits(w, s[i], pos)
    BY <1>2, <1>6 DEF Linked
  <2>3. k # 1 => s[k - 1] \in Timers /\ s[k - 1] # s[k] /\ Waits(w, s[k - 1], pos)
    BY <2>1, <2>2, <1>6
  <2>. QED
    BY <2>3, <1>4, <1>5, <1>6, <1>7
<1>10. (after # Null => after \in Timers /\ Waits(w, after, pos)) /\ after # t
  <2> HIDE DEF Waits
  <2>1. k # n => k + 1 \in 1 .. n /\ k + 1 # k
    BY <1>4, <1>5
  <2>2. \A i \in 1 .. n : Waits(w, s[i], pos)
    BY <1>2, <1>6 DEF Linked
  <2>3. k # n => s[k + 1] \in Timers /\ s[k + 1] # s[k] /\ Waits(w, s[k + 1], pos)
    BY <2>1, <2>2, <1>6
  <2>. QED
    BY <2>3, <1>4, <1>5, <1>6, <1>8
<1>11. PICK e : e = EraseNode(w, pos, t)
  OBVIOUS
<1>12. Erased(w, e, pos, l, before, after)
  BY <1>3, <1>5, <1>9, <1>11, EraseNodeDoes
<1>13. e \in Wheels /\ Alike(w, e) /\ e.cnts = w.cnts
  BY <1>12 DEF Erased
<1>14. PICK y : y = [e EXCEPT !.cnts[pos[1]] = @ - 1]
  OBVIOUS
<1>15. PICK v : v = Take(w, t)
  OBVIOUS
<1>16. w.timer[t].pos = pos /\ pos[1] \in Layer
  BY DEF Waits, Places
<1>17. v = Write(y, t, Corpse)
  BY <1>11, <1>14, <1>15, <1>16 DEF Take, Gone, Write, Corpse
<1>18. e.timer \in [Timers -> TimerRec] /\ e.list \in [Places -> ListRec] /\ e.cnts \in [Layer -> Int]
       /\ e.steps \in [Layer -> Int] /\ e.last \in Int /\ e.timeouts \in Seq(Timers) /\ e.draining \in Spot /\ e.broken \in Why
  BY <1>13 DEF Wheels
<1>19. Alike(e, y) /\ y.list = e.list /\ y.timer = e.timer /\ IsRecord(y)
  BY <1>13, <1>14, WheelIsRecord DEF IsRecord, Alike
<1>20. y.cnts = [e.cnts EXCEPT ![pos[1]] = @ - 1]
  BY <1>13, <1>14 DEF Wheels
<1>21. y \in Wheels
  <2>1. y.cnts \in [Layer -> Int]
    BY <1>16, <1>18, <1>20
  <2>. QED
    BY <2>1, <1>18, <1>19, RecordIsWheel DEF Alike
<1>22. Written(y, v, t, Corpse)
  BY <1>17, <1>21, WriteDoes, CorpseIsTimer
<1>23. v \in Wheels /\ Alike(w, v) /\ v.list = e.list /\ v.cnts = [w.cnts EXCEPT ![pos[1]] = @ - 1] /\ v.timer[t] = Corpse
       /\ \A u \in Timers : u # t => v.timer[u] = e.timer[u]
  BY <1>13, <1>19, <1>20, <1>22 DEF Written, Alike
<1>24. \A u \in Timers, p \in Places : Waits(v, u, p) <=> Waits(w, u, p) /\ u # t
  BY <1>12, <1>23, CorpseIsTimer DEF Erased, SameState, Waits
<1>25. \A i \in Layer : Counted(v, i)
  <2>1. \A i \in Layer : Counted(w, i)
    BY DEF Rest
  <2>2. w.cnts \in [Layer -> Int]
    BY DEF Wheels
  <2>3. \A p \in Places : Waits(w, t, p) => p = pos
    BY DEF Waits
  <2> HIDE DEF Waits
  <2>. QED
    BY <2>1, <2>2, <2>3, <1>23, <1>24, OneLessWaits
<1>26. ASSUME NEW p \in Places, p # pos PROVE Chained(v, p, Nowhere)
  <2>1. PICK m, r : Linked(w, p, m, r, p = Nowhere)
    BY DEF Rest, Chained
  <2>2. \A u \in Timers : Waits(w, u, p) => u # t /\ u # before /\ u # after
    BY <1>6, <1>9, <1>10, <1>26 DEF Waits
  <2> HIDE DEF Waits
  <2>3. \A u \in Timers : Waits(v, u, p) <=> Waits(w, u, p)
    BY <2>2, <1>24
  <2>4. \A u \in Timers : Waits(w, u, p) => v.timer[u].next = w.timer[u].next /\ v.timer[u].pre = w.timer[u].pre
    BY <2>2, <1>12, <1>23 DEF Erased
  <2>5. v.list[p] = w.list[p]
    BY <1>12, <1>23, <1>26 DEF Erased, ListAfter
  <2>6. Linked(v, p, m, r, p = Nowhere)
    BY <2>1, <2>3, <2>4, <2>5, LinkedSame
  <2>. QED
    BY <2>6 DEF Chained
<1>27. Chained(v, pos, Nowhere)
  <2> HIDE DEF Waits
  <2>1. v.list[pos].head = (IF before = Null THEN after ELSE w.list[pos].head) /\ v.list[pos].size = n - 1
        /\ v.list[pos].tail = (IF before # Null /\ after = Null THEN before ELSE w.list[pos].tail)
    BY <1>3, <1>5, <1>12, <1>23 DEF Erased, ListAfter
  <2>2. (before # Null => v.timer[before].next = after) /\ (after # Null => v.timer[after].pre = before)
    BY <1>9, <1>10, <1>12, <1>23 DEF Erased
  <2>3. \A u \in Timers : u # before /\ u # t => v.timer[u].next = w.timer[u].next
    BY <1>12, <1>23 DEF Erased
  <2>4. \A u \in Timers : u # after /\ u # t => v.timer[u].pre = w.timer[u].pre
    BY <1>12, <1>23 DEF Erased
  <2>5. \A u \in Timers : Waits(v, u, pos) <=> Waits(w, u, pos) /\ u # t
    BY <1>24
  <2>6. Cuts(w, v, pos, n, t, before, after)
    BY <1>3, <2>1, <2>2, <2>3, <2>4, <2>5 DEF Cuts
  <2>7. PICK r : Linked(v, pos, n - 1, r, FALSE)
    BY <1>2, <2>6, LinkedErase
  <2>8. (pos = Nowhere) = FALSE
    BY <1>1
  <2>9. Linked(v, pos, n - 1, r, pos = Nowhere)
    BY <2>7, <2>8, Zenon
  <2>. QED
    BY <2>9 DEF Chained
<1>28. Rest(v, Nowhere)
  BY <1>25, <1>26, <1>27 DEF Rest
<1>. QED
  BY <1>15, <1>23, <1>28

-----------------------------------------------------------------------------
(* addTimer finds the least layer that fits, and there a slot.               *)
LEMMA LeastLayer ==
  ASSUME NEW F, F \subseteq Layer, F # {}
  PROVE  (CHOOSE n \in F : \A m \in F : n <= m) \in Layer
<1>1. F \subseteq Nat
  BY DEF Layer
<1>2. PICK k \in F : \A j \in F : ~ (<<j, k>> \in OpToRel(<, Nat))
  BY <1>1, WFMin, NatLessThanWellFounded
<1>3. ASSUME NEW j \in F PROVE k <= j
  <2>1. j \in Nat /\ k \in Nat
    BY <1>1
  <2>2. j < k => <<j, k>> \in OpToRel(<, Nat)
    BY <2>1 DEF OpToRel
  <2>3. ~ (<<j, k>> \in OpToRel(<, Nat))
    BY <1>2
  <2>4. ~ (j < k)
    BY <2>2, <2>3
  <2>. QED
    BY <2>1, <2>4
<1>. QED
  BY <1>3

LEMMA StepIsSlot ==
  ASSUME NEW w \in Wheels, NEW i \in Layer, NEW interval \in Int
  PROVE  StepOf(w, i, interval) < 0 \/ StepOf(w, i, interval) \in Slot
<1>1. Pow(i) \in Nat \ {0} /\ WheelSize \in Nat \ {0}
  BY PowIsPositive, WheelAssumption DEF Layer
<1>2. interval \div Pow(i) \in Int /\ w.steps[i] \in Int
  BY <1>1 DEF Wheels
<1>3. PICK s \in Int : s = w.steps[i] + interval \div Pow(i)
  BY <1>2
<1>4. StepOf(w, i, interval) = IF s < 0 THEN s ELSE s % WheelSize
  BY <1>3 DEF StepOf
<1>5. s % WheelSize \in 0 .. WheelSize - 1
  BY <1>1
<1>. QED
  BY <1>4, <1>5 DEF Slot

(* What every turn of the wheel keeps.                                       *)
Kept(w, d) == w \in Wheels /\ w.broken # "link" /\ (Sound(w) => w.draining = d /\ Rest(w, d))
LEMMA PlaceKeeps ==
  ASSUME NEW w \in Wheels, NEW d \in Spot, NEW t \in Timers, Sound(w), w.draining = d, Rest(w, d), w.timer[t].alive,
         \A p \in Places : ~ Waits(w, t, p), NEW v, v = Place(w, t)
  PROVE  Kept(v, d) /\ (Sound(v) /\ d \in Places => v.list[d] = w.list[d])
<1>1. PICK F : F = FitsLayer(Left(w, t))
  OBVIOUS
<1>2. PICK i : i = CHOOSE n \in F : \A m \in F : n <= m
  OBVIOUS
<1>3. PICK pos : pos = <<i, StepOf(w, i, Left(w, t))>>
  OBVIOUS
<1>4. Kept(w, d)
  BY DEF Kept, Sound
<1>5. v = IF F = {} THEN w ELSE IF pos[2] < 0 THEN Break(w, "range") ELSE IF d = pos THEN Break(w, "refilled")
          ELSE PushNode([w EXCEPT !.timer[t].pos = pos, !.timer[t].poped = FALSE, !.cnts[i] = @ + 1], pos, t)
  <2>1. Place(w, t) = IF ~ Sound(w) \/ F = {} THEN w ELSE IF pos[2] < 0 THEN Break(w, "range")
                      ELSE IF w.draining = pos THEN Break(w, "refilled")
                      ELSE PushNode([w EXCEPT !.timer[t].pos = pos, !.timer[t].poped = FALSE, !.cnts[i] = @ + 1], pos, t)
    BY <1>1, <1>2, <1>3 DEF Place
  <2>. QED
    BY <2>1
<1>6. CASE F = {}
  BY <1>4, <1>5, <1>6
<1>7. CASE F # {} /\ pos[2] < 0
  <2>1. v = Break(w, "range") /\ "range" \in Why
    BY <1>5, <1>7 DEF Why
  <2>2. v \in Wheels /\ v.broken = "range"
    BY <2>1, BreakDoes
  <2>. QED
    BY <2>2 DEF Kept, Sound
<1>8. CASE F # {} /\ ~ (pos[2] < 0) /\ d = pos
  <2>1. v = Break(w, "refilled") /\ "refilled" \in Why
    BY <1>5, <1>8 DEF Why
  <2>2. v \in Wheels /\ v.broken = "refilled"
    BY <2>1, BreakDoes
  <2>. QED
    BY <2>2 DEF Kept, Sound
<1>9. CASE F # {} /\ ~ (pos[2] < 0) /\ d # pos
  <2>1. v = PushNode([w EXCEPT !.timer[t].pos = pos, !.timer[t].poped = FALSE, !.cnts[i] = @ + 1], pos, t)
    BY <1>5, <1>9
  <2>2. pos[1] = i
    BY <1>3
  <2>3. v = Enter(w, pos, t)
    BY <2>1, <2>2, Zenon DEF Enter
  <2>4. F \subseteq Layer
    BY <1>1 DEF FitsLayer
  <2>5. i \in Layer
    BY <2>4, <1>2, <1>9, LeastLayer
  <2>6. Left(w, t) \in Int
    <3>1. w.timer[t].exec \in Int /\ w.last \in Int
      BY DEF Wheels, TimerRec
    <3>2. PICK a \in Int : a = w.timer[t].exec - w.last
      BY <3>1
    <3>3. a \div TickUnits \in Int
      BY WheelAssumption
    <3>. QED
      BY <3>2, <3>3 DEF Left
  <2>7. pos[2] = StepOf(w, i, Left(w, t))
    BY <1>3
  <2>8. pos[2] \in Slot
    BY <2>5, <2>6, <2>7, <1>9, StepIsSlot
  <2>9. pos \in Places
    BY <2>5, <2>7, <2>8, <1>3 DEF Places
  <2>10. v \in Wheels /\ Alike(w, v) /\ Rest(v, d) /\ \A p \in Places : p # pos => v.list[p] = w.list[p]
    BY <2>3, <2>9, <1>9, EnterKeeps
  <2>11. v.broken = "no" /\ v.draining = d
    BY <2>10 DEF Alike, Sound
  <2>. QED
    BY <2>10, <2>11, <1>9 DEF Kept
<1>. QED
  BY <1>6, <1>7, <1>8, <1>9

CountedDown(r) == [r EXCEPT !.repeats = @ - 1, !.exec = IF r.repeats = 1 THEN @ ELSE @ + r.interval]
LEMMA PretendWrites ==
  ASSUME NEW w \in Wheels, NEW t \in Timers
  PROVE  /\ Written(w, Pretend(w, t), t, CountedDown(w.timer[t]))
         /\ \A d : Rest(w, d) => Rest(Pretend(w, t), d)
<1>1. PICK r \in TimerRec : r = w.timer[t]
  BY DEF Wheels
<1>2. PICK q : q = CountedDown(r)
  OBVIOUS
<1>3. q \in TimerRec /\ q.pre = r.pre /\ q.next = r.next /\ SameState(r, q)
  <2>1. q = [exec |-> IF r.repeats = 1 THEN r.exec ELSE r.exec + r.interval, interval |-> r.interval,
             repeats |-> r.repeats - 1, once |-> r.once, pos |-> r.pos, poped |-> r.poped,
             alive |-> r.alive, made |-> r.made, pre |-> r.pre, next |-> r.next]
    BY <1>2 DEF CountedDown, TimerRec
  <2>. QED
    BY <2>1 DEF TimerRec, SameState
<1>4. PICK v : v = Pretend(w, t)
  OBVIOUS
<1>5. v = Write(w, t, q)
  BY <1>1, <1>2, <1>4 DEF Pretend, Write, CountedDown, Wheels
<1>6. Written(w, v, t, q)
  BY <1>3, <1>5, WriteDoes
<1>7. Harmless(w, t, q)
  BY <1>1, <1>3 DEF Harmless
<1>8. \A d : Rest(w, d) => Rest(v, d)
  BY <1>6, <1>7, WriteKeeps
<1>. QED
  BY <1>1, <1>2, <1>4, <1>6, <1>8

LEMMA RestWeaker ==
  ASSUME NEW w, NEW pos, Rest(w, Nowhere)
  PROVE  Rest(w, pos)
<1>1. ASSUME NEW p \in Places PROVE Chained(w, p, pos)
  <2>1. PICK n, s : Linked(w, p, n, s, p = Nowhere)
    BY DEF Rest, Chained
  <2>2. (p = Nowhere) = FALSE
    BY WheelAssumption DEF Places, Nowhere, Layer
  <2>3. Linked(w, p, n, s, FALSE)
    BY <2>1, <2>2, Zenon
  <2>4. Linked(w, p, n, s, p = pos)
    BY <2>3 DEF Linked
  <2>. QED
    BY <2>4 DEF Chained
<1>. QED
  BY <1>1 DEF Rest

LEMMA RestSame ==
  ASSUME NEW w, NEW v, v.list = w.list, v.timer = w.timer, v.cnts = w.cnts, NEW d, Rest(w, d)
  PROVE  Rest(v, d)
<1>1. \A a, p : Waits(v, a, p) <=> Waits(w, a, p)
  BY DEF Waits
<1> HIDE DEF Waits
<1>2. ASSUME NEW p \in Places PROVE Chained(v, p, d)
  <2>1. PICK n, s : Linked(w, p, n, s, p = d)
    BY DEF Rest, Chained
  <2>2. v.list[p] = w.list[p] /\ \A a \in Timers : v.timer[a].next = w.timer[a].next /\ v.timer[a].pre = w.timer[a].pre
    OBVIOUS
  <2>3. Linked(v, p, n, s, p = d)
    BY <1>1, <2>1, <2>2, LinkedSame
  <2>. QED
    BY <2>3 DEF Chained
<1>3. ASSUME NEW i \in Layer PROVE Counted(v, i)
  <2>1. WaitsIn(v, i) = WaitsIn(w, i)
    BY <1>1 DEF WaitsIn
  <2>. QED
    BY <2>1 DEF Rest, Counted
<1>. QED
  BY <1>2, <1>3 DEF Rest

\* The timer is handed out.
Handed(w, t) == [Pretend(w, t) EXCEPT !.timeouts = Append(@, t)]
LEMMA HandedKeeps ==
  ASSUME NEW w \in Wheels, NEW t \in Timers, NEW d, Rest(w, d), NEW v, v = Handed(w, t)
  PROVE  /\ v \in Wheels /\ v.broken = w.broken /\ v.draining = w.draining /\ v.list = w.list /\ Rest(v, d)
         /\ v.timer[t].alive = w.timer[t].alive /\ \A p \in Places : Waits(v, t, p) <=> Waits(w, t, p)
<1>1. PICK u : u = Pretend(w, t)
  OBVIOUS
<1>2. PICK r \in TimerRec : r = w.timer[t]
  BY DEF Wheels
<1>3. PICK q : q = CountedDown(r)
  OBVIOUS
<1>4. Written(w, u, t, q) /\ Rest(u, d)
  BY <1>1, <1>2, <1>3, PretendWrites
<1>5. u \in Wheels /\ Alike(w, u) /\ u.list = w.list /\ u.timer[t] = q
  BY <1>4 DEF Written
<1>6. SameState(r, q)
  BY <1>3 DEF CountedDown, TimerRec, SameState
<1>7. v = [u EXCEPT !.timeouts = Append(@, t)]
  BY <1>1 DEF Handed
<1>8. u.list \in [Places -> ListRec] /\ u.steps \in [Layer -> Int] /\ u.cnts \in [Layer -> Int] /\ u.last \in Int
      /\ u.timeouts \in Seq(Timers) /\ u.draining \in Spot /\ u.timer \in [Timers -> TimerRec] /\ u.broken \in Why
  BY <1>5 DEF Wheels
<1>9. IsRecord(v) /\ v.list = u.list /\ v.steps = u.steps /\ v.cnts = u.cnts /\ v.last = u.last
      /\ v.broken = u.broken /\ v.draining = u.draining /\ v.timer = u.timer
  <2>1. IsRecord(u)
    BY <1>5, WheelIsRecord
  <2>. QED
    BY <2>1, <1>7 DEF IsRecord
<1>10. v.timeouts \in Seq(Timers)
  <2>1. v.timeouts = Append(u.timeouts, t)
    BY <1>5, <1>7, WheelIsRecord DEF IsRecord
  <2>. QED
    BY <2>1, <1>8
<1>11. v \in Wheels
  BY <1>8, <1>9, <1>10, RecordIsWheel
<1>13. Rest(v, d)
  BY <1>4, <1>9, RestSame
<1>14. v.timer[t].alive = w.timer[t].alive /\ \A p \in Places : Waits(v, t, p) <=> Waits(w, t, p)
  BY <1>2, <1>5, <1>6, <1>9 DEF SameState, Waits
<1>15. v.broken = w.broken /\ v.draining = w.draining /\ v.list = w.list
  BY <1>5, <1>9 DEF Alike
<1>. QED
  BY <1>11, <1>13, <1>14, <1>15

LEMMA PopOneKeeps ==
  ASSUME NEW w \in Wheels, Sound(w), NEW pos \in Places, Rest(w, pos), NEW n, n = w.list[pos].size, n > 0,
         NEW d, d = IF n = 1 THEN Nowhere ELSE pos, w.draining = d, NEW v, v = PopOne(w, pos)
  PROVE  Kept(v, d) /\ (Sound(v) /\ n # 1 => v.list[pos].size = n - 1)
<1>1. PICK t : t = w.list[pos].head
  OBVIOUS
<1>2. PICK x : x = Leave(w, pos)
  OBVIOUS
<1>3. t \in Timers /\ w.timer[t].alive /\ HasLeft(w, x, pos, t, d)
  BY <1>1, <1>2, LeaveKeeps
<1>4. /\ x \in Wheels /\ Alike(w, x) /\ Rest(x, d) /\ x.list[pos].size = n - 1
      /\ x.timer[t].alive /\ \A p \in Places : ~ Waits(x, t, p)
  BY <1>3 DEF HasLeft
<1>5. t # Null /\ d \in Spot
  BY <1>3, WheelAssumption DEF Null, Spot
<1>6. Sound(x) /\ x.draining = d
  BY <1>4 DEF Alike, Sound
<1>7. n # 1 => d \in Places /\ d = pos
  OBVIOUS
<1>8. PICK y : y = Handed(x, t)
  OBVIOUS
<1>9. /\ y \in Wheels /\ Sound(y) /\ y.draining = d /\ y.list[pos].size = n - 1 /\ Rest(y, d)
      /\ y.timer[t].alive /\ \A p \in Places : ~ Waits(y, t, p)
  <2> HIDE DEF Waits
  <2>1. /\ y \in Wheels /\ y.broken = x.broken /\ y.draining = x.draining /\ y.list = x.list /\ Rest(y, d)
        /\ y.timer[t].alive = x.timer[t].alive /\ \A p \in Places : Waits(y, t, p) <=> Waits(x, t, p)
    BY <1>3, <1>4, <1>8, HandedKeeps
  <2>. QED
    BY <2>1, <1>4, <1>6 DEF Sound
<1>10. PopOne(w, pos) =
         IF ~ Sound(w) THEN w ELSE IF w.list[pos].head = Null THEN Break(w, "link")
         ELSE IF ~ w.timer[w.list[pos].head].alive THEN Break(w, "link") ELSE IF ~ Sound(Leave(w, pos)) THEN Leave(w, pos)
         ELSE IF pos[1] > 0 THEN Place(Leave(w, pos), w.list[pos].head)
         ELSE IF w.timer[w.list[pos].head].repeats = 1 THEN Handed(Leave(w, pos), w.list[pos].head)
         ELSE Place(Handed(Leave(w, pos), w.list[pos].head), w.list[pos].head)
  BY DEF PopOne, Leave, Handed
<1>11. v = IF pos[1] > 0 THEN Place(x, t) ELSE IF w.timer[t].repeats = 1 THEN y ELSE Place(y, t)
  BY <1>1, <1>2, <1>3, <1>5, <1>6, <1>8, <1>10
<1>12. CASE v = Place(x, t)
  <2>1. Kept(v, d) /\ (Sound(v) /\ d \in Places => v.list[d] = x.list[d])
    BY <1>3, <1>4, <1>5, <1>6, <1>12, PlaceKeeps
  <2>. QED
    BY <2>1, <1>4, <1>7
<1>13. CASE v = y
  BY <1>9, <1>13 DEF Kept, Sound
<1>14. CASE v = Place(y, t)
  <2>1. Kept(v, d) /\ (Sound(v) /\ d \in Places => v.list[d] = y.list[d])
    BY <1>3, <1>5, <1>9, <1>14, PlaceKeeps
  <2>. QED
    BY <2>1, <1>7, <1>9
<1>. QED
  BY <1>11, <1>12, <1>13, <1>14

-----------------------------------------------------------------------------
(* A loop that leads from each of the sets I[0], .., I[n] to the next.       *)
Leads(I, V, n, body) ==
  /\ \A k \in 0 .. n : I[k] \subseteq V
  /\ \A k \in 1 .. n : \A u \in I[k - 1] : body[<<k, u>>] \in I[k]
LEMMA LoopExists ==
  ASSUME NEW V, NEW n \in Nat, NEW I, NEW body, Leads(I, V, n, body), NEW v0 \in I[0]
  PROVE  \E h \in [0 .. n -> V] : Iterates(h, n, v0, body) /\ \A k \in 0 .. n : h[k] \in I[k]
<1>1. PICK step : step = [x \in (1 .. n) \X V |-> IF body[x] \in V THEN body[x] ELSE x[2]]
  OBVIOUS
<1>2. step \in [(1 .. n) \X V -> V]
  <2>1. ASSUME NEW x \in (1 .. n) \X V PROVE (IF body[x] \in V THEN body[x] ELSE x[2]) \in V
    OBVIOUS
  <2>. QED
    BY <2>1, <1>1
<1>3. 0 \in 0 .. n /\ v0 \in V
  BY DEF Leads
<1>4. PICK h \in [0 .. n -> V] : Iterates(h, n, v0, step)
  BY <1>2, <1>3, IterationExists
<1>5. ASSUME NEW k \in 1 .. n, h[k - 1] \in I[k - 1] PROVE h[k] = body[<<k, h[k - 1]>>] /\ h[k] \in I[k]
  <2>1. body[<<k, h[k - 1]>>] \in I[k]
    BY <1>5 DEF Leads
  <2>2. k \in 0 .. n /\ k - 1 \in 0 .. n
    OBVIOUS
  <2>3. body[<<k, h[k - 1]>>] \in V /\ h[k - 1] \in V
    BY <2>1, <2>2 DEF Leads
  <2>4. <<k, h[k - 1]>> \in (1 .. n) \X V
    BY <2>3
  <2>5. step[<<k, h[k - 1]>>] = body[<<k, h[k - 1]>>]
    BY <1>1, <2>3, <2>4
  <2>6. h[k] = step[<<k, h[k - 1]>>]
    BY <1>4 DEF Iterates
  <2>. QED
    BY <2>1, <2>5, <2>6
<1> DEFINE T == {k \in 0 .. n : h[k] \in I[k]}
<1>6. 0 \in T
  BY <1>3, <1>4 DEF Iterates
<1>7. ASSUME NEW k \in Nat, k < n, k \in T PROVE k + 1 \in T
  <2>1. PICK i \in 1 .. n : i = k + 1
    BY <1>7
  <2>2. i - 1 = k /\ i \in 0 .. n
    BY <2>1
  <2>3. h[i] \in I[i]
    BY <2>2, <1>5, <1>7
  <2>. QED
    BY <2>1, <2>2, <2>3
<1>8. 0 .. n \subseteq T
  <2> HIDE DEF T
  <2>. QED
    BY <1>6, <1>7, CountedUpto
<1>9. ASSUME NEW k \in 1 .. n PROVE h[k] = body[<<k, h[k - 1]>>]
  <2>1. k - 1 \in 0 .. n
    OBVIOUS
  <2>. QED
    BY <2>1, <1>5, <1>8
<1>10. Iterates(h, n, v0, body)
  BY <1>4, <1>9 DEF Iterates
<1>11. \A k \in 0 .. n : h[k] \in I[k]
  BY <1>8
<1>. QED
  BY <1>10, <1>11

LEMMA LoopLeads ==
  ASSUME NEW V, NEW n \in Nat, NEW I, NEW body, Leads(I, V, n, body), NEW f, f[0] \in I[0],
         \A k \in 1 .. n : f[k - 1] \in I[k - 1] => f[k] = body[<<k, f[k - 1]>>]
  PROVE  f[n] \in I[n]
<1> DEFINE T == {k \in 0 .. n : f[k] \in I[k]}
<1>1. 0 \in T
  OBVIOUS
<1>2. ASSUME NEW k \in Nat, k < n, k \in T PROVE k + 1 \in T
  <2>1. PICK i \in 1 .. n : i = k + 1
    BY <1>2
  <2>2. i - 1 = k /\ i \in 0 .. n
    BY <2>1
  <2>3. f[i - 1] \in I[i - 1]
    BY <2>2, <1>2
  <2>4. f[i] \in I[i]
    BY <2>3 DEF Leads
  <2>. QED
    BY <2>1, <2>2, <2>4
<1>3. 0 .. n \subseteq T
  <2> HIDE DEF T
  <2>. QED
    BY <1>1, <1>2, CountedUpto
<1>4. n \in 0 .. n
  OBVIOUS
<1>. QED
  BY <1>3, <1>4

LEMMA DrainingDoes ==
  ASSUME NEW w \in Wheels, NEW e \in Spot, NEW v, v = [w EXCEPT !.draining = e]
  PROVE  /\ v \in Wheels /\ v.draining = e /\ v.broken = w.broken /\ v.list = w.list
         /\ \A d : Rest(w, d) => Rest(v, d)
<1>1. w.list \in [Places -> ListRec] /\ w.steps \in [Layer -> Int] /\ w.cnts \in [Layer -> Int] /\ w.last \in Int
      /\ w.timeouts \in Seq(Timers) /\ w.timer \in [Timers -> TimerRec] /\ w.broken \in Why
  BY DEF Wheels
<1>2. IsRecord(w)
  BY WheelIsRecord
<1>3. IsRecord(v) /\ v.list = w.list /\ v.steps = w.steps /\ v.cnts = w.cnts /\ v.last = w.last
      /\ v.broken = w.broken /\ v.timeouts = w.timeouts /\ v.timer = w.timer /\ v.draining = e
  BY <1>2 DEF IsRecord
<1>4. v \in Wheels
  BY <1>1, <1>3, RecordIsWheel
<1>5. \A d : Rest(w, d) => Rest(v, d)
  BY <1>3, RestSame
<1>. QED
  BY <1>3, <1>4, <1>5

(* A slot is drained: k of the n timers that were in it have left.           *)
DrainStep(u, pos, k, n) == PopOne([u EXCEPT !.draining = IF k = n THEN Nowhere ELSE pos], pos)
Drains(u, pos, k, n) ==
  /\ k = 0 => Rest(u, Nowhere) /\ u.list[pos].size = n
  /\ k # 0 /\ k # n => Rest(u, pos) /\ u.list[pos].size = n - k
  /\ k = n => Rest(u, Nowhere) /\ u.draining = Nowhere
Drained(pos, k, n) == {u \in Wheels : u.broken # "link" /\ (Sound(u) => Drains(u, pos, k, n))}
LEMMA DrainStepKeeps ==
  ASSUME NEW n \in Nat, NEW pos \in Places, NEW k \in 1 .. n, NEW u \in Drained(pos, k - 1, n)
  PROVE  DrainStep(u, pos, k, n) \in Drained(pos, k, n)
<1>1. u \in Wheels /\ u.broken # "link" /\ (Sound(u) => Drains(u, pos, k - 1, n))
  BY DEF Drained
<1>2. PICK e : e = IF k = n THEN Nowhere ELSE pos
  OBVIOUS
<1>3. e \in Spot
  BY <1>2 DEF Spot
<1>4. PICK x : x = [u EXCEPT !.draining = e]
  OBVIOUS
<1>5. x \in Wheels /\ x.draining = e /\ x.broken = u.broken /\ x.list = u.list /\ \A d : Rest(u, d) => Rest(x, d)
  BY <1>1, <1>3, <1>4, DrainingDoes
<1>6. PICK v : v = PopOne(x, pos)
  OBVIOUS
<1>7. v = DrainStep(u, pos, k, n)
  BY <1>2, <1>4, <1>6, Zenon DEF DrainStep
<1>8. CASE ~ Sound(u)
  <2>1. ~ Sound(x)
    BY <1>5, <1>8 DEF Sound
  <2>2. v = x
    BY <1>6, <2>1, Zenon DEF PopOne
  <2>. QED
    BY <1>1, <1>5, <1>7, <2>1, <2>2 DEF Drained
<1>9. CASE Sound(u)
  <2>1. Sound(x)
    BY <1>5, <1>9 DEF Sound
  <2>2. PICK m \in Nat : m = n - (k - 1) /\ m > 0 /\ (m = 1 <=> k = n) /\ m - 1 = n - k
    <3>1. n - (k - 1) \in Nat
      OBVIOUS
    <3>. QED
      BY <3>1
  <2>3. x.list[pos].size = m /\ Rest(x, pos)
    <3>1. CASE k - 1 = 0
      <4>1. Rest(u, Nowhere) /\ u.list[pos].size = n /\ m = n
        BY <3>1, <1>1, <1>9, <2>2 DEF Drains
      <4>. QED
        BY <4>1, <1>5, RestWeaker
    <3>2. CASE k - 1 # 0
      <4>1. Rest(u, pos) /\ u.list[pos].size = m
        BY <3>2, <1>1, <1>9, <2>2 DEF Drains
      <4>. QED
        BY <4>1, <1>5
    <3>. QED
      BY <3>1, <3>2
  <2>4. e = IF m = 1 THEN Nowhere ELSE pos
    BY <1>2, <2>2
  <2>5. Kept(v, e) /\ (Sound(v) /\ m # 1 => v.list[pos].size = m - 1)
    BY <1>5, <1>6, <2>1, <2>2, <2>3, <2>4, PopOneKeeps
  <2>6. Sound(v) => Drains(v, pos, k, n)
    BY <1>2, <2>2, <2>5 DEF Kept, Drains
  <2>. QED
    BY <1>7, <2>5, <2>6 DEF Kept, Drained
<1>. QED
  BY <1>8, <1>9

LEMMA DrainKeeps ==
  ASSUME NEW w, Kept(w, Nowhere), NEW pos \in Places
  PROVE  Kept(Drain(w, pos), Nowhere)
<1>1. w \in Wheels
  BY DEF Kept
<1>2. PICK n \in Nat : n = w.list[pos].size
  BY <1>1 DEF Wheels, ListRec
<1> DEFINE Is(g) == g = [k \in 0 .. n |-> IF k = 0 THEN w ELSE DrainStep(g[k - 1], pos, k, n)]
<1>3. PICK f : f = CHOOSE g : Is(g)
  OBVIOUS
<1>4. Drain(w, pos) = f[n]
  BY <1>2, <1>3 DEF Drain, DrainStep
<1>5. PICK I : I = [k \in 0 .. n |-> Drained(pos, k, n)]
  OBVIOUS
<1>6. PICK body : body = [x \in (1 .. n) \X Wheels |-> DrainStep(x[2], pos, x[1], n)]
  OBVIOUS
<1>7. \A k \in 0 .. n : I[k] = Drained(pos, k, n)
  BY <1>5
<1>8. \A k \in 1 .. n, u \in Wheels : body[<<k, u>>] = DrainStep(u, pos, k, n)
  <2>1. ASSUME NEW k \in 1 .. n, NEW u \in Wheels PROVE body[<<k, u>>] = DrainStep(u, pos, k, n)
    <3>1. <<k, u>> \in (1 .. n) \X Wheels
      OBVIOUS
    <3>. QED
      BY <3>1, <1>6
  <2>. QED
    BY <2>1
<1>9. Leads(I, Wheels, n, body)
  <2>1. ASSUME NEW k \in 0 .. n PROVE I[k] \subseteq Wheels
    BY <1>7 DEF Drained
  <2>2. ASSUME NEW k \in 1 .. n, NEW u \in I[k - 1] PROVE body[<<k, u>>] \in I[k]
    <3>1. k - 1 \in 0 .. n /\ k \in 0 .. n
      OBVIOUS
    <3>2. u \in Drained(pos, k - 1, n) /\ u \in Wheels
      BY <3>1, <1>7, <2>1
    <3>3. DrainStep(u, pos, k, n) \in Drained(pos, k, n)
      BY <3>2, DrainStepKeeps
    <3>. QED
      BY <3>1, <3>2, <3>3, <1>7, <1>8
  <2>. QED
    BY <2>1, <2>2 DEF Leads
<1>10. 0 \in 0 .. n /\ n \in 0 .. n
  OBVIOUS
<1>11. w \in I[0]
  <2>1. Sound(w) => Drains(w, pos, 0, n)
    BY <1>2 DEF Kept, Drains
  <2>. QED
    BY <2>1, <1>1, <1>7, <1>10 DEF Kept, Drained
<1>12. Is(f)
  <2>1. PICK h \in [0 .. n -> Wheels] : Iterates(h, n, w, body) /\ \A k \in 0 .. n : h[k] \in I[k]
    BY <1>9, <1>11, LoopExists
  <2>2. ASSUME NEW k \in 0 .. n PROVE h[k] = IF k = 0 THEN w ELSE DrainStep(h[k - 1], pos, k, n)
    <3>1. CASE k = 0
      BY <3>1, <2>1 DEF Iterates
    <3>2. CASE k # 0
      <4>1. k \in 1 .. n /\ k - 1 \in 0 .. n
        BY <3>2
      <4>2. h[k] = body[<<k, h[k - 1]>>] /\ h[k - 1] \in Wheels
        BY <4>1, <2>1 DEF Iterates
      <4>. QED
        BY <3>2, <4>1, <4>2, <1>8
    <3>. QED
      BY <3>1, <3>2
  <2>3. h = [k \in 0 .. n |-> h[k]]
    OBVIOUS
  <2>4. Is(h)
    BY <2>2, <2>3
  <2>5. \E g : Is(g)
    BY <2>4
  <2> HIDE DEF Is
  <2>. QED
    BY <2>5, <1>3, Zenon
<1>13. \A k \in 1 .. n : f[k - 1] \in I[k - 1] => f[k] = body[<<k, f[k - 1]>>]
  <2>1. ASSUME NEW k \in 1 .. n, f[k - 1] \in I[k - 1] PROVE f[k] = body[<<k, f[k - 1]>>]
    <3>1. k \in 0 .. n /\ k - 1 \in 0 .. n /\ k # 0
      OBVIOUS
    <3>2. f[k - 1] \in Wheels
      BY <3>1, <2>1, <1>7 DEF Drained
    <3>3. f[k] = DrainStep(f[k - 1], pos, k, n)
      BY <3>1, <1>12
    <3>. QED
      BY <3>2, <3>3, <1>8
  <2>. QED
    BY <2>1
<1>14. f[0] = w
  BY <1>10, <1>12
<1>15. f[n] \in I[n]
  BY <1>9, <1>11, <1>13, <1>14, LoopLeads
<1>16. f[n] \in Drained(pos, n, n)
  BY <1>7, <1>10, <1>15
<1>17. Kept(f[n], Nowhere)
  BY <1>16 DEF Kept, Drained, Drains
<1>. QED
  BY <1>4, <1>17

LEMMA PassedAreSlots ==
  ASSUME NEW old \in Int, NEW new \in Int
  PROVE  Len(Passed(old, new)) \in Nat /\ \A k \in 1 .. Len(Passed(old, new)) : Passed(old, new)[k] \in Slot
<1>1. WheelSize \in Nat \ {0}
  BY WheelAssumption
<1>2. PICK first \in Int : first = IF old < 0 THEN old + 1 ELSE old
  OBVIOUS
<1>3. PICK last \in Int : last = IF new < old THEN new + WheelSize ELSE new
  BY <1>1
<1>4. PICK m \in Nat : m = IF last < first THEN 0 ELSE last - first + 1
  <2>1. (IF last < first THEN 0 ELSE last - first + 1) \in Nat
    OBVIOUS
  <2>. QED
    BY <2>1
<1>5. Passed(old, new) = [k \in 1 .. m |-> (first + k - 1) % WheelSize]
  BY <1>2, <1>3, <1>4 DEF Passed
<1>6. \A k \in 1 .. m : (first + k - 1) % WheelSize \in Slot
  <2>1. ASSUME NEW k \in 1 .. m PROVE (first + k - 1) % WheelSize \in Slot
    <3>1. PICK a \in Int : a = first + k - 1
      OBVIOUS
    <3>2. a % WheelSize \in 0 .. WheelSize - 1
      BY <1>1
    <3>. QED
      BY <3>1, <3>2 DEF Slot
  <2>. QED
    BY <2>1
<1>7. Len(Passed(old, new)) = m
  BY <1>5
<1>8. \A k \in 1 .. m : Passed(old, new)[k] \in Slot
  BY <1>5, <1>6
<1>. QED
  BY <1>7, <1>8

LEMMA DrainLayerKeeps ==
  ASSUME NEW v0, Kept(v0, Nowhere), NEW i \in Layer, NEW steps \in [Layer -> Int]
  PROVE  Kept(DrainLayer(v0, i, steps), Nowhere)
<1> DEFINE K == {u \in Wheels : Kept(u, Nowhere)}
<1>1. v0 \in K
  BY DEF Kept
<1>2. PICK slots : slots = Passed(v0.steps[i], steps[i])
  OBVIOUS
<1>3. PICK n : n = Len(slots)
  OBVIOUS
<1>4. v0.steps[i] \in Int /\ steps[i] \in Int
  BY <1>1 DEF Wheels
<1>5. n \in Nat /\ \A k \in 1 .. n : slots[k] \in Slot
  BY <1>2, <1>3, <1>4, PassedAreSlots
<1>6. n \in Nat
  BY <1>5
<1> DEFINE Is(g) == g = [k \in 0 .. n |-> IF k = 0 THEN v0 ELSE Drain(g[k - 1], <<i, slots[k]>>)]
<1>7. PICK f : f = CHOOSE g : Is(g)
  OBVIOUS
<1>8. DrainLayer(v0, i, steps) = f[n]
  BY <1>2, <1>3, <1>7 DEF DrainLayer
<1>9. ASSUME NEW k \in 1 .. n, NEW u \in K PROVE Drain(u, <<i, slots[k]>>) \in K
  <2>1. <<i, slots[k]>> \in Places
    BY <1>5 DEF Places
  <2>2. Kept(u, Nowhere)
    OBVIOUS
  <2>3. Kept(Drain(u, <<i, slots[k]>>), Nowhere)
    BY <2>1, <2>2, DrainKeeps
  <2>. QED
    BY <2>3 DEF Kept
<1>10. PICK I : I = [k \in 0 .. n |-> K]
  OBVIOUS
<1>11. PICK body : body = [x \in (1 .. n) \X K |-> Drain(x[2], <<i, slots[x[1]]>>)]
  OBVIOUS
<1>12. ASSUME NEW k \in 1 .. n, NEW u \in K PROVE body[<<k, u>>] = Drain(u, <<i, slots[k]>>)
  <2>1. <<k, u>> \in (1 .. n) \X K
    OBVIOUS
  <2> HIDE DEF K
  <2>. QED
    BY <2>1, <1>11
<1>13. \A k \in 0 .. n : I[k] = K
  BY <1>10
<1> HIDE DEF K
<1>14. Leads(I, K, n, body)
  <2>1. \A k \in 0 .. n : I[k] \subseteq K
    BY <1>13
  <2>2. ASSUME NEW k \in 1 .. n, NEW u \in I[k - 1] PROVE body[<<k, u>>] \in I[k]
    <3>1. k - 1 \in 0 .. n /\ k \in 0 .. n
      BY <1>6
    <3>2. u \in K
      BY <3>1, <1>13
    <3>. QED
      BY <3>1, <3>2, <1>12, <1>13, <1>9
  <2>. QED
    BY <2>1, <2>2 DEF Leads
<1>15. 0 \in 0 .. n /\ n \in 0 .. n
  BY <1>6
<1>16. v0 \in I[0]
  BY <1>13, <1>15, <1>1
<1>17. Is(f)
  <2>1. PICK h \in [0 .. n -> K] : Iterates(h, n, v0, body) /\ \A k \in 0 .. n : h[k] \in I[k]
    BY <1>14, <1>16, <1>6, LoopExists
  <2>2. ASSUME NEW k \in 0 .. n PROVE h[k] = IF k = 0 THEN v0 ELSE Drain(h[k - 1], <<i, slots[k]>>)
    <3>1. CASE k = 0
      BY <3>1, <2>1 DEF Iterates
    <3>2. CASE k # 0
      <4>1. k \in 1 .. n /\ k - 1 \in 0 .. n
        BY <3>2, <1>6
      <4>2. h[k] = body[<<k, h[k - 1]>>] /\ h[k - 1] \in K
        BY <4>1, <2>1 DEF Iterates
      <4>. QED
        BY <3>2, <4>1, <4>2, <1>12
    <3>. QED
      BY <3>1, <3>2
  <2>3. h = [k \in 0 .. n |-> h[k]]
    OBVIOUS
  <2>4. Is(h)
    BY <2>2, <2>3
  <2>5. \E g : Is(g)
    BY <2>4
  <2> HIDE DEF Is
  <2>. QED
    BY <2>5, <1>7, Zenon
<1>18. \A k \in 1 .. n : f[k - 1] \in I[k - 1] => f[k] = body[<<k, f[k - 1]>>]
  <2>1. ASSUME NEW k \in 1 .. n, f[k - 1] \in I[k - 1] PROVE f[k] = body[<<k, f[k - 1]>>]
    <3>1. k \in 0 .. n /\ k - 1 \in 0 .. n /\ k # 0
      BY <1>6
    <3>2. f[k - 1] \in K
      BY <3>1, <2>1, <1>13
    <3>3. f[k] = Drain(f[k - 1], <<i, slots[k]>>)
      BY <3>1, <1>17
    <3>. QED
      BY <3>2, <3>3, <1>12
  <2>. QED
    BY <2>1
<1>19. f[0] \in I[0]
  BY <1>15, <1>16, <1>17
<1>20. f[n] \in I[n]
  BY <1>14, <1>18, <1>19, <1>6, LoopLeads, SMTT(40)
<1>21. f[n] \in K
  BY <1>13, <1>15, <1>20
<1>. QED
  BY <1>8, <1>21 DEF K

(* The wheel turns.                                                          *)
LEMMA TurnKeeps ==
  ASSUME NEW w, Kept(w, Nowhere), NEW time \in Int
  PROVE  Kept(Turn(w, time), Nowhere)
<1> DEFINE K == {u \in Wheels : Kept(u, Nowhere)}
           n == Layers
<1>1. w \in Wheels
  BY DEF Kept
<1>2. w.list \in [Places -> ListRec] /\ w.steps \in [Layer -> Int] /\ w.cnts \in [Layer -> Int] /\ w.last \in Int
      /\ w.draining \in Spot /\ w.timer \in [Timers -> TimerRec] /\ w.broken \in Why
  BY <1>1 DEF Wheels
<1>3. IsRecord(w)
  BY <1>1, WheelIsRecord
<1>4. PICK steps : steps = NewSteps(w, (time - w.last) \div TickUnits)
  OBVIOUS
<1>5. steps \in [Layer -> Int]
  <2>1. PICK a \in Int : a = time - w.last
    BY <1>2
  <2>2. a \div TickUnits \in Int
    BY WheelAssumption
  <2>. QED
    BY <2>1, <2>2, <1>2, <1>4, NewStepsTyped
<1>6. PICK v0 : v0 = [w EXCEPT !.last = time, !.timeouts = <<>>]
  OBVIOUS
<1>7. v0 \in K
  <2>1. IsRecord(v0) /\ v0.list = w.list /\ v0.steps = w.steps /\ v0.cnts = w.cnts /\ v0.last = time
        /\ v0.broken = w.broken /\ v0.timeouts = <<>> /\ v0.timer = w.timer /\ v0.draining = w.draining
    BY <1>3, <1>6 DEF IsRecord
  <2>2. v0 \in Wheels
    <3>1. v0.timeouts \in Seq(Timers)
      BY <2>1
    <3>. QED
      BY <3>1, <1>2, <2>1, RecordIsWheel
  <2>3. Rest(w, Nowhere) => Rest(v0, Nowhere)
    BY <2>1, RestSame
  <2>. QED
    BY <2>1, <2>2, <2>3 DEF Kept, Sound
<1>8. n \in Nat
  BY WheelAssumption
<1> DEFINE Is(g) == g = [k \in 0 .. n |-> IF k = 0 THEN v0 ELSE DrainLayer(g[k - 1], Layers - k, steps)]
<1>9. PICK f : f = CHOOSE g : Is(g)
  OBVIOUS
<1>10. Turn(w, time) = [f[n] EXCEPT !.steps = steps]
  BY <1>4, <1>6, <1>9 DEF Turn
<1>11. ASSUME NEW k \in 1 .. n, NEW u \in K PROVE DrainLayer(u, Layers - k, steps) \in K
  <2>1. Layers - k \in Layer
    BY <1>8 DEF Layer
  <2>2. Kept(u, Nowhere)
    OBVIOUS
  <2>3. Kept(DrainLayer(u, Layers - k, steps), Nowhere)
    BY <2>1, <2>2, <1>5, DrainLayerKeeps
  <2>. QED
    BY <2>3 DEF Kept
<1>12. PICK I : I = [k \in 0 .. n |-> K]
  OBVIOUS
<1>13. PICK body : body = [x \in (1 .. n) \X K |-> DrainLayer(x[2], Layers - x[1], steps)]
  OBVIOUS
<1>14. ASSUME NEW k \in 1 .. n, NEW u \in K PROVE body[<<k, u>>] = DrainLayer(u, Layers - k, steps)
  <2>1. <<k, u>> \in (1 .. n) \X K
    OBVIOUS
  <2> HIDE DEF K
  <2>. QED
    BY <2>1, <1>13
<1>15. \A k \in 0 .. n : I[k] = K
  BY <1>12
<1> HIDE DEF K
<1>16. Leads(I, K, n, body)
  <2>1. \A k \in 0 .. n : I[k] \subseteq K
    BY <1>15
  <2>2. ASSUME NEW k \in 1 .. n, NEW u \in I[k - 1] PROVE body[<<k, u>>] \in I[k]
    <3>1. k - 1 \in 0 .. n /\ k \in 0 .. n
      BY <1>8
    <3>2. u \in K
      BY <3>1, <1>15
    <3>. QED
      BY <3>1, <3>2, <1>14, <1>15, <1>11
  <2>. QED
    BY <2>1, <2>2 DEF Leads
<1>17. 0 \in 0 .. n /\ n \in 0 .. n
  BY <1>8
<1>18. v0 \in I[0]
  BY <1>15, <1>17, <1>7
<1>19. Is(f)
  <2>1. PICK h \in [0 .. n -> K] : Iterates(h, n, v0, body) /\ \A k \in 0 .. n : h[k] \in I[k]
    BY <1>16, <1>18, <1>8, LoopExists
  <2>2. ASSUME NEW k \in 0 .. n PROVE h[k] = IF k = 0 THEN v0 ELSE DrainLayer(h[k - 1], Layers - k, steps)
    <3>1. CASE k = 0
      BY <3>1, <2>1 DEF Iterates
    <3>2. CASE k # 0
      <4>1. k \in 1 .. n /\ k - 1 \in 0 .. n
        BY <3>2, <1>8
      <4>2. h[k] = body[<<k, h[k - 1]>>] /\ h[k - 1] \in K
        BY <4>1, <2>1 DEF Iterates
      <4>. QED
        BY <3>2, <4>1, <4>2, <1>14
    <3>. QED
      BY <3>1, <3>2
  <2>3. h = [k \in 0 .. n |-> h[k]]
    OBVIOUS
  <2>4. Is(h)
    BY <2>2, <2>3
  <2>5. \E g : Is(g)
    BY <2>4
  <2> HIDE DEF Is
  <2>. QED
    BY <2>5, <1>9, Zenon
<1>20. \A k \in 1 .. n : f[k - 1] \in I[k - 1] => f[k] = body[<<k, f[k - 1]>>]
  <2>1. ASSUME NEW k \in 1 .. n, f[k - 1] \in I[k - 1] PROVE f[k] = body[<<k, f[k - 1]>>]
    <3>1. k \in 0 .. n /\ k - 1 \in 0 .. n /\ k # 0
      BY <1>8
    <3>2. f[k - 1] \in K
      BY <3>1, <2>1, <1>15
    <3>3. f[k] = DrainLayer(f[k - 1], Layers - k, steps)
      BY <3>1, <1>19
    <3>. QED
      BY <3>2, <3>3, <1>14
  <2>. QED
    BY <2>1
<1>21. f[0] \in I[0]
  BY <1>17, <1>18, <1>19
<1>22. f[n] \in I[n]
  BY <1>16, <1>20, <1>21, <1>8, LoopLeads, ZenonT(60)
<1>23. f[n] \in K
  BY <1>15, <1>17, <1>22
<1>24. PICK x : x = f[n]
  OBVIOUS
<1>25. x \in Wheels /\ Kept(x, Nowhere)
  BY <1>24, <1>23 DEF K
<1>26. PICK v : v = [x EXCEPT !.steps = steps]
  OBVIOUS
<1>27. x.list \in [Places -> ListRec] /\ x.timeouts \in Seq(Timers) /\ x.cnts \in [Layer -> Int] /\ x.last \in Int
       /\ x.draining \in Spot /\ x.timer \in [Timers -> TimerRec] /\ x.broken \in Why
  BY <1>25 DEF Wheels
<1>28. IsRecord(x)
  BY <1>25, WheelIsRecord
<1>29. IsRecord(v) /\ v.list = x.list /\ v.steps = steps /\ v.cnts = x.cnts /\ v.last = x.last
       /\ v.broken = x.broken /\ v.timeouts = x.timeouts /\ v.timer = x.timer /\ v.draining = x.draining
  BY <1>26, <1>28 DEF IsRecord
<1>30. v \in Wheels
  BY <1>5, <1>27, <1>29, RecordIsWheel
<1>31. Rest(x, Nowhere) => Rest(v, Nowhere)
  BY <1>29, RestSame
<1>32. Kept(v, Nowhere)
  BY <1>25, <1>29, <1>30, <1>31 DEF Kept, Sound
<1>. QED
  BY <1>10, <1>24, <1>26, <1>32

-----------------------------------------------------------------------------
TimerInv == Kept(wheel, Nowhere) /\ now \in Int /\ timeouts \in Seq(Timers)

LEMMA TimerInitInv == TimerInit => TimerInv
<1>1. SUFFICES ASSUME TimerInit PROVE TimerInv
  OBVIOUS
<1>2. PICK x : x = NoTimer
  OBVIOUS
<1>3. x = [exec |-> 0, interval |-> 0, repeats |-> 0, once |-> FALSE, pos |-> Nowhere, poped |-> FALSE,
           alive |-> FALSE, made |-> FALSE, pre |-> Null, next |-> Null]
  BY <1>2 DEF NoTimer
<1>4. x \in TimerRec /\ ~ x.alive
  BY <1>3 DEF TimerRec, Node, Spot
<1>5. wheel = [steps |-> [i \in Layer |-> -1], cnts |-> [i \in Layer |-> 0], last |-> 0,
               list |-> [pos \in Places |-> Empty], timer |-> [t \in Timers |-> x],
               timeouts |-> <<>>, draining |-> Nowhere, broken |-> "no"]
  BY <1>1, <1>2 DEF TimerInit
<1>6. Empty \in ListRec /\ Empty.size = 0
  BY DEF Empty, ListRec, Node
<1>7. IsRecord(wheel)
  BY <1>5 DEF IsRecord
<1>8. wheel \in Wheels
  <2>1. /\ wheel.steps = [i \in Layer |-> -1] /\ wheel.cnts = [i \in Layer |-> 0] /\ wheel.last = 0
        /\ wheel.list = [pos \in Places |-> Empty] /\ wheel.timer = [t \in Timers |-> x]
        /\ wheel.timeouts = <<>> /\ wheel.draining = Nowhere /\ wheel.broken = "no"
    BY <1>5
  <2>2. wheel.timeouts \in Seq(Timers) /\ wheel.draining \in Spot /\ wheel.broken \in Why
    BY <2>1 DEF Spot, Why
  <2>3. wheel.steps \in [Layer -> Int] /\ wheel.cnts \in [Layer -> Int] /\ wheel.last \in Int
    BY <2>1
  <2>4. wheel.list \in [Places -> ListRec] /\ wheel.timer \in [Timers -> TimerRec]
    BY <2>1, <1>4, <1>6
  <2>. QED
    BY <2>2, <2>3, <2>4, <1>7, RecordIsWheel
<1>9. \A u \in Timers : \A p : ~ Waits(wheel, u, p)
  BY <1>4, <1>5 DEF Waits
<1> HIDE DEF Waits
<1>10. ASSUME NEW p \in Places PROVE Chained(wheel, p, Nowhere)
  <2>1. PICK s : s = [i \in 1 .. 0 |-> Null]
    OBVIOUS
  <2>2. s \in [1 .. 0 -> Timers] /\ \A i \in 1 .. 0 : FALSE
    BY <2>1
  <2>3. wheel.list[p].size = 0
    BY <1>5, <1>6
  <2>4. Linked(wheel, p, 0, s, p = Nowhere)
    BY <2>2, <2>3, <1>9 DEF Linked
  <2>. QED
    BY <2>4 DEF Chained
<1>11. ASSUME NEW i \in Layer PROVE Counted(wheel, i)
  <2>1. WaitsIn(wheel, i) = {}
    BY <1>9 DEF WaitsIn
  <2>2. wheel.cnts[i] = 0
    BY <1>5
  <2>. QED
    BY <2>1, <2>2, FS_EmptySet DEF Counted
<1>12. wheel.draining = Nowhere /\ wheel.broken = "no"
  BY <1>5
<1>13. now \in Int /\ timeouts \in Seq(Timers)
  BY <1>1 DEF TimerInit
<1>. QED
  BY <1>8, <1>10, <1>11, <1>12, <1>13 DEF TimerInv, Kept, Rest

LEMMA AddKeeps ==
  ASSUME TimerInv, NEW t \in Timers, NEW interval \in Intervals, NEW repeats \in Repeats,
         AddWheelTimer(t, interval, repeats)
  PROVE  TimerInv'
<1>1. /\ wheel \in Wheels /\ Sound(wheel) /\ wheel.draining = Nowhere /\ Rest(wheel, Nowhere) /\ ~ wheel.timer[t].made
      /\ now \in Int
  BY DEF TimerInv, Kept, AddWheelTimer
<1>2. PICK exec : exec = now + interval * SecondTicks * TickUnits
  OBVIOUS
<1>3. PICK units : units = interval * TickUnits
  OBVIOUS
<1>4. exec \in Int /\ units \in Int /\ repeats \in Int
  <2>1. PICK a \in Nat, b \in Nat, c \in Nat : a = interval /\ b = SecondTicks /\ c = TickUnits
    BY WheelAssumption
  <2>2. a * b \in Nat /\ a * c \in Nat
    OBVIOUS
  <2>3. (a * b) * c \in Nat
    BY <2>2
  <2>4. repeats \in Nat
    BY WheelAssumption
  <2>. QED
    BY <2>1, <2>2, <2>3, <2>4, <1>1, <1>2, <1>3
<1>5. PICK once \in BOOLEAN : once = (repeats = 1)
  OBVIOUS
<1>6. PICK r : r = [exec |-> exec, interval |-> units, repeats |-> repeats, once |-> once, pos |-> Nowhere,
                    poped |-> FALSE, alive |-> TRUE, made |-> TRUE, pre |-> Null, next |-> Null]
  OBVIOUS
<1>7. r \in TimerRec /\ r.alive /\ r.pos = Nowhere
  BY <1>4, <1>6 DEF TimerRec, Node, Spot
<1>8. PICK x : x = Write(wheel, t, r)
  OBVIOUS
<1>9. wheel' = Place(x, t)
  <2>1. r = [NoTimer EXCEPT !.exec = exec, !.interval = units,
                            !.repeats = repeats, !.once = once, !.alive = TRUE, !.made = TRUE]
    <3>1. PICK n : n = NoTimer
      OBVIOUS
    <3>2. n = [exec |-> 0, interval |-> 0, repeats |-> 0, once |-> FALSE, pos |-> Nowhere, poped |-> FALSE,
               alive |-> FALSE, made |-> FALSE, pre |-> Null, next |-> Null]
      BY <3>1 DEF NoTimer
    <3>3. PICK q : q = [n EXCEPT !.exec = exec, !.interval = units,
                                 !.repeats = repeats, !.once = once, !.alive = TRUE, !.made = TRUE]
      OBVIOUS
    <3>4. q = [exec |-> q.exec, interval |-> q.interval, repeats |-> q.repeats, once |-> q.once, pos |-> q.pos,
               poped |-> q.poped, alive |-> q.alive, made |-> q.made, pre |-> q.pre, next |-> q.next]
      BY <3>2, <3>3
    <3>5. q.exec = exec /\ q.interval = units /\ q.repeats = repeats /\ q.once = once /\ q.pos = Nowhere
          /\ q.poped = FALSE /\ q.alive = TRUE /\ q.made = TRUE /\ q.pre = Null /\ q.next = Null
      BY <3>2, <3>3
    <3>. QED
      BY <1>6, <3>1, <3>3, <3>4, <3>5
  <2>2. wheel' = Place([wheel EXCEPT !.timer[t] = [NoTimer EXCEPT !.exec = exec, !.interval = units,
                            !.repeats = repeats, !.once = repeats = 1, !.alive = TRUE, !.made = TRUE]], t)
    BY <1>2, <1>3 DEF AddWheelTimer
  <2>3. wheel' = Place([wheel EXCEPT !.timer[t] = [NoTimer EXCEPT !.exec = exec, !.interval = units,
                            !.repeats = repeats, !.once = once, !.alive = TRUE, !.made = TRUE]], t)
    BY <2>2, <1>5
  <2>. QED
    BY <2>1, <2>3, <1>8 DEF Write
<1>10. Written(wheel, x, t, r)
  BY <1>1, <1>7, <1>8, WriteDoes
<1>11. Nowhere \notin Places
  BY WheelAssumption DEF Places, Nowhere, Layer
<1>12. ~ wheel.timer[t].alive
  BY <1>1 DEF Wheels, TimerRec
<1>13. Harmless(wheel, t, r)
  BY <1>7, <1>11, <1>12 DEF Harmless, Waits
<1>14. Rest(x, Nowhere)
  BY <1>1, <1>10, <1>13, WriteKeeps
<1>15. x \in Wheels /\ Sound(x) /\ x.draining = Nowhere /\ x.timer[t] = r
  BY <1>1, <1>10 DEF Written, Alike, Sound
<1>16. \A p \in Places : ~ Waits(x, t, p)
  BY <1>7, <1>11, <1>15 DEF Waits
<1>17. Nowhere \in Spot /\ x.timer[t].alive
  BY <1>7, <1>15 DEF Spot
<1>18. Kept(wheel', Nowhere)
  BY <1>9, <1>14, <1>15, <1>16, <1>17, PlaceKeeps
<1>19. now' = now /\ timeouts' = timeouts
  BY DEF AddWheelTimer
<1>20. TimerInv' = (Kept(wheel', Nowhere) /\ now' \in Int /\ timeouts' \in Seq(Timers))
  BY DEF TimerInv, Kept, Sound
<1>. QED
  BY <1>18, <1>19, <1>20 DEF TimerInv

LEMMA UnhookKeeps ==
  ASSUME NEW w, Kept(w, Nowhere), Sound(w), NEW t \in Timers, w.timer[t].alive
  PROVE  Kept(Unhook(w, t), Nowhere)
<1>1. w \in Wheels /\ w.draining = Nowhere /\ Rest(w, Nowhere)
  BY DEF Kept
<1>2. w.timer[t].pos \in Spot
  BY <1>1 DEF Wheels, TimerRec
<1>3. PICK v : v = Unhook(w, t)
  OBVIOUS
<1>4. CASE w.timer[t].poped
  <2>1. v = Gone(w, t)
    BY <1>3, <1>4 DEF Unhook
  <2>2. \A p \in Places : ~ Waits(w, t, p)
    BY <1>4 DEF Waits
  <2>3. v \in Wheels /\ Alike(w, v) /\ Rest(v, Nowhere)
    BY <2>1, <2>2, <1>1, GoneKeeps
  <2>. QED
    BY <2>3, <1>1, <1>3 DEF Kept, Alike, Sound
<1>5. CASE ~ w.timer[t].poped /\ w.timer[t].pos = Nowhere
  <2>1. v = Break(w, "unplaced") /\ "unplaced" \in Why
    BY <1>3, <1>5 DEF Unhook, Why
  <2>2. v \in Wheels /\ v.broken = "unplaced"
    BY <2>1, <1>1, BreakDoes
  <2>. QED
    BY <2>2, <1>3 DEF Kept, Sound
<1>6. CASE ~ w.timer[t].poped /\ w.timer[t].pos # Nowhere
  <2>1. PICK pos \in Places : pos = w.timer[t].pos
    BY <1>2, <1>6 DEF Spot
  <2>2. Waits(w, t, pos)
    BY <2>1, <1>6 DEF Waits
  <2>3. v = Take(w, t)
    BY <1>3, <1>6 DEF Unhook, Take
  <2>4. v \in Wheels /\ Alike(w, v) /\ Rest(v, Nowhere)
    BY <2>2, <2>3, <1>1, TakeKeeps
  <2>. QED
    BY <2>4, <1>1, <1>3 DEF Kept, Alike, Sound
<1>. QED
  BY <1>4, <1>5, <1>6

LEMMA TimerNextInv ==
  ASSUME TimerInv, [TimerNext]_timevars
  PROVE  TimerInv'
<1>1. TimerInv' = (Kept(wheel', Nowhere) /\ now' \in Int /\ timeouts' \in Seq(Timers))
  BY DEF TimerInv, Kept, Sound
<1>2. Kept(wheel, Nowhere) /\ now \in Int /\ timeouts \in Seq(Timers)
  BY DEF TimerInv
<1>3. CASE Wake
  <2>1. wheel' = wheel /\ timeouts' = timeouts /\ now' \in Int
    BY <1>3, <1>2 DEF Wake
  <2>. QED
    BY <2>1, <1>1, <1>2
<1>4. ASSUME NEW t \in Timers, NEW interval \in Intervals, NEW repeats \in Repeats, AddWheelTimer(t, interval, repeats)
      PROVE  TimerInv'
  BY <1>4, AddKeeps
<1>5. ASSUME NEW t \in Timers, RemoveTimer(t) PROVE TimerInv'
  <2>1. Sound(wheel) /\ wheel.timer[t].alive /\ wheel' = Unhook(wheel, t) /\ now' = now /\ timeouts' = timeouts
    BY <1>5 DEF RemoveTimer
  <2>2. Kept(wheel', Nowhere)
    BY <2>1, <1>2, UnhookKeeps
  <2>. QED
    BY <2>1, <2>2, <1>1, <1>2
<1>6. CASE PopAllTimeoutTimer
  <2>1. PICK x : x = Turn(wheel, now)
    OBVIOUS
  <2>2. Kept(x, Nowhere)
    BY <2>1, <1>2, TurnKeeps
  <2>3. x \in Wheels
    BY <2>2 DEF Kept
  <2>4. wheel' = [x EXCEPT !.timeouts = <<>>] /\ timeouts' = x.timeouts /\ now' = now
    BY <2>1, <1>6 DEF PopAllTimeoutTimer
  <2>5. PICK v : v = wheel'
    OBVIOUS
  <2>6. IsRecord(x)
    BY <2>3, WheelIsRecord
  <2>7. x.list \in [Places -> ListRec] /\ x.steps \in [Layer -> Int] /\ x.cnts \in [Layer -> Int] /\ x.last \in Int
        /\ x.timeouts \in Seq(Timers) /\ x.draining \in Spot /\ x.timer \in [Timers -> TimerRec] /\ x.broken \in Why
    BY <2>3 DEF Wheels
  <2>8. IsRecord(v) /\ v.list = x.list /\ v.steps = x.steps /\ v.cnts = x.cnts /\ v.last = x.last
        /\ v.broken = x.broken /\ v.timeouts = <<>> /\ v.timer = x.timer /\ v.draining = x.draining
    BY <2>4, <2>5, <2>6 DEF IsRecord
  <2>9. v \in Wheels
    <3>1. v.timeouts \in Seq(Timers)
      BY <2>8
    <3>. QED
      BY <3>1, <2>7, <2>8, RecordIsWheel
  <2>10. Rest(x, Nowhere) => Rest(v, Nowhere)
    BY <2>8, RestSame
  <2>11. Kept(v, Nowhere)
    BY <2>2, <2>8, <2>9, <2>10 DEF Kept, Sound
  <2>. QED
    BY <2>4, <2>5, <2>7, <2>11, <1>1, <1>2
<1>7. CASE Execute
  <2>1. PICK t : t = Head(timeouts)
    OBVIOUS
  <2>2. timeouts # <<>> /\ Sound(wheel) /\ timeouts' = Tail(timeouts) /\ now' = now
        /\ wheel' = IF wheel.timer[t].poped THEN Unhook(wheel, t) ELSE Pretend(wheel, t)
    BY <2>1, <1>7 DEF Execute
  <2>3. t \in Timers /\ timeouts' \in Seq(Timers)
    BY <2>1, <2>2, <1>2
  <2>4. wheel \in Wheels /\ wheel.draining = Nowhere /\ Rest(wheel, Nowhere)
    BY <2>2, <1>2 DEF Kept
  <2>5. CASE wheel.timer[t].poped
    <3>1. wheel' = Gone(wheel, t)
      BY <2>2, <2>5 DEF Unhook
    <3>2. \A p \in Places : ~ Waits(wheel, t, p)
      BY <2>5 DEF Waits
    <3>3. wheel' \in Wheels /\ Alike(wheel, wheel') /\ Rest(wheel', Nowhere)
      BY <3>1, <3>2, <2>3, <2>4, GoneKeeps
    <3>4. Kept(wheel', Nowhere)
      BY <3>3, <2>2, <2>4 DEF Kept, Alike, Sound
    <3>. QED
      BY <3>4, <2>2, <2>3, <1>1, <1>2
  <2>6. CASE ~ wheel.timer[t].poped
    <3>1. wheel' = Pretend(wheel, t)
      BY <2>2, <2>6
    <3>2. Written(wheel, wheel', t, CountedDown(wheel.timer[t])) /\ Rest(wheel', Nowhere)
      BY <3>1, <2>3, <2>4, PretendWrites
    <3>3. Kept(wheel', Nowhere)
      BY <3>2, <2>2, <2>4 DEF Written, Kept, Alike, Sound
    <3>. QED
      BY <3>3, <2>2, <2>3, <1>1, <1>2
  <2>. QED
    BY <2>5, <2>6
<1>8. CASE Sleep
  BY <1>8, <1>1, <1>2 DEF Sleep
<1>9. CASE UNCHANGED timevars
  BY <1>9, <1>1, <1>2 DEF timevars
<1>. QED
  BY <1>3, <1>4, <1>5, <1>6, <1>7, <1>8, <1>9 DEF TimerNext

-----------------------------------------------------------------------------
(* Following the links from the head of a slot gives its nodes, in order.    *)
Follows(l, n, s) == \E f : Chain(l) = f /\ f = [k \in 1 .. n |-> f[k]] /\ \A k \in 1 .. n : f[k] = s[k]
LEMMA ChainIsNodes ==
  ASSUME NEW pos, NEW n, NEW s, NEW l, Linked(wheel, pos, n, s, FALSE), l = wheel.list[pos]
  PROVE  Follows(l, n, s)
<1>1. n \in Nat /\ l.size = n
  BY DEF Linked
<1> DEFINE Is(g) == g = [k \in 1 .. n |-> IF k = 1 THEN l.head ELSE wheel.timer[g[k - 1]].next]
<1>2. PICK f : f = CHOOSE g : Is(g)
  OBVIOUS
<1>3. Chain(l) = f
  BY <1>1, <1>2 DEF Chain
<1>4. ASSUME NEW k \in 1 .. n PROVE s[k] = IF k = 1 THEN l.head ELSE wheel.timer[s[k - 1]].next
  <2>1. CASE k = 1
    <3>1. n > 0
      BY <1>1
    <3>. QED
      BY <3>1, <2>1 DEF Linked
  <2>2. CASE k # 1
    <3>1. k - 1 \in 1 .. n - 1 /\ (k - 1) + 1 = k
      BY <2>2, <1>1
    <3>2. wheel.timer[s[k - 1]].next = s[(k - 1) + 1]
      BY <3>1 DEF Linked
    <3>. QED
      BY <3>1, <3>2, <2>2
  <2>. QED
    BY <2>1, <2>2
<1>5. s = [k \in 1 .. n |-> s[k]]
  BY DEF Linked
<1>6. Is(s)
  BY <1>4, <1>5
<1>7. Is(f)
  <2>1. \E g : Is(g)
    BY <1>6
  <2> HIDE DEF Is
  <2>. QED
    BY <2>1, <1>2, Zenon
<1> DEFINE T == {k \in 0 .. n : k # 0 => f[k] = s[k]}
<1>8. 0 \in T
  BY <1>1
<1>9. ASSUME NEW k \in Nat, k < n, k \in T PROVE k + 1 \in T
  <2>1. PICK i \in 1 .. n : i = k + 1
    BY <1>1, <1>9
  <2>2. i - 1 = k /\ i \in 0 .. n /\ (i # 1 => k # 0)
    BY <2>1, <1>1
  <2>3. f[i] = IF i = 1 THEN l.head ELSE wheel.timer[f[i - 1]].next
    BY <1>7
  <2>4. f[i] = s[i]
    BY <2>2, <2>3, <1>4, <1>9
  <2>. QED
    BY <2>1, <2>2, <2>4
<1>10. 0 .. n \subseteq T
  <2> HIDE DEF T
  <2>. QED
    BY <1>1, <1>8, <1>9, CountedUpto
<1>11. ASSUME NEW k \in 1 .. n PROVE f[k] = s[k]
  <2>1. k \in 0 .. n /\ k # 0
    BY <1>1
  <2>. QED
    BY <2>1, <1>10
<1>12. f = [k \in 1 .. n |-> f[k]]
  BY <1>7
<1>. QED
  BY <1>3, <1>11, <1>12 DEF Follows

LEMMA TimerInvImplies == TimerInv => ListsMatchTimers
<1>1. SUFFICES ASSUME TimerInv PROVE ListsMatchTimers
  OBVIOUS
<1>2. wheel \in Wheels /\ wheel.broken # "link" /\ (Sound(wheel) => Rest(wheel, Nowhere))
  BY <1>1 DEF TimerInv, Kept
<1>3. \A pos : Waiting(pos) = {t \in Timers : Waits(wheel, t, pos)}
  BY DEF Waiting, Waits
<1> HIDE DEF Waits
<1>4. ASSUME Sound(wheel), NEW i \in Layer
      PROVE  wheel.cnts[i] = Cardinality(UNION {Waiting(<<i, j>>) : j \in Slot})
  <2>1. ASSUME NEW t \in WaitsIn(wheel, i) PROVE t \in UNION {Waiting(<<i, j>>) : j \in Slot}
    <3>1. PICK pos \in Places : pos[1] = i /\ Waits(wheel, t, pos) /\ t \in Timers
      BY DEF WaitsIn
    <3>2. PICK j \in Slot : pos = <<i, j>>
      BY <3>1 DEF Places
    <3>3. t \in Waiting(<<i, j>>)
      BY <3>1, <3>2, <1>3
    <3>. QED
      BY <3>3
  <2>2. ASSUME NEW t \in UNION {Waiting(<<i, j>>) : j \in Slot} PROVE t \in WaitsIn(wheel, i)
    <3>1. PICK j \in Slot : t \in Waiting(<<i, j>>)
      OBVIOUS
    <3>2. <<i, j>> \in Places /\ <<i, j>>[1] = i
      BY DEF Places
    <3>. QED
      BY <3>1, <3>2, <1>3 DEF WaitsIn
  <2>3. UNION {Waiting(<<i, j>>) : j \in Slot} = WaitsIn(wheel, i)
    BY <2>1, <2>2
  <2>4. Counted(wheel, i)
    BY <1>2, <1>4 DEF Rest
  <2>. QED
    BY <2>3, <2>4 DEF Counted
<1>5. ASSUME Sound(wheel), NEW pos \in Places, NEW l, l = wheel.list[pos]
      PROVE  /\ l.size = Cardinality(Waiting(pos))
             /\ l.size > 0 => ToSet(Chain(l)) = Waiting(pos) /\ Chain(l)[l.size] = l.tail
  <2>1. PICK n, s : Linked(wheel, pos, n, s, FALSE)
    <3>1. (pos = Nowhere) = FALSE
      BY WheelAssumption DEF Places, Nowhere, Layer
    <3>2. PICK n, s : Linked(wheel, pos, n, s, pos = Nowhere)
      BY <1>2, <1>5 DEF Rest, Chained
    <3>3. Linked(wheel, pos, n, s, FALSE)
      BY <3>1, <3>2, Zenon
    <3>. QED
      BY <3>3
  <2>2. PICK W : W = Waiting(pos)
    OBVIOUS
  <2>3. n \in Nat /\ l.size = n /\ s \in [1 .. n -> Timers] /\ (n > 0 => l.tail = s[n])
    BY <2>1, <1>5 DEF Linked
  <2>4. \A t : t \in W <=> \E i \in 1 .. n : s[i] = t
    BY <2>1, <2>2, <2>3, <1>3 DEF Linked
  <2>5. s \in Surjection(1 .. n, W) /\ s \in Injection(1 .. n, W)
    <3>1. s \in [1 .. n -> W]
      BY <2>3, <2>4
    <3>2. \A i, j \in 1 .. n : s[i] = s[j] => i = j
      BY <2>1 DEF Linked
    <3>. QED
      BY <3>1, <3>2, <2>4 DEF Surjection, Injection, IsInjective
  <2>6. IsFiniteSet(1 .. n) /\ Cardinality(1 .. n) = n
    BY <2>3, FS_Interval
  <2>7. Cardinality(W) = n
    BY <2>5, <2>6, FS_Surjection
  <2>8. PICK f : Chain(l) = f /\ f = [k \in 1 .. n |-> f[k]] /\ \A k \in 1 .. n : f[k] = s[k]
    <3>1. Follows(l, n, s)
      BY <2>1, <1>5, ChainIsNodes
    <3>. QED
      BY <3>1 DEF Follows
  <2>9. ToSet(Chain(l)) = W
    <3>1. DOMAIN f = 1 .. n
      BY <2>8
    <3>. QED
      BY <3>1, <2>4, <2>8 DEF ToSet
  <2>10. n > 0 => Chain(l)[n] = l.tail
    BY <2>3, <2>8
  <2>. QED
    BY <2>2, <2>3, <2>7, <2>9, <2>10
<1>. QED
  BY <1>2, <1>4, <1>5 DEF ListsMatchTimers

(* addTimer, removeTimer and PopAllTimeoutTimer keep the slots' lists, the   *)
(* positions that the timers remember and the counts of the layers in        *)
(* agreement: a timer is in the list in which removeTimer looks for it, in   *)
(* no other, and counted, so that poll() gets a timeout; no link leads to a  *)
(* deleted timer.  For any number of timers, slots and layers, until a slot  *)
(* is filled while it is drained, where the model ends.                      *)
THEOREM TimersStayListed == TimerSpec => []ListsMatchTimers
<1>1. TimerInit => TimerInv
  BY TimerInitInv
<1>2. TimerInv /\ [TimerNext]_timevars => TimerInv'
  BY TimerNextInv
<1>3. TimerInv => ListsMatchTimers
  BY TimerInvImplies
<1>. QED
  BY <1>1, <1>2, <1>3, PTL DEF TimerSpec
=============================================================================
