----------------------------- MODULE TimerWheel -----------------------------
(***************************************************************************)
(* timer.cc: the timing wheel of a loop, with the linked lists of its      *)
(* slots (linked_list.h).  The loop sleeps in poll() until the timeout the *)
(* wheel gives it or an event, handles events (which add and remove        *)
(* timers), and turns the wheel, which hands it the timers to execute.     *)
(*                                                                         *)
(* wheel is the whole TimerWheelManager as one record, so that the loops   *)
(* of PopAllTimeoutTimer are recursive functions over their turns.  An     *)
(* access out of range, to a null pointer or to a deleted timer sets       *)
(* wheel.broken, as does a slot that is filled while it is drained, and    *)
(* the model ends there.  A callback removes no timer but the one that is  *)
(* executed.                                                               *)
(* Cancel() and the heap TimerManager have no caller.                      *)
(***************************************************************************)
EXTENDS Integers, Sequences, SequencesExt, FiniteSets

CONSTANTS
  Timers,      \* the Timer objects of a run, each made once
  WheelSize,   \* wheel_size_
  Layers,      \* layers_
  TickUnits,   \* units of time in a tick (tickms_, a millisecond)
  SecondTicks, \* ticks in a second
  Intervals,   \* intervals of the timers, in seconds
  Repeats,     \* repeats of the timers, 0 for one that never ends
  MaxNow       \* bound of the clock

ASSUME WheelAssumption ==
  /\ "null" \notin Timers
  /\ WheelSize \in Nat \ {0, 1} /\ Layers \in Nat \ {0} /\ TickUnits \in Nat \ {0}
  /\ SecondTicks \in Nat \ {0} /\ Repeats \subseteq Nat /\ Intervals \subseteq Nat /\ MaxNow \in Nat

VARIABLES
  now,       \* Time::Now(), in units
  wheel,     \* the TimerWheelManager and the timers in it
  deadline,  \* when the poll() of the loop returns for the timeout, -1 without one
  phase,     \* "asleep" in poll(), "awake" before the wheel turns, "executing" after
  timeouts,  \* the timers that are to be executed in this pass
  early,     \* history: the most units by which a timer was executed early
  dropped    \* history: the units that passes left out of the wheel's turn

timevars == <<now, wheel, deadline, phase, timeouts, early, dropped>>

Null == "null"
Layer == 0 .. Layers - 1
Slot == 0 .. WheelSize - 1
Places == Layer \X Slot
Nowhere == <<-1, -1>>   \* position_ before the timer is placed: not initialised
NoTimer == [exec |-> 0, interval |-> 0, repeats |-> 0, once |-> FALSE, pos |-> Nowhere, poped |-> FALSE,
            alive |-> FALSE, made |-> FALSE, pre |-> Null, next |-> Null]
\* pow(wheel_size_, i)
Pow(i) == LET pow[k \in 0 .. i] == IF k = 0 THEN 1 ELSE WheelSize * pow[k - 1] IN pow[i]

-----------------------------------------------------------------------------
(* LinkedList of the slot pos = <<layer, step>>, whose nodes are the timers. *)
Break(w, why) == [w EXCEPT !.broken = why]
Sound(w) == w.broken = "no"
SetList(w, pos, l) == [w EXCEPT !.list[pos] = l]
Empty == [head |-> Null, tail |-> Null, size |-> 0]

\* The popped node is the head before; the new head is linked back to the tail.
PopNode(w, pos) ==
  LET l == w.list[pos]
      second == w.timer[l.head].next
  IN  IF l.size = 1 THEN SetList(w, pos, Empty)
      ELSE IF second = Null THEN Break(w, "link")
      ELSE SetList([w EXCEPT !.timer[second].pre = l.tail, !.timer[l.tail].next = second],
                   pos, [l EXCEPT !.head = second, !.size = @ - 1])
PushNode(w, pos, t) ==
  LET l == w.list[pos]
  IN  IF l.size = 0
      THEN SetList([w EXCEPT !.timer[t].pre = Null, !.timer[t].next = Null], pos, [head |-> t, tail |-> t, size |-> 1])
      ELSE SetList([w EXCEPT !.timer[l.tail].next = t, !.timer[t].pre = l.tail, !.timer[t].next = Null],
                   pos, [l EXCEPT !.tail = t, !.size = @ + 1])
\* Whether t is the head or the tail is read from its own links.
EraseNode(w, pos, t) ==
  LET l == [w.list[pos] EXCEPT !.size = @ - 1]
      before == w.timer[t].pre
      after == w.timer[t].next
      second == w.timer[l.head].next
  IN  IF l.size < 0 THEN w
      ELSE IF before = Null
           THEN SetList(IF second = Null THEN w ELSE [w EXCEPT !.timer[second].pre = Null], pos, [l EXCEPT !.head = second])
      ELSE IF after = Null THEN SetList([w EXCEPT !.timer[before].next = Null], pos, [l EXCEPT !.tail = before])
      ELSE SetList([w EXCEPT !.timer[before].next = after, !.timer[after].pre = before], pos, l)

-----------------------------------------------------------------------------
(* TimerWheelManager::addTimer: the layer by what is left, the step by the   *)
(* place where the layer stands.                                             *)
Left(w, t) == IF w.timer[t].exec < w.last THEN 0 ELSE (w.timer[t].exec - w.last) \div TickUnits
FitsLayer(interval) == {i \in Layer : interval < Pow(i + 1)}
StepOf(w, i, interval) ==
  LET s == w.steps[i] + interval \div Pow(i) IN IF s < 0 THEN s ELSE s % WheelSize
Place(w, t) ==
  LET fits == FitsLayer(Left(w, t))
      i == CHOOSE n \in fits : \A m \in fits : n <= m
      pos == <<i, StepOf(w, i, Left(w, t))>>
  IN  IF ~ Sound(w) \/ fits = {} THEN w
      ELSE IF pos[2] < 0 THEN Break(w, "range")
      ELSE IF w.draining = pos THEN Break(w, "refilled")
      ELSE PushNode([w EXCEPT !.timer[t].pos = pos, !.timer[t].poped = FALSE, !.cnts[i] = @ + 1], pos, t)

(* PopAllTimeoutTimer.  First how far each layer turns, with the carry.      *)
Digit(ticks, i) == (ticks \div Pow(i)) % WheelSize
NewSteps(w, ticks) ==
  LET raw[i \in Layer] == Digit(ticks, i) + w.steps[i]
                            + (IF i > 0 /\ raw[i - 1] > WheelSize - 1 THEN 1 ELSE 0)
  IN  [i \in Layer |-> IF raw[i] < 0 THEN raw[i] ELSE raw[i] % WheelSize]
\* Fault: only the slot where the layer comes to stand is drained.
LastPassed(old, new) == IF new < 0 THEN <<>> ELSE <<new>>
\* The slots from where a layer stood to where it will stand.
Passed(old, new) ==
  LET first == IF old < 0 THEN old + 1 ELSE old
      last == IF new < old THEN new + WheelSize ELSE new
  IN  [k \in 1 .. (IF last < first THEN 0 ELSE last - first + 1) |-> (first + k - 1) % WheelSize]

\* PretendExecute: does a timer that is handed out stay for another time?
Pretend(w, t) == [w EXCEPT !.timer[t].repeats = @ - 1, !.timer[t].exec = IF w.timer[t].repeats = 1 THEN @ ELSE @ + w.timer[t].interval]
PopOne(w, pos) ==
  LET t == w.list[pos].head
      popped == [PopNode(w, pos) EXCEPT !.timer[t].poped = TRUE, !.cnts[pos[1]] = @ - 1]
      handed == [Pretend(popped, t) EXCEPT !.timeouts = Append(@, t)]
  IN  IF ~ Sound(w) THEN w
      ELSE IF t = Null THEN Break(w, "link")
      ELSE IF ~ w.timer[t].alive THEN Break(w, "link")
      ELSE IF ~ Sound(popped) THEN popped
      ELSE IF pos[1] > 0 THEN Place(popped, t)
      ELSE IF w.timer[t].repeats = 1 THEN handed ELSE Place(handed, t)
\* The timers that were in the slot when the pass came to it; the last one may come back.
Drain(w, pos) ==
  LET size == w.list[pos].size
      drained[k \in 0 .. size] ==
        IF k = 0 THEN w ELSE PopOne([drained[k - 1] EXCEPT !.draining = IF k = size THEN Nowhere ELSE pos], pos)
  IN  drained[size]
DrainLayer(w, i, steps) ==
  LET slots == Passed(w.steps[i], steps[i])
      drained[k \in 0 .. Len(slots)] == IF k = 0 THEN w ELSE Drain(drained[k - 1], <<i, slots[k]>>)
  IN  drained[Len(slots)]
\* Fault: last_rotate_time_ stays what it was.
TurnLate(w, time) ==
  LET steps == NewSteps(w, (time - w.last) \div TickUnits)
      turned[k \in 0 .. Layers] ==
        IF k = 0 THEN [w EXCEPT !.timeouts = <<>>] ELSE DrainLayer(turned[k - 1], Layers - k, steps)
  IN  [turned[Layers] EXCEPT !.steps = steps]
Turn(w, time) ==
  LET steps == NewSteps(w, (time - w.last) \div TickUnits)
      turned[k \in 0 .. Layers] ==
        IF k = 0 THEN [w EXCEPT !.last = time, !.timeouts = <<>>] ELSE DrainLayer(turned[k - 1], Layers - k, steps)
  IN  [turned[Layers] EXCEPT !.steps = steps]

NextTimeoutInterval(w) ==
  LET busy == {i \in Layer : w.cnts[i] > 0}
  IN  IF busy = {} THEN -1 ELSE Pow(CHOOSE i \in busy : \A j \in busy : i <= j)

\* The timer is deleted.
Gone(w, t) == [w EXCEPT !.timer[t] = [NoTimer EXCEPT !.made = TRUE]]
\* Fault: the timer leaves its list, and its layer still counts it.
UnhookUncounted(w, t) ==
  IF w.timer[t].poped THEN Gone(w, t)
  ELSE IF w.timer[t].pos = Nowhere THEN Break(w, "unplaced")
  ELSE Gone(EraseNode(w, w.timer[t].pos, t), t)
Unhook(w, t) ==
  IF w.timer[t].poped THEN Gone(w, t)
  ELSE IF w.timer[t].pos = Nowhere THEN Break(w, "unplaced")
  ELSE Gone([EraseNode(w, w.timer[t].pos, t) EXCEPT !.cnts[w.timer[t].pos[1]] = @ - 1], t)

-----------------------------------------------------------------------------
TimerInit ==
  /\ now = 0 /\ deadline = -1 /\ phase = "awake" /\ timeouts = <<>>
  /\ wheel = [steps |-> [i \in Layer |-> -1], cnts |-> [i \in Layer |-> 0], last |-> 0,
              list |-> [pos \in Places |-> Empty], timer |-> [t \in Timers |-> NoTimer],
              timeouts |-> <<>>, draining |-> Nowhere, broken |-> "no"]
  /\ early = 0 /\ dropped = 0

\* The poll() of this pass has no timeout: nothing waited in the wheel.
Rested == deadline < 0
\* poll() returns, for an event or at the latest for the timeout.
Wake ==
  /\ phase = "asleep" /\ phase' = "awake" /\ deadline' = IF Rested THEN -1 ELSE 0
  /\ now' \in now .. (IF deadline < 0 \/ deadline > MaxNow THEN MaxNow ELSE deadline)
  /\ UNCHANGED <<wheel, timeouts, early, dropped>>

AddWheelTimer(t, interval, repeats) ==
  /\ phase = "awake" /\ Sound(wheel) /\ ~ wheel.timer[t].made
  /\ wheel' = Place([wheel EXCEPT !.timer[t] =
                [NoTimer EXCEPT !.exec = now + interval * SecondTicks * TickUnits, !.interval = interval * TickUnits,
                                !.repeats = repeats, !.once = repeats = 1, !.alive = TRUE, !.made = TRUE]], t)
  /\ UNCHANGED <<now, deadline, phase, timeouts, early, dropped>>
\* The owner cancels a timer that was not executed, or one that repeats.
RemoveTimer(t) ==
  /\ phase = "awake" /\ Sound(wheel) /\ wheel.timer[t].alive
  /\ wheel' = Unhook(wheel, t)
  /\ UNCHANGED <<now, deadline, phase, timeouts, early, dropped>>
PopAllTimeoutTimer ==
  /\ phase = "awake" /\ Sound(wheel)
  /\ wheel' = [Turn(wheel, now) EXCEPT !.timeouts = <<>>]
  /\ timeouts' = Turn(wheel, now).timeouts
  /\ dropped' = dropped + ((now - wheel.last) % TickUnits)
  /\ phase' = "executing"
  /\ UNCHANGED <<now, deadline, early>>
\* Timer::Execute of the next timer; its callback removes it when it is the last time.
\* A timer that repeats is counted down again and moved on once more.
Execute ==
  /\ phase = "executing" /\ timeouts # <<>> /\ Sound(wheel)
  /\ LET t == Head(timeouts)
         last == wheel.timer[t].poped
         by == wheel.timer[t].exec - now
     IN  /\ early' = IF wheel.timer[t].once /\ by > early THEN by ELSE early
         /\ wheel' = IF last THEN Unhook(wheel, t) ELSE Pretend(wheel, t)
  /\ timeouts' = Tail(timeouts)
  /\ UNCHANGED <<now, deadline, phase, dropped>>
\* The loop asks for the timeout and sleeps.
Sleep ==
  /\ phase = "executing" /\ timeouts = <<>> /\ Sound(wheel)
  /\ phase' = "asleep"
  /\ deadline' = IF NextTimeoutInterval(wheel) < 0 THEN -1 ELSE now + NextTimeoutInterval(wheel) * TickUnits
  /\ UNCHANGED <<now, wheel, timeouts, early, dropped>>

TimerNext ==
  \/ Wake \/ PopAllTimeoutTimer \/ Execute \/ Sleep
  \/ \E t \in Timers, interval \in Intervals, repeats \in Repeats : AddWheelTimer(t, interval, repeats)
  \/ \E t \in Timers : RemoveTimer(t)

TimerSpec == TimerInit /\ [][TimerNext]_timevars

-----------------------------------------------------------------------------
Waiting(pos) == {t \in Timers : wheel.timer[t].alive /\ ~ wheel.timer[t].poped /\ wheel.timer[t].pos = pos}
Chain(l) == LET at[k \in 1 .. l.size] == IF k = 1 THEN l.head ELSE wheel.timer[at[k - 1]].next IN at

(* The slots, the positions and the counts agree as long as no slot was      *)
(* filled while it was drained: a timer is in the list that its position     *)
(* names, where RemoveTimer looks for it, and in no other, and a waiting     *)
(* timer is counted, so that poll() gets a timeout.  Until then no link is   *)
(* followed to a deleted timer or to nowhere.                                *)
ListsMatchTimers ==
  /\ wheel.broken # "link"
  /\ Sound(wheel) =>
       /\ \A i \in Layer : wheel.cnts[i] = Cardinality(UNION {Waiting(<<i, j>>) : j \in Slot})
       /\ \A pos \in Places :
            LET l == wheel.list[pos]
            IN  /\ l.size = Cardinality(Waiting(pos))
                /\ l.size > 0 => ToSet(Chain(l)) = Waiting(pos) /\ Chain(l)[l.size] = l.tail

(* A timer that comes once comes less than a turn of all layers but the top  *)
(* one too early, and when the loop goes to sleep none is left waiting for   *)
(* longer after its time than the passes dropped of the ticks.               *)
Slack == Pow(Layers - 1) * TickUnits
WaitingOnce == {t \in Timers : wheel.timer[t].once /\ wheel.timer[t].alive /\ ~ wheel.timer[t].poped
                               /\ wheel.timer[t].pos # Nowhere}
FiresInTime ==
  Sound(wheel) =>
    /\ early < Slack
    /\ phase = "asleep" => \A t \in WaitingOnce : now - wheel.timer[t].exec <= dropped

(* AddTimer takes the distance of a timer from the last turn of the wheel,    *)
(* and a timer too far for every layer is in no list and never executed.      *)
(* That happens only to one that is added after a poll() without a timeout,   *)
(* however long that was: after any other the last turn is so near that a     *)
(* timer of these intervals fits.  One that comes once and moves down fits.   *)
Unplaced(t) == wheel.timer[t].alive /\ ~ wheel.timer[t].poped /\ wheel.timer[t].pos = Nowhere
LostOnlyAfterRest ==
  [][Sound(wheel') =>
       \A t \in Timers : /\ Unplaced(t)' => Unplaced(t) \/ Rested
                         /\ phase' = "asleep" => ~ (wheel'.timer[t].once /\ wheel'.timer[t].alive /\ wheel'.timer[t].poped)]_timevars
=============================================================================
