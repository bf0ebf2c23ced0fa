---------------------------- MODULE LockfreeQueue ----------------------------
(***************************************************************************)
(* util/lockfree_queue.h: a ring of capacity_ slots with three atomic      *)
(* indices.  front_ is the next slot to pop, write_ the next slot a        *)
(* MultiplePush may claim, and back_ the end of what is published.  A      *)
(* MultiplePush claims a slot by moving write_, stores into it, and waits  *)
(* its turn to move back_ over it.                                         *)
(*                                                                         *)
(* Each step is one access to an index or to a slot.  A value stands for   *)
(* the pointer that is pushed.  The clients hold the values that are not   *)
(* in the queue: a push takes a value from them, a pop or a push that      *)
(* finds the queue full gives one back.                                    *)
(***************************************************************************)
EXTENDS Integers, Sequences, FiniteSets, Functions

CONSTANTS
  Thread,
  MultiplePusher,                   \* the threads that call each operation
  MultiplePopper,
  SinglePopper,
  Value,
  NoValue,                          \* what a slot holds before its first push
  Capacity                          \* capacity_

ASSUME CapacityAssumption == Capacity \in Nat /\ Capacity > 1
ASSUME ThreadAssumption ==
  MultiplePusher \cup MultiplePopper \cup SinglePopper \subseteq Thread
ASSUME NoValueAssumption == NoValue \notin Value

VARIABLES
  data,    \* data_
  front,   \* front_
  back,    \* back_
  write,   \* write_
  op,      \* the call each thread is in: where, at which slot, which value
  held     \* the values the clients hold

ringVars == <<data, front, back, write>>
vars     == <<data, front, back, write, op, held>>

Slot == 0..(Capacity - 1)

\* (i + 1) % capacity_ for an i that is a slot
Succ(i) == IF i + 1 = Capacity THEN 0 ELSE i + 1

PushPlace   == {"pushLoad", "pushFull", "pushClaim", "pushStore", "pushPublish",
                "single", "singleStore", "singlePublish", "pushFailed"}
PopPlace    == {"popLoad", "popEmpty", "popRead", "popClaim", "popSingle",
                "popSingleTake", "popped"}
OpPlace     == {"idle"} \cup PushPlace \cup PopPlace
OpType      == [at : OpPlace, pos : Slot, val : Value \cup {NoValue}]
Idle        == [at |-> "idle", pos |-> 0, val |-> NoValue]

TypeOK ==
  /\ data \in [Slot -> Value \cup {NoValue}]
  /\ front \in Slot
  /\ back \in Slot
  /\ write \in Slot
  /\ op \in [Thread -> OpType]
  /\ held \subseteq Value

Init ==
  /\ data = [i \in Slot |-> NoValue]
  /\ front = 0
  /\ back = 0
  /\ write = 0
  /\ op = [t \in Thread |-> Idle]
  /\ held = Value

At(t, place)   == op[t].at = place
GoTo(t, place) == op' = [op EXCEPT ![t].at = place]

-----------------------------------------------------------------------------
(* Calls.                                                                  *)

Call(t, place, v) ==
  /\ At(t, "idle")
  /\ op' = [op EXCEPT ![t] = [Idle EXCEPT !.at = place, !.val = v]]
  /\ UNCHANGED ringVars

StartPush(t, v) ==
  /\ t \in MultiplePusher
  /\ v \in held
  /\ held' = held \ {v}
  /\ Call(t, "pushLoad", v)

StartSinglePush(t, v) ==
  /\ v \in held
  /\ held' = held \ {v}
  /\ Call(t, "single", v)

StartPop(t) ==
  /\ UNCHANGED held
  /\ \/ t \in MultiplePopper /\ Call(t, "popLoad", NoValue)
     \/ t \in SinglePopper /\ Call(t, "popSingle", NoValue)

\* A pop that succeeded, or a push that found the queue full, leaves the
\* caller with a value.
Return(t) ==
  /\ op[t].at \in {"popped", "pushFailed"}
  /\ held' = held \cup {op[t].val}
  /\ op' = [op EXCEPT ![t] = Idle]
  /\ UNCHANGED ringVars

-----------------------------------------------------------------------------
(* MultiplePush.                                                           *)

PushLoadWrite(t) ==
  /\ At(t, "pushLoad")
  /\ op' = [op EXCEPT ![t].at = "pushFull", ![t].pos = write]
  /\ UNCHANGED <<ringVars, held>>

PushCheckFull(t) ==
  /\ At(t, "pushFull")
  /\ GoTo(t, IF Succ(op[t].pos) = front THEN "pushFailed" ELSE "pushClaim")
  /\ UNCHANGED <<ringVars, held>>

\* Fault: write_ is stored, not exchanged.
PushClaimUnchecked(t) ==
  /\ At(t, "pushClaim")
  /\ write' = Succ(op[t].pos)
  /\ GoTo(t, "pushStore")
  /\ UNCHANGED <<data, front, back, held>>

\* compare_exchange on write_; a failure starts over
PushClaim(t) ==
  /\ At(t, "pushClaim")
  /\ IF write = op[t].pos
       THEN write' = Succ(write) /\ GoTo(t, "pushStore")
       ELSE GoTo(t, "pushLoad") /\ UNCHANGED write
  /\ UNCHANGED <<data, front, back, held>>

PushStore(t) ==
  /\ At(t, "pushStore")
  /\ data' = [data EXCEPT ![op[t].pos] = op[t].val]
  /\ GoTo(t, "pushPublish")
  /\ UNCHANGED <<front, back, write, held>>

\* Fault: back_ is moved without waiting for the earlier slots.
PushPublishEarly(t) ==
  /\ At(t, "pushPublish")
  /\ back' = Succ(op[t].pos)
  /\ op' = [op EXCEPT ![t] = Idle]
  /\ UNCHANGED <<data, front, write, held>>

\* The loop on compare_exchange of back_ spins until it is this slot's turn.
PushPublish(t) ==
  /\ At(t, "pushPublish")
  /\ back = op[t].pos
  /\ back' = Succ(back)
  /\ op' = [op EXCEPT ![t] = Idle]
  /\ UNCHANGED <<data, front, write, held>>

-----------------------------------------------------------------------------
(* MultiplePop.                                                            *)

PopLoadFront(t) ==
  /\ At(t, "popLoad")
  /\ op' = [op EXCEPT ![t].at = "popEmpty", ![t].pos = front]
  /\ UNCHANGED <<ringVars, held>>

PopCheckEmpty(t) ==
  /\ At(t, "popEmpty")
  /\ IF op[t].pos = back THEN op' = [op EXCEPT ![t] = Idle]
                         ELSE GoTo(t, "popRead")
  /\ UNCHANGED <<ringVars, held>>

PopRead(t) ==
  /\ At(t, "popRead")
  /\ op' = [op EXCEPT ![t].at = "popClaim", ![t].val = data[op[t].pos]]
  /\ UNCHANGED <<ringVars, held>>

\* Fault: front_ is stored, not exchanged.
PopClaimUnchecked(t) ==
  /\ At(t, "popClaim")
  /\ front' = Succ(op[t].pos)
  /\ GoTo(t, "popped")
  /\ UNCHANGED <<data, back, write, held>>

PopClaim(t) ==
  /\ At(t, "popClaim")
  /\ IF front = op[t].pos
       THEN front' = Succ(front) /\ GoTo(t, "popped")
       ELSE GoTo(t, "popLoad") /\ UNCHANGED front
  /\ UNCHANGED <<data, back, write, held>>

-----------------------------------------------------------------------------
(* SinglePush and SinglePop: the indices are stored, not exchanged, and    *)
(* SinglePush leaves write_ where it is.  The only caller of SinglePush is *)
(* the constructor of LogWriter (module LogWriter); the threads of this    *)
(* specification do not call it.                                           *)

SingleCheckFull(t) ==
  /\ At(t, "single")
  /\ op' = [op EXCEPT ![t].at = IF Succ(back) = front THEN "pushFailed"
                                                      ELSE "singleStore",
                      ![t].pos = back]
  /\ UNCHANGED <<ringVars, held>>

SingleStore(t) ==
  /\ At(t, "singleStore")
  /\ data' = [data EXCEPT ![op[t].pos] = op[t].val]
  /\ GoTo(t, "singlePublish")
  /\ UNCHANGED <<front, back, write, held>>

SinglePublish(t) ==
  /\ At(t, "singlePublish")
  /\ back' = Succ(op[t].pos)
  /\ op' = [op EXCEPT ![t] = Idle]
  /\ UNCHANGED <<data, front, write, held>>

SingleCheckEmpty(t) ==
  /\ At(t, "popSingle")
  /\ op' = [op EXCEPT ![t] = IF front = back THEN Idle
                             ELSE [Idle EXCEPT !.at = "popSingleTake", !.pos = front]]
  /\ UNCHANGED <<ringVars, held>>

\* val = data_[front], then front_.store
SingleTake(t) ==
  /\ At(t, "popSingleTake")
  /\ front' = Succ(op[t].pos)
  /\ op' = [op EXCEPT ![t].at = "popped", ![t].val = data[op[t].pos]]
  /\ UNCHANGED <<data, back, write, held>>

-----------------------------------------------------------------------------
MultiplePush(t) ==
  PushLoadWrite(t) \/ PushCheckFull(t) \/ PushClaim(t) \/ PushStore(t)
    \/ PushPublish(t)
MultiplePop(t) == PopLoadFront(t) \/ PopCheckEmpty(t) \/ PopRead(t) \/ PopClaim(t)
SinglePush(t)  == SingleCheckFull(t) \/ SingleStore(t) \/ SinglePublish(t)
SinglePop(t)   == SingleCheckEmpty(t) \/ SingleTake(t)

\* The rest of a call that a thread has started.
Step(t) ==
  MultiplePush(t) \/ MultiplePop(t) \/ SinglePop(t) \/ Return(t)

Next ==
  \E t \in Thread :
    \/ \E v \in Value : StartPush(t, v)
    \/ StartPop(t)
    \/ Step(t)

\* A thread inside a call is scheduled; nothing makes it start one.
Fairness == \A t \in Thread : WF_vars(Step(t))

Spec     == Init /\ [][Next]_vars
FairSpec == Spec /\ Fairness

-----------------------------------------------------------------------------
(* Properties.                                                             *)

\* The slots from i up to, and without, j.
Distance(i, j) == IF i <= j THEN j - i ELSE j - i + Capacity
SlotsFrom(i, j) == {s \in Slot : Distance(i, s) < Distance(i, j)}

Published == SlotsFrom(front, back)

\* The threads whose push of v is not published, and whose pop has taken it.
Pushing(v) == {t \in Thread : op[t].at \in PushPlace /\ op[t].val = v}
Popped(v)  == {t \in Thread : op[t].at = "popped" /\ op[t].val = v}

\* No value is lost and none is delivered twice: at any moment each value is
\* with the clients, or in one push, or in one published slot, or in one pop.
EachValueInOnePlace ==
  \A v \in Value :
    Cardinality({i \in Published : data[i] = v}) + Cardinality(Pushing(v))
      + Cardinality(Popped(v)) + (IF v \in held THEN 1 ELSE 0) = 1

\* Every value that was pushed is found again: none of them vanishes from the
\* queue, the calls and the clients, however the calls are interleaved.
NoValueLost ==
  \A v \in Value :
    \/ v \in held
    \/ \E i \in Published : data[i] = v
    \/ Pushing(v) \cup Popped(v) # {}

\* The claimed slots, from back_ up to write_, are exactly those the threads
\* between claim and publish are storing to, one each: nobody stores to a
\* slot that a popper can read.
Claiming(t) == op[t].at \in {"pushStore", "pushPublish"}
ClaimedSlotsAreOwned ==
  /\ {op[t].pos : t \in {u \in Thread : Claiming(u)}} = SlotsFrom(back, write)
  /\ \A t, u \in Thread :
       Claiming(t) /\ Claiming(u) /\ t # u => op[t].pos # op[u].pos

\* The ring, the calls on it and the clients agree on where each value is and
\* whose each slot is.
QueueInv == TypeOK /\ EachValueInOnePlace /\ ClaimedSlotsAreOwned

\* A push that has claimed its slot is published: the threads that spin on
\* back_ wait for each other in a chain that has an end.
ClaimedPushCompletes == \A t \in Thread : Claiming(t) ~> ~Claiming(t)

\* The published slots, in order, are a FIFO queue.
Contents ==
  [i \in 1..Distance(front, back) |-> data[(front + i - 1) % Capacity]]
Delivered ==
  [t \in Thread |-> IF op[t].at = "popped" THEN op[t].val ELSE NoValue]

Fifo == INSTANCE FifoQueue WITH queue <- Contents, delivered <- Delivered

ImplementsFifoQueue == Fifo!Spec
=============================================================================
