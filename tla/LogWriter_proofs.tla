---------------------------- MODULE LogWriter_proofs ----------------------------
(***************************************************************************)
(* The log writer for any number of threads, LogInfos, appenders and       *)
(* records, and a pool of any capacity: no LogInfo is in two places, no    *)
(* record that reached a LogInfo is lost or written twice, and each pipe   *)
(* has room and a task.                                                    *)
(*                                                                         *)
(* The invariant of the queue alone (RingInv of LockfreeQueue_proofs) does *)
(* not hold of this pool: SinglePush leaves write_ at 0.  What keeps its   *)
(* values apart instead is that the ring never goes round: back_ stays     *)
(* where the constructor left it, front_ only grows, and the one push that *)
(* claims a slot finds slot 0 popped already and never publishes.          *)
(***************************************************************************)
EXTENDS LogWriter, LockfreeQueue_proofs

\* Where the calls of each thread on the pool can be.
CallPlaces ==
  /\ op[Main].at \in {"idle", "single", "singleStore", "singlePublish", "pushFailed"}
  /\ op[Writer].at \in {"idle", "pushLoad", "pushFull", "pushClaim", "pushStore",
                        "pushPublish", "pushFailed"}
  /\ \A t \in Logger : op[t].at \in {"idle", "popLoad", "popEmpty", "popRead",
                                     "popClaim", "popSingle", "popped"}

\* Main fills the pool before any other thread calls it.
MainIsFirst ==
  /\ ~built => front = 0 /\ \A t \in Thread \ {Main} : op[t].at = "idle"
  /\ built => op[Main].at = "idle"
  /\ op[Main].at \in {"singleStore", "singlePublish"} => op[Main].pos = back /\ back + 1 < Capacity
  /\ op[Main].at = "singlePublish" => data[back] = op[Main].val

\* The indices do not go round, and the writer does not get beyond slot 0.
RingIsUnrolled ==
  /\ front <= back
  /\ write = IF Claiming(Writer) THEN 1 ELSE 0
  /\ op[Writer].at # "idle" => front > 0
  /\ op[Writer].at \in {"pushFull", "pushClaim", "pushStore", "pushPublish"} => op[Writer].pos = 0

\* A logger whose pop will succeed has read what is in the slot it takes.
LoggersKnow ==
  \A t \in Logger :
    /\ op[t].at \in {"popEmpty", "popRead", "popClaim"} => op[t].pos <= front
    /\ op[t].at \in {"popRead", "popClaim"} /\ op[t].pos = front => front < back
    /\ op[t].at = "popClaim" /\ op[t].pos = front => op[t].val = data[front]
    /\ op[t].at = "popped" => front > 0

PoolInv ==
  /\ TypeOK /\ CallPlaces /\ MainIsFirst /\ RingIsUnrolled /\ LoggersKnow
  /\ OneOwner /\ NoValueLost

-----------------------------------------------------------------------------
(* The pool. *)

LEMMA PublishedIsRange ==
  ASSUME TypeOK, front <= back
  PROVE  Published = front .. back - 1
BY CapacityAssumption DEF TypeOK, Published, SlotsFrom, Distance, Slot

LEMMA ThreadsOfLog ==
  /\ Main \in Thread /\ Writer \in Thread /\ Main # Writer
  /\ Logger \subseteq Thread /\ Main \notin Logger /\ Writer \notin Logger
  /\ Thread = Logger \cup {Main, Writer}
BY LogThreadsAssumption, ThreadAssumption DEF Logger

\* What a step on the pool leaves alone that does not touch the ring.
LEMMA SameRing ==
  ASSUME UNCHANGED ringVars
  PROVE  /\ Published' = Published
         /\ data' = data /\ front' = front /\ back' = back /\ write' = write
BY DEF ringVars, Published, SlotsFrom, Distance

(* A call begins: Main pushes a LogInfo that is held, or the writer does, or *)
(* a logger pops.                                                            *)
LEMMA PushBegins ==
  ASSUME PoolInv, UNCHANGED built, NEW t \in Thread, NEW v \in Value, v \in held, held' = held \ {v},
         \/ t = Main /\ ~built /\ Call(t, "single", v)
         \/ t = Writer /\ built /\ front > 0 /\ Call(t, "pushLoad", v)
  PROVE  PoolInv' /\ front' = front /\ \A u \in Thread \ {t} : op'[u] = op[u]
<1> USE DEF PoolInv
<1>1. /\ op[t].at = "idle" /\ UNCHANGED ringVars
      /\ op' \in [Thread -> OpType] /\ \A u \in Thread \ {t} : op'[u] = op[u]
      /\ op'[t].at \in {"single", "pushLoad"} /\ op'[t].val = v
      /\ op'[t].at = "single" <=> t = Main /\ ~built
      /\ op'[t].at = "pushLoad" <=> t = Writer /\ built /\ front > 0
  BY CallIsTyped, ThreadsOfLog
<1>2. /\ Published' = Published
      /\ data' = data /\ front' = front /\ back' = back /\ write' = write
  BY <1>1, SameRing
<1>3. TypeOK'
  BY <1>1, <1>2 DEF TypeOK
<1>4. CallPlaces' /\ LoggersKnow'
  BY <1>1, <1>2, ThreadsOfLog DEF CallPlaces, LoggersKnow
<1>5. MainIsFirst'
  BY <1>1, <1>2, ThreadsOfLog DEF MainIsFirst
<1>6. RingIsUnrolled'
  BY <1>1, <1>2, ThreadsOfLog DEF RingIsUnrolled, Claiming
<1>7. OneOwner'
  BY <1>1, <1>2 DEF OneOwner, HasValue, PushPlace
<1>8. NoValueLost'
  BY <1>1, <1>2 DEF NoValueLost, Pushing, Popped, PushPlace
<1>. QED
  BY <1>1, <1>2, <1>3, <1>4, <1>5, <1>6, <1>7, <1>8

LEMMA PopBegins ==
  ASSUME PoolInv, UNCHANGED built, built, NEW t \in Logger, StartPop(t)
  PROVE  PoolInv' /\ front' = front /\ held' = held /\ \A u \in Thread \ {t} : op'[u] = op[u]
<1> USE DEF PoolInv
<1>1. /\ op[t].at = "idle" /\ UNCHANGED ringVars /\ held' = held
      /\ op' \in [Thread -> OpType] /\ \A u \in Thread \ {t} : op'[u] = op[u]
      /\ op'[t].at \in {"popLoad", "popSingle"}
  BY CallIsTyped, ThreadsOfLog DEF StartPop
<1>2. /\ Published' = Published
      /\ data' = data /\ front' = front /\ back' = back /\ write' = write
  BY <1>1, SameRing
<1>3. TypeOK'
  BY <1>1, <1>2 DEF TypeOK
<1>4. CallPlaces' /\ LoggersKnow'
  BY <1>1, <1>2, ThreadsOfLog DEF CallPlaces, LoggersKnow
<1>5. MainIsFirst'
  BY <1>1, <1>2, ThreadsOfLog DEF MainIsFirst
<1>6. RingIsUnrolled'
  BY <1>1, <1>2, ThreadsOfLog DEF RingIsUnrolled, Claiming
<1>7. OneOwner'
  BY <1>1, <1>2 DEF OneOwner, HasValue, PushPlace
<1>8. NoValueLost'
  BY <1>1, <1>2 DEF NoValueLost, Pushing, Popped, PushPlace
<1>. QED
  BY <1>1, <1>2, <1>3, <1>4, <1>5, <1>6, <1>7, <1>8

(* A call ends with a LogInfo in the hands of the thread. *)
LEMMA CallReturns ==
  ASSUME PoolInv, UNCHANGED built, NEW t \in Thread, Return(t)
  PROVE  /\ PoolInv' /\ front' = front /\ \A u \in Thread \ {t} : op'[u] = op[u]
         /\ op'[t].at = "idle" /\ held' = held \cup {op[t].val} /\ op[t].val \in Value \ held
<1> USE DEF PoolInv
<1>0. /\ op \in [Thread -> OpType] /\ op[t].at \in {"popped", "pushFailed"} /\ UNCHANGED ringVars
      /\ held' = held \cup {op[t].val} /\ op' = [op EXCEPT ![t] = Idle]
  BY DEF TypeOK, Return
<1>1. /\ op' \in [Thread -> OpType] /\ \A u \in Thread \ {t} : op'[u] = op[u]
      /\ op'[t].at = "idle" /\ HasValue(t) /\ op[t].val \in Value \ held
  BY <1>0, IdleIsTyped DEF OneOwner, HasValue, PushPlace
<1>2. /\ Published' = Published
      /\ data' = data /\ front' = front /\ back' = back /\ write' = write
  BY <1>0, SameRing
<1>3. TypeOK'
  BY <1>0, <1>1, <1>2 DEF TypeOK
<1>4. CallPlaces' /\ LoggersKnow'
  BY <1>1, <1>2, ThreadsOfLog DEF CallPlaces, LoggersKnow
<1>5. MainIsFirst'
  BY <1>1, <1>2, ThreadsOfLog DEF MainIsFirst
<1>6. RingIsUnrolled'
  BY <1>0, <1>1, <1>2, ThreadsOfLog DEF RingIsUnrolled, Claiming
<1>7. OneOwner'
  BY <1>0, <1>1, <1>2 DEF OneOwner, HasValue, PushPlace
<1>8. NoValueLost'
  BY <1>0, <1>1, <1>2 DEF NoValueLost, Pushing, Popped, PushPlace
<1>. QED
  BY <1>0, <1>1, <1>2, <1>3, <1>4, <1>5, <1>6, <1>7, <1>8

(* A step of a call that looks at the ring: nothing but the call changes. *)
LEMMA PoolLooks ==
  ASSUME PoolInv, UNCHANGED <<built, ringVars, held>>, NEW t \in Thread,
         op' \in [Thread -> OpType], \A u \in Thread \ {t} : op'[u] = op[u],
         CallPlaces', MainIsFirst', RingIsUnrolled', LoggersKnow',
         HasValue(t)' <=> HasValue(t), HasValue(t) => op'[t].val = op[t].val,
         op'[t].at = "popped" <=> op[t].at = "popped"
  PROVE  PoolInv'
<1> USE DEF PoolInv
<1>1. /\ Published' = Published
      /\ data' = data /\ front' = front /\ back' = back /\ write' = write
  BY SameRing
<1>2. TypeOK'
  BY <1>1 DEF TypeOK
<1>3. OneOwner'
  BY <1>1 DEF OneOwner, HasValue
<1>4. NoValueLost'
  BY <1>1 DEF NoValueLost, Pushing, Popped, HasValue, PushPlace
<1>. QED
  BY <1>2, <1>3, <1>4

(* Main fills the pool. *)
LEMMA FillStep ==
  ASSUME PoolInv, UNCHANGED built, SinglePush(Main)
  PROVE  PoolInv' /\ front' = front /\ held' = held /\ \A u \in Thread \ {Main} : op'[u] = op[u]
<1> USE DEF PoolInv
<1>0. /\ op \in [Thread -> OpType] /\ Main \in Thread /\ op[Main] \in OpType
      /\ op[Main].pos \in Slot /\ op[Main].val \in Value \cup {NoValue} /\ back \in Slot /\ front \in Slot
      /\ op[Main].at \in {"single", "singleStore", "singlePublish"} /\ ~ built
      /\ front = 0 /\ \A t \in Thread \ {Main} : op[t].at = "idle"
  BY ThreadsOfLog DEF TypeOK, OpType, SinglePush, SingleCheckFull, SingleStore, SinglePublish, At, MainIsFirst
<1>1. HasValue(Main) /\ op[Main].val \in Value \ held
  BY <1>0 DEF HasValue, PushPlace, OneOwner
<1>2. Published = front .. back - 1 /\ front <= back
  BY PublishedIsRange DEF RingIsUnrolled
<1>3. CASE SingleCheckFull(Main)
  <2> DEFINE looked == [op[Main] EXCEPT !.at = IF Succ(back) = front THEN "pushFailed" ELSE "singleStore",
                                        !.pos = back]
  <2>1. /\ looked \in OpType /\ looked.at \in {"pushFailed", "singleStore"} /\ looked.pos = back
        /\ looked.val = op[Main].val /\ (looked.at = "singleStore" => Succ(back) # front)
    BY <1>0 DEF OpType, OpPlace, PushPlace
  <2>2. /\ op' = [op EXCEPT ![Main] = looked] /\ UNCHANGED <<ringVars, held>>
    BY <1>3 DEF SingleCheckFull
  <2> HIDE DEF looked
  <2>3. /\ op' \in [Thread -> OpType] /\ \A u \in Thread \ {Main} : op'[u] = op[u]
        /\ op'[Main] = looked
    BY <1>0, <2>1, <2>2
  <2>4. /\ data' = data /\ front' = front /\ back' = back /\ write' = write
    BY <2>2, SameRing
  <2>5. Succ(back) # front => back + 1 < Capacity
    BY <1>0, CapacityAssumption DEF Succ, Slot
  <2>6. CallPlaces' /\ LoggersKnow'
    BY <2>1, <2>3, <2>4, ThreadsOfLog DEF CallPlaces, LoggersKnow
  <2>7. MainIsFirst'
    BY <1>0, <2>1, <2>3, <2>4, <2>5 DEF MainIsFirst
  <2>8. RingIsUnrolled'
    BY <2>3, <2>4, ThreadsOfLog DEF RingIsUnrolled, Claiming
  <2>9. HasValue(Main)' /\ op'[Main].val = op[Main].val /\ op'[Main].at # "popped"
    BY <2>1, <2>3 DEF HasValue, PushPlace
  <2>. QED
    BY <1>0, <1>1, <2>2, <2>3, <2>4, <2>6, <2>7, <2>8, <2>9, PoolLooks
<1>4. CASE SingleStore(Main)
  <2> DEFINE stored1 == [op[Main] EXCEPT !.at = "singlePublish"]
  <2>1. stored1 \in OpType /\ stored1.at = "singlePublish" /\ stored1.pos = back /\ stored1.val = op[Main].val
    BY <1>0, <1>4 DEF OpType, OpPlace, PushPlace, SingleStore, At, MainIsFirst
  <2>2. /\ op' = [op EXCEPT ![Main] = stored1] /\ UNCHANGED <<front, back, write, held>> /\ back + 1 < Capacity
        /\ data' = [data EXCEPT ![back] = op[Main].val]
    BY <1>4 DEF SingleStore, GoTo, At, MainIsFirst
  <2> HIDE DEF stored1
  <2>3. /\ op' \in [Thread -> OpType] /\ \A u \in Thread \ {Main} : op'[u] = op[u]
        /\ op'[Main] = stored1
    BY <1>0, <2>1, <2>2
  <2>4. /\ data' \in [Slot -> Value \cup {NoValue}] /\ data'[back] = op[Main].val
        /\ \A i \in Published : data'[i] = data[i]
    <3>1. Published \subseteq Slot \ {back}
      BY <1>0, <1>2, CapacityAssumption DEF Slot
    <3>. QED
      BY <1>0, <2>2, <3>1 DEF TypeOK
  <2>5. Published' = Published
    BY <2>2 DEF Published, SlotsFrom, Distance
  <2>6. TypeOK'
    BY <2>2, <2>3, <2>4 DEF TypeOK
  <2>7. CallPlaces' /\ LoggersKnow'
    BY <1>0, <2>1, <2>2, <2>3, ThreadsOfLog DEF CallPlaces, LoggersKnow
  <2>8. MainIsFirst'
    BY <1>0, <2>1, <2>2, <2>3, <2>4 DEF MainIsFirst
  <2>9. RingIsUnrolled'
    BY <2>2, <2>3, ThreadsOfLog DEF RingIsUnrolled, Claiming
  <2>10. HasValue(Main)' /\ op'[Main].val = op[Main].val
    BY <2>1, <2>3 DEF HasValue, PushPlace
  <2>11. OneOwner'
    BY <1>1, <2>2, <2>3, <2>4, <2>5, <2>10 DEF OneOwner, HasValue
  <2>12. NoValueLost'
    BY <1>0, <2>1, <2>2, <2>3, <2>4, <2>5 DEF NoValueLost, Pushing, Popped, PushPlace
  <2>. QED
    BY <2>2, <2>3, <2>6, <2>7, <2>8, <2>9, <2>11, <2>12
<1>5. CASE SinglePublish(Main)
  <2>1. /\ op' = [op EXCEPT ![Main] = Idle] /\ UNCHANGED <<data, front, write, held>>
        /\ op[Main].pos = back /\ back + 1 < Capacity /\ data[back] = op[Main].val /\ back' = Succ(back)
    BY <1>5 DEF SinglePublish, At, MainIsFirst
  <2>2. back' = back + 1 /\ back' \in Slot
    BY <1>0, <2>1, CapacityAssumption DEF Succ, Slot
  <2>3. /\ op' \in [Thread -> OpType] /\ \A u \in Thread \ {Main} : op'[u] = op[u]
        /\ op'[Main].at = "idle"
    BY <1>0, <2>1, IdleIsTyped
  <2>4. TypeOK'
    BY <2>1, <2>2, <2>3 DEF TypeOK
  <2>5. Published' = Published \cup {back}
    <3>1. Published' = (front .. back - 1)'
      BY <1>0, <1>2, <2>1, <2>2, <2>4, CapacityAssumption DEF Published, SlotsFrom, Distance, Slot
    <3>. QED
      BY <1>0, <1>2, <2>1, <2>2, <3>1 DEF Slot
  <2>6. CallPlaces' /\ LoggersKnow'
    BY <1>0, <2>1, <2>3, ThreadsOfLog DEF CallPlaces, LoggersKnow
  <2>7. MainIsFirst'
    BY <1>0, <2>1, <2>3 DEF MainIsFirst
  <2>8. RingIsUnrolled'
    BY <1>0, <1>2, <2>1, <2>2, <2>3, ThreadsOfLog DEF RingIsUnrolled, Claiming, Slot
  <2>9. OneOwner'
    BY <1>1, <2>1, <2>3, <2>5 DEF OneOwner, HasValue, PushPlace
  <2>10. NoValueLost'
    BY <1>0, <2>1, <2>3, <2>5 DEF NoValueLost, Pushing, Popped, PushPlace
  <2>. QED
    BY <2>1, <2>3, <2>4, <2>6, <2>7, <2>8, <2>9, <2>10
<1>. QED
  BY <1>3, <1>4, <1>5 DEF SinglePush

(* A logger pops: an exchange of front_ succeeds only where it was not moved *)
(* since it was loaded, and front_ never comes back to where it was.         *)
LEMMA PopStep ==
  ASSUME PoolInv, UNCHANGED built, NEW t \in Logger, MultiplePop(t)
  PROVE  /\ PoolInv' /\ front <= front' /\ held' = held /\ \A u \in Thread \ {t} : op'[u] = op[u]
         /\ op[t].at # "idle"
<1> USE DEF PoolInv
<1>0. /\ op \in [Thread -> OpType] /\ t \in Thread /\ op[t] \in OpType
      /\ op[t].pos \in Slot /\ op[t].val \in Value \cup {NoValue} /\ back \in Slot /\ front \in Slot
      /\ data \in [Slot -> Value \cup {NoValue}]
      /\ front <= back /\ held' = held /\ UNCHANGED <<data, back, write>>
      /\ op[t].at \in {"popLoad", "popEmpty", "popRead", "popClaim"} /\ ~ HasValue(t) /\ built
  BY ThreadsOfLog DEF TypeOK, OpType, MultiplePop, PopLoadFront, PopCheckEmpty, PopRead, PopClaim, At,
     RingIsUnrolled, ringVars, HasValue, PushPlace, MainIsFirst
<1>1. /\ op' \in [Thread -> OpType] /\ \A u \in Thread \ {t} : op'[u] = op[u]
      /\ \/ op[t].at = "popLoad" /\ op'[t].at = "popEmpty" /\ op'[t].pos = front /\ front' = front
         \/ op[t].at = "popEmpty" /\ op'[t].at = "idle" /\ front' = front
         \/ /\ op[t].at = "popEmpty" /\ op'[t].at = "popRead" /\ front' = front
            /\ op'[t].pos = op[t].pos /\ op[t].pos # back
         \/ /\ op[t].at = "popRead" /\ op'[t].at = "popClaim" /\ front' = front
            /\ op'[t].pos = op[t].pos /\ op'[t].val = data[op[t].pos]
         \/ op[t].at = "popClaim" /\ op'[t].at = "popLoad" /\ front' = front
         \/ /\ op[t].at = "popClaim" /\ op'[t].at = "popped" /\ front' = Succ(front) /\ front = op[t].pos
            /\ op'[t].val = op[t].val
  <2>1. CASE PopLoadFront(t)
    BY <1>0, <2>1 DEF PopLoadFront, At, OpType, OpPlace, PopPlace, ringVars
  <2>2. CASE PopCheckEmpty(t)
    BY <1>0, <2>2, IdleIsTyped DEF PopCheckEmpty, At, GoTo, OpType, OpPlace, PopPlace, ringVars
  <2>3. CASE PopRead(t)
    BY <1>0, <2>3 DEF PopRead, At, OpType, OpPlace, PopPlace, ringVars
  <2>4. CASE PopClaim(t)
    BY <1>0, <2>4 DEF PopClaim, At, GoTo, OpType, OpPlace, PushPlace, PopPlace
  <2>. QED
    BY <2>1, <2>2, <2>3, <2>4 DEF MultiplePop
<1>2. Published = front .. back - 1
  BY <1>0, PublishedIsRange
<1>3. CASE op'[t].at # "popped"
  <2>1. front' = front /\ UNCHANGED ringVars
    BY <1>0, <1>1, <1>3 DEF ringVars
  <2>2. ~ HasValue(t)' /\ op[t].at # "popped"
    BY <1>0, <1>1, <1>3 DEF HasValue, PushPlace
  <2>3. CallPlaces'
    BY <1>1, <1>3, ThreadsOfLog DEF CallPlaces
  <2>4. MainIsFirst'
    BY <1>0, <1>1, <2>1, ThreadsOfLog DEF MainIsFirst
  <2>5. RingIsUnrolled'
    BY <1>0, <1>1, <2>1, ThreadsOfLog DEF RingIsUnrolled, Claiming
  <2>6. LoggersKnow'
    <3>1. \A u \in Logger \ {t} : op'[u] = op[u]
      BY <1>1, ThreadsOfLog
    <3>2. op[t].at # "popLoad" => op[t].pos <= front
      BY <1>0 DEF LoggersKnow
    <3>3. op[t].at = "popEmpty" /\ op[t].pos # back /\ op[t].pos = front => front < back
      BY <1>0 DEF Slot
    <3>4. op[t].at = "popRead" /\ op[t].pos = front => front < back
      BY DEF LoggersKnow
    <3>5. front <= front
      BY <1>0 DEF Slot
    <3>. QED
      BY <1>0, <1>1, <1>3, <2>1, <3>1, <3>2, <3>3, <3>4, <3>5 DEF LoggersKnow
  <2>7. front <= front'
    BY <1>0, <2>1 DEF Slot
  <2>. QED
    BY <1>0, <1>1, <1>3, <2>1, <2>2, <2>3, <2>4, <2>5, <2>6, <2>7, PoolLooks
<1>4. CASE op'[t].at = "popped"
  <2>1. op[t].at = "popClaim" /\ front = op[t].pos /\ front' = Succ(front) /\ op'[t].val = op[t].val
    BY <1>0, <1>1, <1>4
  <2>2. front < back /\ op'[t].val = data[front]
    BY <2>1 DEF LoggersKnow
  <2>3. front' = front + 1 /\ front' \in Slot /\ front' <= back
    BY <1>0, <2>1, <2>2, CapacityAssumption DEF Slot, Succ
  <2>4. TypeOK'
    BY <1>0, <1>1, <2>3 DEF TypeOK
  <2>5. Published' = Published \ {front} /\ front \in Published
    <3>1. Published' = (front .. back - 1)'
      BY <1>0, <2>3, <2>4, CapacityAssumption DEF Published, SlotsFrom, Distance, Slot
    <3>. QED
      BY <1>0, <1>2, <2>2, <2>3, <3>1 DEF Slot
  <2>6. CallPlaces'
    BY <1>1, <1>4, ThreadsOfLog DEF CallPlaces
  <2>7. MainIsFirst'
    BY <1>0, <1>1, ThreadsOfLog DEF MainIsFirst
  <2>8. RingIsUnrolled'
    BY <1>0, <1>1, <2>3, ThreadsOfLog DEF RingIsUnrolled, Claiming, Slot
  <2>9. LoggersKnow'
    <3>1. ASSUME NEW u \in Logger \ {t}
          PROVE  op'[u] = op[u] /\ op[u] \in OpType /\ op[u].pos \in Slot
      BY <1>0, <1>1, ThreadsOfLog DEF OpType
    <3>2. ASSUME NEW u \in Logger \ {t}, op[u].at \in {"popEmpty", "popRead", "popClaim"}
          PROVE  op'[u].pos <= front' /\ op'[u].pos # front'
      BY <1>0, <2>3, <3>1, <3>2 DEF LoggersKnow, Slot
    <3>3. front' > 0
      BY <1>0, <2>3 DEF Slot
    <3>. QED
      BY <1>0, <1>4, <3>1, <3>2, <3>3 DEF LoggersKnow
  <2>10. HasValue(t)' /\ op'[t].val \in Value \ held
    BY <1>4, <2>2, <2>5 DEF HasValue, OneOwner
  <2>11. OneOwner'
    BY <1>0, <1>1, <2>2, <2>5, <2>10 DEF OneOwner, HasValue
  <2>12. NoValueLost'
    BY <1>0, <1>1, <1>4, <2>1, <2>2, <2>5 DEF NoValueLost, Pushing, Popped, PushPlace
  <2>13. front <= front'
    BY <1>0, <2>3 DEF Slot
  <2>. QED
    BY <1>0, <1>1, <2>4, <2>6, <2>7, <2>8, <2>9, <2>11, <2>12, <2>13
<1>. QED
  BY <1>3, <1>4

(* The writer gives a LogInfo back: it stores into slot 0, which is popped,   *)
(* and back_ does not come there.                                             *)
LEMMA GiveBackStep ==
  ASSUME PoolInv, UNCHANGED built, MultiplePush(Writer)
  PROVE  PoolInv' /\ front' = front /\ held' = held /\ \A u \in Thread \ {Writer} : op'[u] = op[u]
<1> USE DEF PoolInv
<1>0. /\ op \in [Thread -> OpType] /\ Writer \in Thread /\ op[Writer] \in OpType
      /\ op[Writer].pos \in Slot /\ op[Writer].val \in Value \cup {NoValue} /\ back \in Slot /\ front \in Slot
      /\ write \in Slot /\ data \in [Slot -> Value \cup {NoValue}]
      /\ front <= back /\ held' = held /\ UNCHANGED front /\ built /\ 0 < front
      /\ op[Writer].at \in {"pushLoad", "pushFull", "pushClaim", "pushStore", "pushPublish"}
  BY ThreadsOfLog DEF TypeOK, OpType, MultiplePush, PushLoadWrite, PushCheckFull, PushClaim, PushStore,
     PushPublish, At, RingIsUnrolled, ringVars, MainIsFirst
<1>1. HasValue(Writer) /\ op[Writer].val \in Value \ held
  BY <1>0 DEF HasValue, PushPlace, OneOwner
<1>2. Published = front .. back - 1 /\ 0 \notin Published
  BY <1>0, PublishedIsRange DEF Slot
<1>3. CASE op[Writer].at = "pushPublish"
  <2>1. back = op[Writer].pos
    BY <1>3 DEF MultiplePush, PushLoadWrite, PushCheckFull, PushClaim, PushStore, PushPublish, At
  <2>. QED
    BY <1>0, <1>3, <2>1 DEF RingIsUnrolled, Slot
<1>4. CASE op[Writer].at = "pushStore"
  <2>1. /\ op' \in [Thread -> OpType] /\ \A u \in Thread \ {Writer} : op'[u] = op[u]
        /\ op'[Writer].at = "pushPublish" /\ op'[Writer].val = op[Writer].val /\ op'[Writer].pos = 0
        /\ data' = [data EXCEPT ![0] = op[Writer].val] /\ back' = back /\ write' = write
    BY <1>0, <1>4 DEF MultiplePush, PushLoadWrite, PushCheckFull, PushClaim, PushStore, PushPublish, At, GoTo,
       RingIsUnrolled, OpType, OpPlace, PushPlace
  <2>2. data' \in [Slot -> Value \cup {NoValue}] /\ \A i \in Published \cup {front} : data'[i] = data[i]
    <3>1. Published \cup {front} \subseteq Slot \ {0}
      BY <1>0, <1>2, CapacityAssumption DEF Slot
    <3>2. data' \in [Slot -> Value \cup {NoValue}] /\ \A i \in Slot \ {0} : data'[i] = data[i]
      BY <1>0, <2>1
    <3>. QED
      BY <3>1, <3>2
  <2>3. Published' = Published
    BY <1>0, <2>1 DEF Published, SlotsFrom, Distance
  <2>4. TypeOK'
    BY <1>0, <2>1, <2>2 DEF TypeOK
  <2>5. CallPlaces' /\ LoggersKnow'
    BY <1>0, <2>1, <2>2, ThreadsOfLog DEF CallPlaces, LoggersKnow
  <2>6. MainIsFirst'
    BY <1>0, <2>1, ThreadsOfLog DEF MainIsFirst
  <2>7. RingIsUnrolled'
    BY <1>0, <1>4, <2>1 DEF RingIsUnrolled, Claiming
  <2>8. OneOwner'
    BY <1>0, <1>4, <2>1, <2>2, <2>3 DEF OneOwner, HasValue, PushPlace
  <2>9. NoValueLost'
    BY <1>0, <1>4, <2>1, <2>2, <2>3 DEF NoValueLost, Pushing, Popped, PushPlace
  <2>. QED
    BY <1>0, <2>1, <2>4, <2>5, <2>6, <2>7, <2>8, <2>9
<1>5. CASE op[Writer].at \in {"pushLoad", "pushFull", "pushClaim"}
  <2>1. write = 0
    BY <1>5 DEF RingIsUnrolled, Claiming
  <2>2. /\ op' \in [Thread -> OpType] /\ \A u \in Thread \ {Writer} : op'[u] = op[u]
        /\ op'[Writer].at \in {"pushFull", "pushFailed", "pushClaim", "pushStore"}
        /\ op'[Writer].val = op[Writer].val
        /\ op'[Writer].at # "pushFailed" => op'[Writer].pos = 0
        /\ data' = data /\ back' = back
        /\ write' = IF op'[Writer].at = "pushStore" THEN 1 ELSE 0
    <3>1. CASE op[Writer].at = "pushLoad"
      <4> DEFINE loaded == [op[Writer] EXCEPT !.at = "pushFull", !.pos = write]
      <4>1. loaded \in OpType /\ loaded.at = "pushFull" /\ loaded.val = op[Writer].val /\ loaded.pos = 0
        BY <1>0, <2>1 DEF OpType, OpPlace, PushPlace
      <4>2. op' = [op EXCEPT ![Writer] = loaded] /\ UNCHANGED ringVars
        BY <3>1 DEF MultiplePush, PushLoadWrite, PushCheckFull, PushClaim, PushStore, PushPublish, At
      <4> HIDE DEF loaded
      <4>. QED
        BY <1>0, <2>1, <4>1, <4>2 DEF ringVars
    <3>2. CASE op[Writer].at = "pushFull"
      BY <1>0, <2>1, <3>2 DEF MultiplePush, PushLoadWrite, PushCheckFull, PushClaim, PushStore, PushPublish, At,
         GoTo, RingIsUnrolled, OpType, OpPlace, PushPlace, ringVars
    <3>3. CASE op[Writer].at = "pushClaim"
      <4>1. op[Writer].pos = 0 /\ Succ(0) = 1
        BY <3>3, CapacityAssumption DEF RingIsUnrolled, Succ
      <4>2. /\ op' = [op EXCEPT ![Writer].at = "pushStore"] /\ write' = 1 /\ UNCHANGED <<data, back>>
        BY <2>1, <3>3, <4>1 DEF MultiplePush, PushLoadWrite, PushCheckFull, PushClaim, PushStore, PushPublish, At,
           GoTo
      <4>. QED
        BY <1>0, <4>1, <4>2 DEF OpType, OpPlace, PushPlace
    <3>. QED
      BY <1>5, <3>1, <3>2, <3>3
  <2>3. Published' = Published
    BY <1>0, <2>2 DEF Published, SlotsFrom, Distance
  <2>4. TypeOK'
    <3>1. write' \in Slot
      BY <2>2, CapacityAssumption DEF Slot
    <3>. QED
      BY <1>0, <2>2, <3>1 DEF TypeOK
  <2>5. CallPlaces' /\ LoggersKnow'
    BY <1>0, <2>2, ThreadsOfLog DEF CallPlaces, LoggersKnow
  <2>6. MainIsFirst'
    BY <1>0, <2>2, ThreadsOfLog DEF MainIsFirst
  <2>7. RingIsUnrolled'
    BY <1>0, <2>2 DEF RingIsUnrolled, Claiming
  <2>8. OneOwner'
    BY <1>0, <1>5, <2>2, <2>3 DEF OneOwner, HasValue, PushPlace
  <2>9. NoValueLost'
    BY <1>0, <1>5, <2>2, <2>3 DEF NoValueLost, Pushing, Popped, PushPlace
  <2>. QED
    BY <1>0, <2>2, <2>4, <2>5, <2>6, <2>7, <2>8, <2>9
<1>. QED
  BY <1>0, <1>3, <1>4, <1>5

-----------------------------------------------------------------------------
(* The threads around the pool. *)

\* Where each thread is; what it holds there; who has mutex_.
PlacesInv ==
  /\ at[Main] = "out" /\ at[Writer] \in WriterPlace
  /\ \A t \in Logger : at[t] \in LoggerPlace /\ (op[t].at # "idle" => at[t] = "popping")
  /\ op[Writer].at # "idle" => at[Writer] = "pushing"
  /\ ~built => at[Writer] = "lock" /\ \A t \in Logger : at[t] = "out"
  /\ \A t \in Thread : info[t] # NoValue <=> at[t] \in {"enqueue", "dealloc"}
  /\ mutex = Writer <=> at[Writer] \in {"popLog", "dealloc", "pushing"}
  /\ mutex = Writer => taskNo > 0
  /\ at[Writer] \in {"dealloc", "pushing"} => taskNo <= Len(tasks)

\* The LogInfos in the pipes.
Piped == {v \in Value : \E a \in Appender : \E i \in 1 .. Len(pipes[a]) : pipes[a][i] = v}
PipesApart ==
  \A a, b \in Appender : \A i \in 1 .. Len(pipes[a]), j \in 1 .. Len(pipes[b]) :
    pipes[a][i] = pipes[b][j] => a = b /\ i = j

\* A LogInfo that is neither in the pool nor in a call on it is in the hands of
\* one thread, at one place of a pipe, leaked, or not yet in use.
OwnersInv ==
  /\ \A t \in Thread : info[t] # NoValue => info[t] \in held \ (leaked \cup Piped)
  /\ \A t, u \in Thread : info[t] # NoValue /\ t # u => info[t] # info[u]
  /\ Piped \subseteq held \ leaked /\ leaked \subseteq held
  /\ PipesApart
  /\ built => \A v \in held \ leaked : v \in Piped \/ \E t \in Thread : info[t] = v
  /\ front = 0 => Piped = {} /\ \A t \in Thread : info[t] = NoValue

\* The LogInfos that did not fit are not in use.
SizeInv == built => Cardinality(Value \ leaked) < Capacity

\* A record that was put into a LogInfo is with a logger, in one pipe, or
\* formatted.
Written == Range(formatted)
RecordsInv ==
  /\ \A t \in Thread : rec[t] # NoRecord <=> at[t] \in {"register", "publish", "alloc", "popping", "enqueue"}
  /\ \A t, u \in Thread : rec[t] # NoRecord /\ t # u => rec[t] # rec[u]
  /\ \A t \in Thread : rec[t] # NoRecord => rec[t] \notin Written
  /\ \A t \in Thread : at[t] = "enqueue" => content[info[t]] = rec[t]
  /\ \A v \in Piped : content[v] \in Record \ Written /\ \A t \in Thread : content[v] # rec[t]
  /\ \A v, w \in Piped : v # w => content[v] # content[w]
  /\ \A v \in Value : content[v] # NoRecord =>
       \/ content[v] \in Written
       \/ \E w \in Piped : content[w] = content[v]
       \/ \E t \in Thread : at[t] = "enqueue" /\ rec[t] = content[v]

FileInv == \A i, j \in 1 .. Len(formatted) : formatted[i] = formatted[j] => i = j

\* An appender has its task before anything goes into its pipe.
TasksInv ==
  /\ \A t \in Logger : via[t] # NoAppender <=> at[t] # "out"
  /\ \A t \in Logger : at[t] \in {"publish", "alloc", "popping", "enqueue", "wake"} => via[t] \in Range(tasks)
  /\ logger # NoAppender => logger \in Range(tasks)
  /\ PipeHasTask

LogInv ==
  /\ LogTypeOK /\ PoolInv /\ PlacesInv /\ OwnersInv /\ SizeInv
  /\ RecordsInv /\ FileInv /\ TasksInv

(* The sequences. *)
LEMMA RangeOfEmpty == Range(<<>>) = {}
BY DEF Range

LEMMA RangeOfOne == ASSUME NEW x PROVE Range(<<x>>) = {x}
<1>1. DOMAIN <<x>> = {1} /\ <<x>>[1] = x
  OBVIOUS
<1>. QED
  BY <1>1 DEF Range

LEMMA RangeOfAppend ==
  ASSUME NEW S, NEW s \in Seq(S), NEW x \in S
  PROVE  Range(Append(s, x)) = Range(s) \cup {x}
<1>1. \A i \in 1 .. Len(s) : Append(s, x)[i] = s[i]
  OBVIOUS
<1>2. DOMAIN Append(s, x) = 1 .. Len(s) + 1 /\ Append(s, x)[Len(s) + 1] = x /\ DOMAIN s = 1 .. Len(s)
  OBVIOUS
<1>3. 1 .. Len(s) + 1 = (1 .. Len(s)) \cup {Len(s) + 1}
  OBVIOUS
<1>. QED
  BY <1>1, <1>2, <1>3 DEF Range

(* The pipes. *)
LEMMA PipeGrows ==
  ASSUME LogTypeOK, PipesApart, NEW a \in Appender, NEW v \in Value \ Piped,
         pipes' = [pipes EXCEPT ![a] = Append(@, v)]
  PROVE  /\ pipes' \in [Appender -> Seq(Value)] /\ Piped' = Piped \cup {v} /\ PipesApart'
         /\ \A b \in Appender : pipes'[b] # <<>> => b = a \/ pipes[b] # <<>>
<1>0. pipes \in [Appender -> Seq(Value)]
  BY DEF LogTypeOK
<1> DEFINE p == pipes[a]
<1>1. p \in Seq(Value) /\ Append(p, v) \in Seq(Value) /\ Len(Append(p, v)) = Len(p) + 1
      /\ Append(p, v)[Len(p) + 1] = v /\ \A i \in 1 .. Len(p) : Append(p, v)[i] = p[i]
  BY <1>0
<1>2. pipes' \in [Appender -> Seq(Value)] /\ pipes'[a] = Append(p, v) /\ \A b \in Appender \ {a} : pipes'[b] = pipes[b]
  BY <1>0, <1>1
<1> HIDE DEF p
<1>3. ASSUME NEW b \in Appender, NEW i \in 1 .. Len(pipes'[b])
      PROVE  \/ i \in 1 .. Len(pipes[b]) /\ pipes'[b][i] = pipes[b][i]
             \/ b = a /\ i = Len(p) + 1 /\ pipes'[b][i] = v
  <2>1. CASE b # a
    BY <1>2, <2>1
  <2>2. CASE b = a
    BY <1>1, <1>2, <2>2 DEF p
  <2>. QED
    BY <2>1, <2>2
<1>4. ASSUME NEW b \in Appender, NEW i \in 1 .. Len(pipes[b])
      PROVE  i \in 1 .. Len(pipes'[b]) /\ pipes'[b][i] = pipes[b][i]
  <2>1. CASE b # a
    BY <1>2, <2>1
  <2>2. CASE b = a
    BY <1>1, <1>2, <2>2 DEF p
  <2>. QED
    BY <2>1, <2>2
<1>5. Len(p) + 1 \in 1 .. Len(pipes'[a]) /\ pipes'[a][Len(p) + 1] = v
  BY <1>1, <1>2
<1>6. Piped' = Piped \cup {v}
  BY <1>3, <1>4, <1>5 DEF Piped
<1>7. ASSUME NEW b \in Appender, NEW i \in 1 .. Len(pipes[b]) PROVE pipes[b][i] # v
  BY <1>0 DEF Piped
<1>8. PipesApart'
  BY <1>3, <1>7 DEF PipesApart
<1>. QED
  BY <1>2, <1>6, <1>8

LEMMA PipeShrinks ==
  ASSUME LogTypeOK, PipesApart, NEW a \in Appender, pipes[a] # <<>>,
         pipes' = [pipes EXCEPT ![a] = Tail(@)]
  PROVE  /\ pipes' \in [Appender -> Seq(Value)] /\ Piped' = Piped \ {Head(pipes[a])} /\ PipesApart'
         /\ Head(pipes[a]) \in Piped
         /\ \A b \in Appender : pipes'[b] # <<>> => pipes[b] # <<>>
<1>0. pipes \in [Appender -> Seq(Value)]
  BY DEF LogTypeOK
<1> DEFINE p == pipes[a]
           v == Head(p)
           from(b, i) == IF b = a THEN i + 1 ELSE i
<1>1. p \in Seq(Value) /\ Tail(p) \in Seq(Value) /\ Len(Tail(p)) = Len(p) - 1 /\ Len(p) \in Nat \ {0}
      /\ p[1] = v /\ v \in Value /\ \A i \in 1 .. Len(p) - 1 : Tail(p)[i] = p[i + 1]
  BY <1>0
<1>2. pipes' \in [Appender -> Seq(Value)] /\ pipes'[a] = Tail(p) /\ \A b \in Appender \ {a} : pipes'[b] = pipes[b]
  BY <1>0, <1>1
<1> HIDE DEF p, v
<1>3. ASSUME NEW b \in Appender, NEW i \in 1 .. Len(pipes'[b])
      PROVE  from(b, i) \in 1 .. Len(pipes[b]) /\ pipes'[b][i] = pipes[b][from(b, i)] /\ (b # a \/ from(b, i) # 1)
  <2>1. CASE b # a
    BY <1>2, <2>1
  <2>2. CASE b = a
    BY <1>1, <1>2, <2>2 DEF p
  <2>. QED
    BY <2>1, <2>2
<1>4. ASSUME NEW b \in Appender, NEW i \in 1 .. Len(pipes[b]), b # a \/ i # 1
      PROVE  \E j \in 1 .. Len(pipes'[b]) : from(b, j) = i /\ pipes'[b][j] = pipes[b][i]
  <2>1. CASE b # a
    BY <1>2, <2>1
  <2>2. CASE b = a
    <3>1. i - 1 \in 1 .. Len(pipes'[b]) /\ (i - 1) + 1 = i /\ i - 1 \in 1 .. Len(p) - 1
      BY <1>1, <1>2, <1>4, <2>2 DEF p
    <3>2. pipes'[b][i - 1] = pipes[b][i]
      BY <1>1, <1>2, <2>2, <3>1 DEF p
    <3>. QED
      BY <2>2, <3>1, <3>2
  <2>. QED
    BY <2>1, <2>2
<1>5. 1 \in 1 .. Len(pipes[a]) /\ pipes[a][1] = v
  BY <1>1 DEF p
<1>6. ASSUME NEW b \in Appender, NEW i \in 1 .. Len(pipes[b]), pipes[b][i] = v
      PROVE  b = a /\ i = 1
  BY <1>5, <1>6 DEF PipesApart
<1>7. ASSUME NEW w \in Piped', w = v PROVE FALSE
  BY <1>3, <1>6, <1>7 DEF Piped
<1>8. ASSUME NEW w \in Piped' PROVE w \in Piped
  BY <1>3 DEF Piped
<1>9. ASSUME NEW w \in Piped, w # v PROVE w \in Piped'
  <2>0. PICK b \in Appender : \E i \in 1 .. Len(pipes[b]) : pipes[b][i] = w
    BY DEF Piped
  <2>1. PICK i \in 1 .. Len(pipes[b]) : pipes[b][i] = w
    BY <2>0
  <2>2. b # a \/ i # 1
    BY <1>5, <1>9, <2>1
  <2>. QED
    BY <1>4, <2>1, <2>2 DEF Piped
<1>10. v \in Piped
  BY <1>1, <1>5 DEF Piped
<1>11. PipesApart'
  <2> SUFFICES ASSUME NEW b \in Appender, NEW c \in Appender, NEW i \in 1 .. Len(pipes'[b]),
                      NEW j \in 1 .. Len(pipes'[c]), pipes'[b][i] = pipes'[c][j]
               PROVE  b = c /\ i = j
    BY DEF PipesApart
  <2>1. b = c /\ from(b, i) = from(c, j)
    BY <1>3 DEF PipesApart
  <2>. QED
    BY <2>1
<1>12. \A b \in Appender : pipes'[b] # <<>> => pipes[b] # <<>>
  BY <1>2
<1>. QED
  BY <1>2, <1>7, <1>8, <1>9, <1>10, <1>11, <1>12 DEF v, p

-----------------------------------------------------------------------------
(* What a step keeps that leaves a part of the state alone. *)

Places == LoggerPlace \cup WriterPlace
Busy   == {"register", "publish", "alloc", "popping", "enqueue"}

LEMMA Enters ==
  ASSUME LogTypeOK, NEW t \in Thread, NEW place \in Places, Enter(t, place)
  PROVE  at' \in [Thread -> Places] /\ at'[t] = place /\ \A u \in Thread \ {t} : at'[u] = at[u]
BY DEF LogTypeOK, Enter, Places

LEMMA Wakes ==
  ASSUME LogTypeOK, NEW t \in Logger, NEW place \in LoggerPlace, WakeWriter(t, place)
  PROVE  /\ at' \in [Thread -> Places] /\ at'[t] = place /\ \A u \in Logger \ {t} : at'[u] = at[u]
         /\ at'[Main] = at[Main]
         /\ at'[Writer] = IF at[Writer] = "waiting" THEN "relock" ELSE at[Writer]
BY ThreadsOfLog DEF LogTypeOK, WakeWriter, Places, WriterPlace

LEMMA PoolSame == ASSUME PoolInv, UNCHANGED <<vars, built>> PROVE PoolInv'
<1>1. UNCHANGED <<data, front, back, write, op, held, built>>
  BY DEF vars, ringVars
<1>2. Published' = Published
  BY <1>1 DEF Published, SlotsFrom, Distance
<1>. QED
  BY <1>1, <1>2 DEF PoolInv, TypeOK, CallPlaces, MainIsFirst, RingIsUnrolled, LoggersKnow, OneOwner, NoValueLost,
     HasValue, Claiming, Pushing, Popped

LEMMA OwnersSame ==
  ASSUME OwnersInv, UNCHANGED <<pipes, info, leaked, held, built>>, front' = 0 => front = 0
  PROVE  OwnersInv' /\ Piped' = Piped
BY DEF OwnersInv, Piped, PipesApart

LEMMA SizeSame == ASSUME SizeInv, UNCHANGED <<leaked, built>> PROVE SizeInv'
BY DEF SizeInv

LEMMA FileSame ==
  ASSUME FileInv, UNCHANGED formatted
  PROVE  FileInv' /\ Written' = Written
BY DEF FileInv, Written

LEMMA RecordsSame ==
  ASSUME RecordsInv, UNCHANGED <<content, rec, info>>, Piped' = Piped, Written' = Written,
         \A t \in Thread : at'[t] \in Busy <=> at[t] \in Busy,
         \A t \in Thread : at'[t] = "enqueue" <=> at[t] = "enqueue"
  PROVE  RecordsInv'
BY DEF RecordsInv, Busy

LEMMA TypesSame ==
  ASSUME LogTypeOK, UNCHANGED <<pipes, content, leaked, info, formatted, stored>>, TypeOK',
         path' \in [Appender -> 0 .. 2] \/ path' = path,
         at' \in [Thread -> Places], built' \in BOOLEAN, mutex' \in {Writer, NoThread}, tasks' \in Seq(Appender),
         logger' \in Appender \cup {NoAppender}, rec' \in [Thread -> Record \cup {NoRecord}],
         via' \in [Thread -> Appender \cup {NoAppender}], taskNo' \in Nat
  PROVE  LogTypeOK'
BY DEF LogTypeOK, Places

-----------------------------------------------------------------------------
(* The loggers. *)

LEMMA PathStays ==
  ASSUME LogTypeOK, NEW a \in Appender, CreateFilepath(a)
  PROVE  path' \in [Appender -> 0 .. 2]
BY DEF LogTypeOK, CreateFilepath

LEMMA GetLoggerStep ==
  ASSUME LogInv, NEW t \in Logger, NEW r \in Record, GetLogger(t, r)
  PROVE  LogInv'
<1> USE DEF LogInv
<1>0. /\ built /\ at[t] = "out" /\ r \notin Logged /\ rec' = [rec EXCEPT ![t] = r]
      /\ UNCHANGED <<vars, built, mutex, tasks, logger, pipes, content, leaked, info, taskNo, formatted, stored>>
      /\ t \in Thread /\ t # Writer /\ t # Main /\ (path' \in [Appender -> 0 .. 2] \/ path' = path)
  <2>1. /\ built /\ at[t] = "out" /\ r \notin Logged /\ rec' = [rec EXCEPT ![t] = r]
        /\ UNCHANGED <<vars, built, mutex, tasks, logger, pipes, content, leaked, info, taskNo, formatted, stored>>
        /\ path' = path \/ \E a \in Appender : CreateFilepath(a)
    BY DEF GetLogger
  <2>. QED
    BY <2>1, PathStays, ThreadsOfLog
<1>1. PICK place \in {"alloc", "register"}, a \in Appender :
        /\ Enter(t, place) /\ via' = [via EXCEPT ![t] = a] /\ (place = "alloc" => a = logger)
  BY LogNothingAssumption DEF GetLogger, LogTypeOK
<1>2. at' \in [Thread -> Places] /\ at'[t] = place /\ \A u \in Thread \ {t} : at'[u] = at[u]
  BY <1>0, <1>1, Enters DEF Places, LoggerPlace
<1>3. /\ rec' \in [Thread -> Record \cup {NoRecord}] /\ rec'[t] = r /\ \A u \in Thread \ {t} : rec'[u] = rec[u]
      /\ via' \in [Thread -> Appender \cup {NoAppender}] /\ via'[t] = a /\ \A u \in Thread \ {t} : via'[u] = via[u]
  BY <1>0, <1>1 DEF LogTypeOK
<1>4. PoolInv'
  BY <1>0, PoolSame
<1>5. LogTypeOK'
  BY <1>0, <1>2, <1>3, <1>4, TypesSame DEF LogTypeOK, PoolInv
<1>6. PlacesInv'
  BY <1>0, <1>2, ThreadsOfLog DEF PlacesInv, vars, LoggerPlace
<1>7. OwnersInv' /\ Piped' = Piped /\ SizeInv'
  BY <1>0, OwnersSame, SizeSame DEF vars, ringVars
<1>8. FileInv' /\ Written' = Written
  BY <1>0, <1>2, ThreadsOfLog, FileSame
<1>9. RecordsInv'
  <2>1. \A u \in Thread : rec[u] # r
    BY <1>0 DEF Logged, Range, LogTypeOK
  <2>2. \A v \in Value : content[v] # r
    BY <1>0 DEF Logged, Range, LogTypeOK
  <2>3. r \notin Written /\ r # NoRecord
    BY <1>0, LogNothingAssumption DEF Logged, Written
  <2>4. \A v \in Piped : v \in Value
    BY DEF Piped
  <2>. QED
    BY <1>0, <1>2, <1>3, <1>7, <1>8, <2>1, <2>2, <2>3, <2>4, ThreadsOfLog DEF RecordsInv
<1>10. TasksInv'
  BY <1>0, <1>1, <1>2, <1>3, ThreadsOfLog, LogNothingAssumption DEF TasksInv, PipeHasTask
<1>. QED
  BY <1>4, <1>5, <1>6, <1>7, <1>8, <1>9, <1>10

LEMMA AddTaskStep ==
  ASSUME LogInv, NEW t \in Logger, AddTask(t)
  PROVE  LogInv'
<1> USE DEF LogInv
<1>0. /\ at[t] = "register" /\ mutex = NoThread /\ tasks' = Append(tasks, via[t]) /\ Enter(t, "publish")
      /\ UNCHANGED <<vars, built, mutex, pipes, content, leaked, info, taskNo, path, formatted, stored, logger, rec, via>>
      /\ t \in Thread /\ t # Writer /\ t # Main
  BY ThreadsOfLog DEF AddTask, fileVars, loggerVars
<1>1. at' \in [Thread -> Places] /\ at'[t] = "publish" /\ \A u \in Thread \ {t} : at'[u] = at[u]
  BY <1>0, Enters DEF Places, LoggerPlace
<1>2. via[t] \in Appender /\ tasks \in Seq(Appender) /\ mutex # Writer /\ built
  BY <1>0, LogNothingAssumption DEF TasksInv, LogTypeOK, PlacesInv
<1>3. tasks' \in Seq(Appender) /\ Range(tasks)' = Range(tasks) \cup {via[t]}
  BY <1>0, <1>2, RangeOfAppend
<1>4. PoolInv'
  BY <1>0, PoolSame
<1>5. LogTypeOK'
  BY <1>0, <1>1, <1>3, <1>4, TypesSame DEF LogTypeOK, PoolInv
<1>6. PlacesInv'
  BY <1>0, <1>1, <1>2, ThreadsOfLog DEF PlacesInv, vars, LoggerPlace
<1>7. OwnersInv' /\ Piped' = Piped /\ SizeInv'
  BY <1>0, OwnersSame, SizeSame DEF vars, ringVars
<1>8. FileInv' /\ Written' = Written
  BY <1>0, <1>1, FileSame, ThreadsOfLog
<1>9. RecordsInv'
  BY <1>0, <1>1, <1>7, <1>8, RecordsSame DEF Busy
<1>10. TasksInv'
  BY <1>0, <1>1, <1>3, ThreadsOfLog DEF TasksInv, PipeHasTask
<1>. QED
  BY <1>4, <1>5, <1>6, <1>7, <1>8, <1>9, <1>10

LEMMA SetLoggerStep ==
  ASSUME LogInv, NEW t \in Logger, SetLogger(t)
  PROVE  LogInv'
<1> USE DEF LogInv
<1>0. /\ at[t] = "publish" /\ logger' = via[t] /\ Enter(t, "alloc")
      /\ UNCHANGED <<vars, built, mutex, tasks, pipes, content, leaked, info, taskNo, path, formatted, stored, rec, via>>
      /\ t \in Thread /\ t # Writer /\ t # Main
  BY ThreadsOfLog DEF SetLogger, fileVars
<1>1. at' \in [Thread -> Places] /\ at'[t] = "alloc" /\ \A u \in Thread \ {t} : at'[u] = at[u]
  BY <1>0, Enters DEF Places, LoggerPlace
<1>2. via[t] \in Appender /\ via[t] \in Range(tasks) /\ built
  BY <1>0 DEF TasksInv, LogTypeOK, PlacesInv
<1>4. PoolInv'
  BY <1>0, PoolSame
<1>5. LogTypeOK'
  BY <1>0, <1>1, <1>2, <1>4, TypesSame DEF LogTypeOK, PoolInv
<1>6. PlacesInv'
  BY <1>0, <1>1, <1>2, ThreadsOfLog DEF PlacesInv, vars, LoggerPlace
<1>7. OwnersInv' /\ Piped' = Piped /\ SizeInv'
  BY <1>0, OwnersSame, SizeSame DEF vars, ringVars
<1>8. FileInv' /\ Written' = Written
  BY <1>0, <1>1, FileSame, ThreadsOfLog
<1>9. RecordsInv'
  BY <1>0, <1>1, <1>7, <1>8, RecordsSame DEF Busy
<1>10. TasksInv'
  BY <1>0, <1>1, <1>2, ThreadsOfLog DEF TasksInv, PipeHasTask
<1>. QED
  BY <1>4, <1>5, <1>6, <1>7, <1>8, <1>9, <1>10

LEMMA AllocStep ==
  ASSUME LogInv, NEW t \in Logger, AllocLogInfo(t)
  PROVE  LogInv'
<1> USE DEF LogInv
<1>0. /\ at[t] = "alloc" /\ StartPop(t) /\ Enter(t, "popping") /\ built
      /\ UNCHANGED <<built, mutex, tasks, pipes, content, leaked, info, taskNo, path, formatted, stored, logger, rec, via>>
      /\ t \in Thread /\ t # Writer /\ t # Main
  BY ThreadsOfLog DEF AllocLogInfo, fileVars, loggerVars, PlacesInv
<1>1. at' \in [Thread -> Places] /\ at'[t] = "popping" /\ \A u \in Thread \ {t} : at'[u] = at[u]
  BY <1>0, Enters DEF Places, LoggerPlace
<1>4. PoolInv' /\ front' = front /\ held' = held /\ \A u \in Thread \ {t} : op'[u] = op[u]
  BY <1>0, PopBegins
<1>5. LogTypeOK'
  BY <1>0, <1>1, <1>4, TypesSame DEF LogTypeOK, PoolInv
<1>6. PlacesInv'
  BY <1>0, <1>1, <1>4, ThreadsOfLog DEF PlacesInv, LoggerPlace
<1>7. OwnersInv' /\ Piped' = Piped /\ SizeInv'
  BY <1>0, <1>4, OwnersSame, SizeSame
<1>8. FileInv' /\ Written' = Written
  BY <1>0, <1>1, FileSame, ThreadsOfLog
<1>9. RecordsInv'
  BY <1>0, <1>1, <1>7, <1>8, RecordsSame DEF Busy
<1>10. TasksInv'
  BY <1>0, <1>1, ThreadsOfLog DEF TasksInv, PipeHasTask
<1>. QED
  BY <1>4, <1>5, <1>6, <1>7, <1>8, <1>9, <1>10

(* A step of a call on the pool, of a logger or of the writer. *)
LEMMA PoolStepKeeps ==
  ASSUME LogInv, NEW t \in Logger \cup {Writer}, PoolStep(t)
  PROVE  LogInv'
<1> USE DEF LogInv
<1>0. /\ at[t] \in {"popping", "pushing"} /\ (MultiplePop(t) \/ MultiplePush(t))
      /\ UNCHANGED <<built, mutex, tasks, pipes, content, leaked, at, info, taskNo, path, formatted, stored, logger, rec, via>>
      /\ t \in Thread /\ t # Main
  BY ThreadsOfLog DEF PoolStep, logVars
<1>1. op[t].at # "idle"
  BY <1>0 DEF MultiplePop, MultiplePush, PopLoadFront, PopCheckEmpty, PopRead, PopClaim, PushLoadWrite,
     PushCheckFull, PushClaim, PushStore, PushPublish, At
<1>2. (t \in Logger /\ MultiplePop(t)) \/ (t = Writer /\ MultiplePush(t))
  <2>1. MultiplePop(t) => op[t].at \in {"popLoad", "popEmpty", "popRead", "popClaim"}
    BY DEF MultiplePop, PopLoadFront, PopCheckEmpty, PopRead, PopClaim, At
  <2>2. MultiplePush(t) => op[t].at \in {"pushLoad", "pushFull", "pushClaim", "pushStore", "pushPublish"}
    BY DEF MultiplePush, PushLoadWrite, PushCheckFull, PushClaim, PushStore, PushPublish, At
  <2>3. t \in Logger => ~ MultiplePush(t)
    BY <2>2 DEF PoolInv, CallPlaces
  <2>4. t = Writer => ~ MultiplePop(t)
    BY <2>1 DEF PoolInv, CallPlaces
  <2>. QED
    BY <1>0, <2>3, <2>4
<1>3. PoolInv' /\ front <= front' /\ held' = held /\ \A u \in Thread \ {t} : op'[u] = op[u]
  <2>1. front <= front
    BY DEF PoolInv, TypeOK, Slot
  <2>. QED
    BY <1>0, <1>2, <2>1, PopStep, GiveBackStep
<1>4. front' = 0 => front = 0
  BY <1>3 DEF PoolInv, TypeOK, Slot
<1>5. LogTypeOK'
  BY <1>0, <1>3, TypesSame DEF LogTypeOK, PoolInv, Places
<1>6. PlacesInv'
  BY <1>0, <1>1, <1>2, <1>3, ThreadsOfLog DEF PlacesInv, LoggerPlace
<1>7. OwnersInv' /\ Piped' = Piped /\ SizeInv'
  BY <1>0, <1>3, <1>4, OwnersSame, SizeSame
<1>8. FileInv' /\ Written' = Written
  BY <1>0, FileSame, ThreadsOfLog
<1>9. RecordsInv'
  BY <1>0, <1>7, <1>8, RecordsSame DEF Busy
<1>10. TasksInv'
  BY <1>0, ThreadsOfLog DEF TasksInv, PipeHasTask
<1>. QED
  BY <1>3, <1>5, <1>6, <1>7, <1>8, <1>9, <1>10

LEMMA AllocAgainStep ==
  ASSUME LogInv, NEW t \in Logger, AllocAgain(t)
  PROVE  LogInv'
<1> USE DEF LogInv
<1>0. /\ at[t] = "popping" /\ op[t].at = "idle" /\ WakeWriter(t, "alloc")
      /\ UNCHANGED <<vars, built, mutex, tasks, pipes, content, leaked, info, taskNo, path, formatted, stored, logger, rec, via>>
      /\ t \in Thread /\ t # Writer /\ t # Main /\ built
  BY ThreadsOfLog DEF AllocAgain, At, fileVars, loggerVars, PlacesInv
<1>1. /\ at' \in [Thread -> Places] /\ at'[t] = "alloc" /\ \A u \in Logger \ {t} : at'[u] = at[u]
      /\ at'[Main] = at[Main]
      /\ at'[Writer] = IF at[Writer] = "waiting" THEN "relock" ELSE at[Writer]
  BY <1>0, Wakes DEF LoggerPlace
<1>4. PoolInv'
  BY <1>0, PoolSame
<1>5. LogTypeOK'
  BY <1>0, <1>1, <1>4, TypesSame DEF LogTypeOK, PoolInv
<1>6. PlacesInv'
  BY <1>0, <1>1, ThreadsOfLog DEF PlacesInv, vars, LoggerPlace, WriterPlace
<1>7. OwnersInv' /\ Piped' = Piped /\ SizeInv'
  BY <1>0, OwnersSame, SizeSame DEF vars, ringVars
<1>8. FileInv' /\ Written' = Written
  BY <1>0, <1>1, FileSame, ThreadsOfLog
<1>9. RecordsInv'
  BY <1>0, <1>1, <1>7, <1>8, RecordsSame, ThreadsOfLog DEF Busy
<1>10. TasksInv'
  BY <1>0, <1>1, ThreadsOfLog DEF TasksInv, PipeHasTask
<1>. QED
  BY <1>4, <1>5, <1>6, <1>7, <1>8, <1>9, <1>10

LEMMA WakeupStep ==
  ASSUME LogInv, NEW t \in Logger, Wakeup(t)
  PROVE  LogInv'
<1> USE DEF LogInv
<1>0. /\ at[t] = "wake" /\ WakeWriter(t, "out") /\ via' = [via EXCEPT ![t] = NoAppender]
      /\ UNCHANGED <<vars, built, mutex, tasks, pipes, content, leaked, info, taskNo, path, formatted, stored, logger, rec>>
      /\ t \in Thread /\ t # Writer /\ t # Main /\ built
  BY ThreadsOfLog DEF Wakeup, fileVars, PlacesInv
<1>1. /\ at' \in [Thread -> Places] /\ at'[t] = "out" /\ \A u \in Logger \ {t} : at'[u] = at[u]
      /\ at'[Main] = at[Main]
      /\ at'[Writer] = IF at[Writer] = "waiting" THEN "relock" ELSE at[Writer]
  BY <1>0, Wakes DEF LoggerPlace
<1>2. /\ via' \in [Thread -> Appender \cup {NoAppender}] /\ via'[t] = NoAppender
      /\ \A u \in Thread \ {t} : via'[u] = via[u]
  BY <1>0 DEF LogTypeOK
<1>4. PoolInv'
  BY <1>0, PoolSame
<1>5. LogTypeOK'
  BY <1>0, <1>1, <1>2, <1>4, TypesSame DEF LogTypeOK, PoolInv
<1>6. PlacesInv'
  BY <1>0, <1>1, ThreadsOfLog DEF PlacesInv, vars, LoggerPlace, WriterPlace
<1>7. OwnersInv' /\ Piped' = Piped /\ SizeInv'
  BY <1>0, OwnersSame, SizeSame DEF vars, ringVars
<1>8. FileInv' /\ Written' = Written
  BY <1>0, <1>1, FileSame, ThreadsOfLog
<1>9. RecordsInv'
  BY <1>0, <1>1, <1>7, <1>8, RecordsSame, ThreadsOfLog DEF Busy
<1>10. TasksInv'
  BY <1>0, <1>1, <1>2, ThreadsOfLog DEF TasksInv, PipeHasTask
<1>. QED
  BY <1>4, <1>5, <1>6, <1>7, <1>8, <1>9, <1>10

(* The LogInfo that a logger fills in was in nobody's hands and in no pipe. *)
LEMMA FillInStep ==
  ASSUME LogInv, NEW t \in Logger, Fill(t)
  PROVE  LogInv'
<1> USE DEF LogInv
<1> DEFINE v == op[t].val
<1>0. /\ at[t] = "popping" /\ op[t].at = "popped" /\ Return(t) /\ info' = [info EXCEPT ![t] = v]
      /\ content' = [content EXCEPT ![v] = rec[t]] /\ Enter(t, "enqueue")
      /\ UNCHANGED <<built, mutex, tasks, pipes, leaked, taskNo, path, formatted, stored, logger, rec, via>>
      /\ t \in Thread /\ t # Writer /\ t # Main /\ built
  BY ThreadsOfLog DEF Fill, At, fileVars, loggerVars, PlacesInv
<1>1. at' \in [Thread -> Places] /\ at'[t] = "enqueue" /\ \A u \in Thread \ {t} : at'[u] = at[u]
  BY <1>0, Enters DEF Places, LoggerPlace
<1>2. /\ PoolInv' /\ front' = front /\ \A u \in Thread \ {t} : op'[u] = op[u]
      /\ op'[t].at = "idle" /\ held' = held \cup {v} /\ v \in Value \ held
  BY <1>0, CallReturns
<1>3. front > 0
  BY <1>0 DEF PoolInv, LoggersKnow
<1> HIDE DEF v
<1>4. /\ info' \in [Thread -> Value \cup {NoValue}] /\ info'[t] = v /\ \A u \in Thread \ {t} : info'[u] = info[u]
      /\ content' \in [Value -> Record \cup {NoRecord}] /\ content'[v] = rec[t]
      /\ \A w \in Value \ {v} : content'[w] = content[w]
      /\ v # NoValue
  BY <1>0, <1>2, NoValueAssumption DEF LogTypeOK
<1>5. Piped' = Piped /\ Piped \subseteq Value \ {v} /\ Written' = Written
  BY <1>0, <1>2 DEF Piped, Written, OwnersInv
<1>6. \A u \in Thread : info[u] # v
  BY <1>2, <1>4 DEF OwnersInv
<1>7. LogTypeOK'
  BY <1>0, <1>1, <1>2, <1>4 DEF LogTypeOK, PoolInv, Places
<1>8. PlacesInv'
  BY <1>0, <1>1, <1>2, <1>4, ThreadsOfLog DEF PlacesInv, LoggerPlace
<1>9. OwnersInv'
  <2>1. v \notin leaked
    BY <1>2 DEF OwnersInv
  <2>2. PipesApart'
    BY <1>0 DEF PipesApart, OwnersInv
  <2>3. \A u \in Thread : info'[u] # NoValue => info'[u] \in held' \ (leaked \cup Piped)
    BY <1>2, <1>4, <1>5, <2>1 DEF OwnersInv
  <2>4. \A u, x \in Thread : info'[u] # NoValue /\ u # x => info'[u] # info'[x]
    BY <1>4, <1>6 DEF OwnersInv
  <2>5. Piped \subseteq held' \ leaked /\ leaked \subseteq held'
    BY <1>2, <2>1 DEF OwnersInv
  <2>6. ASSUME NEW w \in held' \ leaked PROVE w \in Piped \/ \E u \in Thread : info'[u] = w
    <3>1. CASE w = v
      BY <1>0, <1>4, <3>1
    <3>2. CASE w # v
      <4>1. w \in Piped \/ \E u \in Thread : info[u] = w
        BY <1>0, <1>2, <2>6, <3>2 DEF OwnersInv
      <4>2. \A u \in Thread : info[u] = w => u # t
        <5>1. info[t] = NoValue /\ w # NoValue
          BY <1>0, <1>2, <2>6, NoValueAssumption DEF PlacesInv, PoolInv, TypeOK
        <5>. QED
          BY <5>1
      <4>. QED
        BY <1>4, <4>1, <4>2
    <3>. QED
      BY <3>1, <3>2
  <2>7. front' # 0
    BY <1>2, <1>3 DEF PoolInv, TypeOK, Slot
  <2>. QED
    BY <1>0, <1>5, <2>2, <2>3, <2>4, <2>5, <2>6, <2>7 DEF OwnersInv
<1>10. SizeInv'
  BY <1>0, SizeSame
<1>11. FileInv'
  BY <1>0, <1>1, FileSame, ThreadsOfLog
<1>12. RecordsInv'
  <2>1. \A u \in Thread \ {t} : at[u] = "enqueue" => info[u] \in Value /\ content'[info[u]] = content[info[u]]
    BY <1>4, <1>6 DEF PlacesInv, LogTypeOK
  <2>2. \A w \in Piped : content'[w] = content[w]
    BY <1>4, <1>5
  <2>. QED
    BY <1>0, <1>1, <1>4, <1>5, <2>1, <2>2 DEF RecordsInv
<1>13. TasksInv'
  BY <1>0, <1>1, ThreadsOfLog DEF TasksInv, PipeHasTask
<1>. QED
  BY <1>2, <1>7, <1>8, <1>9, <1>10, <1>11, <1>12, <1>13

LEMMA EnqueueStep ==
  ASSUME LogInv, NEW t \in Logger, Enqueue(t)
  PROVE  LogInv'
<1> USE DEF LogInv
<1> DEFINE v == info[t]
           a == via[t]
<1>0. /\ at[t] = "enqueue" /\ pipes' = [pipes EXCEPT ![a] = Append(@, v)] /\ info' = [info EXCEPT ![t] = NoValue]
      /\ rec' = [rec EXCEPT ![t] = NoRecord] /\ Enter(t, "wake")
      /\ UNCHANGED <<vars, built, mutex, tasks, content, leaked, taskNo, path, formatted, stored, logger, via>>
      /\ t \in Thread /\ t # Writer /\ t # Main /\ built
  BY ThreadsOfLog DEF Enqueue, fileVars, PlacesInv
<1>1. at' \in [Thread -> Places] /\ at'[t] = "wake" /\ \A u \in Thread \ {t} : at'[u] = at[u]
  BY <1>0, Enters DEF Places, LoggerPlace
<1>2. /\ a \in Appender /\ a \in Range(tasks) /\ v \in Value \ Piped /\ v # NoValue
      /\ v \in held \ leaked /\ content[v] = rec[t] /\ rec[t] \in Record
  <2>1. info[t] # NoValue /\ rec[t] # NoRecord
    BY <1>0 DEF PlacesInv, RecordsInv
  <2>2. info[t] \in held \ (leaked \cup Piped) /\ info[t] \in Value
    BY <1>0, <2>1 DEF OwnersInv, LogTypeOK
  <2>3. a \in Appender /\ a \in Range(tasks)
    BY <1>0 DEF TasksInv, LogTypeOK
  <2>. QED
    BY <1>0, <2>1, <2>2, <2>3 DEF RecordsInv, LogTypeOK
<1> HIDE DEF v, a
<1>3. /\ pipes' \in [Appender -> Seq(Value)] /\ Piped' = Piped \cup {v} /\ PipesApart'
      /\ \A b \in Appender : pipes'[b] # <<>> => b = a \/ pipes[b] # <<>>
  BY <1>0, <1>2, PipeGrows DEF OwnersInv
<1>4. /\ info' \in [Thread -> Value \cup {NoValue}] /\ info'[t] = NoValue /\ \A u \in Thread \ {t} : info'[u] = info[u]
      /\ rec' \in [Thread -> Record \cup {NoRecord}] /\ rec'[t] = NoRecord /\ \A u \in Thread \ {t} : rec'[u] = rec[u]
  BY <1>0 DEF LogTypeOK
<1>5. PoolInv' /\ held' = held /\ front' = front /\ op' = op
  BY <1>0, PoolSame DEF vars, ringVars
<1>6. LogTypeOK'
  BY <1>0, <1>1, <1>3, <1>4, <1>5 DEF LogTypeOK, PoolInv, Places
<1>7. PlacesInv'
  BY <1>0, <1>1, <1>4, <1>5, ThreadsOfLog DEF PlacesInv, LoggerPlace
<1>8. OwnersInv'
  <2>1. info[t] = v /\ front # 0
    BY <1>0, <1>2 DEF OwnersInv, v
  <2>. QED
    BY <1>0, <1>2, <1>3, <1>4, <1>5, <2>1 DEF OwnersInv
<1>9. SizeInv'
  BY <1>0, SizeSame
<1>10. FileInv' /\ Written' = Written
  BY <1>0, <1>1, FileSame, ThreadsOfLog
<1>11. RecordsInv'
  <2>1. \A u \in Thread : content[v] # NoRecord /\ (u # t => rec[u] # content[v])
    BY <1>0, <1>2, LogNothingAssumption DEF RecordsInv
  <2>2. content[v] \in Record \ Written
    BY <1>0, <1>2, LogNothingAssumption DEF RecordsInv
  <2>3. \A w \in Piped : content[w] # content[v] /\ content[w] \in Record \ Written /\ \A u \in Thread : content[w] # rec'[u]
    BY <1>0, <1>2, <1>4, LogNothingAssumption DEF RecordsInv
  <2>4. /\ \A w \in Piped' : content[w] \in Record \ Written /\ \A u \in Thread : content[w] # rec'[u]
        /\ \A w, x \in Piped' : w # x => content[w] # content[x]
    BY <1>3, <1>4, <2>1, <2>2, <2>3 DEF RecordsInv
  <2>5. /\ \A u \in Thread : rec'[u] # NoRecord <=> at'[u] \in {"register", "publish", "alloc", "popping", "enqueue"}
        /\ \A u, x \in Thread : rec'[u] # NoRecord /\ u # x => rec'[u] # rec'[x]
        /\ \A u \in Thread : rec'[u] # NoRecord => rec'[u] \notin Written
        /\ \A u \in Thread : at'[u] = "enqueue" => content[info'[u]] = rec'[u]
    BY <1>0, <1>1, <1>4 DEF RecordsInv
  <2>6. \A w \in Value : content[w] # NoRecord =>
          \/ content[w] \in Written
          \/ \E x \in Piped' : content[x] = content[w]
          \/ \E u \in Thread : at'[u] = "enqueue" /\ rec'[u] = content[w]
    BY <1>0, <1>1, <1>2, <1>3, <1>4 DEF RecordsInv
  <2>. QED
    BY <1>0, <1>10, <2>4, <2>5, <2>6 DEF RecordsInv
<1>12. TasksInv'
  BY <1>0, <1>1, <1>2, <1>3, ThreadsOfLog DEF TasksInv, PipeHasTask
<1>. QED
  BY <1>5, <1>6, <1>7, <1>8, <1>9, <1>10, <1>11, <1>12

-----------------------------------------------------------------------------
(* The writer. *)

LEMMA WriterWaitsStep ==
  ASSUME LogInv, WaitFor \/ WaitTimesOut \/ Relock \/ EndPass
  PROVE  LogInv'
<1> USE DEF LogInv
<1>0. /\ UNCHANGED <<vars, built, tasks, pipes, content, leaked, info, path, formatted, stored, logger, rec, via>>
      /\ \/ at[Writer] = "lock" /\ built /\ mutex' = mutex /\ taskNo' = taskNo /\ Enter(Writer, "waiting")
         \/ at[Writer] = "waiting" /\ mutex' = mutex /\ taskNo' = taskNo /\ Enter(Writer, "relock")
         \/ at[Writer] = "relock" /\ mutex' = Writer /\ taskNo' = 1 /\ Enter(Writer, "popLog")
         \/ at[Writer] = "popLog" /\ mutex' = NoThread /\ taskNo' = taskNo /\ Enter(Writer, "lock")
  BY DEF WaitFor, WaitTimesOut, Relock, EndPass, fileVars, loggerVars
<1>1. PICK place \in {"waiting", "relock", "popLog", "lock"} :
        /\ Enter(Writer, place)
        /\ place = "popLog" <=> mutex' = Writer
        /\ place = "popLog" => taskNo' = 1
        /\ taskNo' \in Nat /\ mutex' \in {Writer, NoThread}
  BY <1>0, LogNothingAssumption DEF LogTypeOK, PlacesInv
<1>2. /\ at' \in [Thread -> Places] /\ at'[Writer] = place /\ \A u \in Thread \ {Writer} : at'[u] = at[u]
      /\ place \in WriterPlace
  BY <1>1, Enters, ThreadsOfLog DEF Places, WriterPlace
<1>3. built /\ at[Writer] \notin {"dealloc", "pushing"}
  BY <1>0 DEF PlacesInv
<1>4. PoolInv'
  BY <1>0, PoolSame
<1>5. LogTypeOK'
  BY <1>0, <1>1, <1>2, <1>4, TypesSame DEF LogTypeOK, PoolInv
<1>6. PlacesInv'
  BY <1>0, <1>1, <1>2, <1>3, ThreadsOfLog DEF PlacesInv, vars
<1>7. OwnersInv' /\ Piped' = Piped /\ SizeInv'
  BY <1>0, OwnersSame, SizeSame DEF vars, ringVars
<1>8. FileInv' /\ Written' = Written
  BY <1>0, <1>1, <1>2, <1>3, FileSame, ThreadsOfLog
<1>9. RecordsInv'
  <2>1. at[Writer] \notin Busy /\ at'[Writer] \notin Busy
    BY <1>2 DEF PlacesInv, WriterPlace, Busy
  <2>. QED
    BY <1>0, <1>2, <1>7, <1>8, <2>1, RecordsSame DEF Busy
<1>10. TasksInv'
  BY <1>0, <1>2, ThreadsOfLog DEF TasksInv, PipeHasTask
<1>. QED
  BY <1>4, <1>5, <1>6, <1>7, <1>8, <1>9, <1>10

LEMMA DeallocStep ==
  ASSUME LogInv, DeallocLogInfo
  PROVE  LogInv'
<1> USE DEF LogInv
<1> DEFINE v == info[Writer]
<1>0. /\ at[Writer] = "dealloc" /\ StartPush(Writer, v) /\ info' = [info EXCEPT ![Writer] = NoValue]
      /\ Enter(Writer, "pushing") /\ Writer \in Thread /\ built
      /\ UNCHANGED <<built, mutex, tasks, pipes, content, leaked, taskNo, path, formatted, stored, logger, rec, via>>
  BY ThreadsOfLog DEF DeallocLogInfo, fileVars, loggerVars, PlacesInv
<1>1. at' \in [Thread -> Places] /\ at'[Writer] = "pushing" /\ \A u \in Thread \ {Writer} : at'[u] = at[u]
  BY <1>0, Enters DEF Places, WriterPlace
<1>2. v # NoValue /\ v \in Value /\ v \in held \ (leaked \cup Piped) /\ front # 0
  BY <1>0 DEF PlacesInv, OwnersInv, LogTypeOK
<1>3. front > 0
  BY <1>2 DEF PoolInv, TypeOK, Slot
<1> HIDE DEF v
<1>4. PoolInv' /\ front' = front /\ (\A u \in Thread \ {Writer} : op'[u] = op[u]) /\ held' = held \ {v}
  BY <1>0, <1>2, <1>3, PushBegins DEF StartPush
<1>5. /\ info' \in [Thread -> Value \cup {NoValue}] /\ info'[Writer] = NoValue
      /\ \A u \in Thread \ {Writer} : info'[u] = info[u]
  BY <1>0 DEF LogTypeOK
<1>6. LogTypeOK'
  BY <1>0, <1>1, <1>4, <1>5 DEF LogTypeOK, PoolInv, Places
<1>7. PlacesInv'
  BY <1>0, <1>1, <1>4, <1>5, ThreadsOfLog DEF PlacesInv, WriterPlace
<1>8. Piped' = Piped /\ PipesApart'
  BY <1>0 DEF Piped, PipesApart, OwnersInv
<1>9. OwnersInv'
  <2>1. \A u \in Thread : info'[u] # NoValue => info'[u] = info[u] /\ info[u] # v
    BY <1>0, <1>2, <1>5 DEF OwnersInv, v
  <2>2. ASSUME NEW w \in held' \ leaked PROVE w \in Piped \/ \E u \in Thread : info'[u] = w
    <3>1. w # v /\ (w \in Piped \/ \E u \in Thread : info[u] = w)
      BY <1>0, <1>4, <2>2 DEF OwnersInv
    <3>. QED
      BY <1>5, <3>1 DEF v
  <2>. QED
    BY <1>0, <1>2, <1>4, <1>8, <2>1, <2>2 DEF OwnersInv
<1>10. SizeInv'
  BY <1>0, SizeSame
<1>11. FileInv' /\ Written' = Written
  BY <1>0, <1>1, FileSame, ThreadsOfLog
<1>12. RecordsInv'
  <2>1. \A u \in Thread : at'[u] = "enqueue" => at[u] = "enqueue" /\ info'[u] = info[u]
    BY <1>1, <1>5
  <2>2. \A u \in Thread : at'[u] \in Busy <=> at[u] \in Busy
    BY <1>0, <1>1 DEF Busy
  <2>3. \A u \in Thread : at'[u] = "enqueue" <=> at[u] = "enqueue"
    BY <1>0, <1>1
  <2>. QED
    BY <1>0, <1>8, <1>11, <2>1, <2>2, <2>3 DEF RecordsInv, Busy
<1>13. TasksInv'
  BY <1>0, <1>1, ThreadsOfLog DEF TasksInv, PipeHasTask
<1>. QED
  BY <1>4, <1>6, <1>7, <1>8, <1>9, <1>10, <1>11, <1>12, <1>13

(* SinglePop on the pipe of a task, and the formatting. *)
LEMMA PopLogKeeps ==
  ASSUME LogInv, at[Writer] \in {"popLog", "pushing"}, taskNo <= Len(tasks), NEW open \in BOOLEAN, PopLog(open),
         UNCHANGED <<built, mutex, tasks, content, logger, rec, via>>, path' \in [Appender -> 0 .. 2],
         PoolInv', front' = front, \A u \in Thread \ {Writer} : op'[u] = op[u], op'[Writer].at = "idle",
         \/ held' = held /\ leaked' = leaked
         \/ \E w \in Value \ held : held' = held \cup {w} /\ leaked' = leaked \cup {w}
  PROVE  LogInv'
<1> USE DEF LogInv
<1> DEFINE a == tasks[taskNo]
           v == Head(pipes[a])
<1>1. a \in Appender /\ taskNo \in Nat /\ taskNo > 0 /\ mutex = Writer /\ built /\ Writer \in Thread
  <2>1. mutex = Writer /\ taskNo > 0 /\ built /\ taskNo \in Nat /\ tasks \in Seq(Appender)
    BY DEF PlacesInv, LogTypeOK
  <2>2. taskNo \in 1 .. Len(tasks)
    BY <2>1
  <2>. QED
    BY <2>1, <2>2, ThreadsOfLog
<1>2. held' \ leaked' = held \ leaked /\ leaked' \subseteq held' /\ leaked \subseteq leaked' /\ held \subseteq held'
  BY DEF OwnersInv
<1>3. \A w \in held \ leaked : w \notin leaked'
  BY <1>2
<1>4. info[Writer] = NoValue \/ at[Writer] = "dealloc"
  BY <1>1 DEF PlacesInv
<1>5. info[Writer] = NoValue
  BY <1>4
<1>6. SizeInv'
  <2>1. Cardinality(Value \ leaked') <= Cardinality(Value \ leaked) /\ Cardinality(Value \ leaked) \in Nat
        /\ Cardinality(Value \ leaked') \in Nat
    <3>1. Value \ leaked \in SUBSET Value /\ Value \ leaked' \in SUBSET (Value \ leaked)
      BY <1>2
    <3>2. IsFiniteSet(Value \ leaked)
      BY <3>1, FS_Subset, LogInfosAssumption
    <3>. QED
      BY <3>1, <3>2, FS_Subset, FS_CardinalityType
  <2>. QED
    BY <1>1, <2>1, CapacityAssumption DEF SizeInv
<1>7. formatted \in Seq(Record) /\ stored \subseteq Record
  BY DEF LogTypeOK
<1>8. CASE pipes[a] = <<>>
  <2>1. /\ taskNo' = taskNo + 1 /\ formatted' = formatted /\ stored' = stored
        /\ info' = [info EXCEPT ![Writer] = NoValue] /\ Enter(Writer, "popLog") /\ pipes' = pipes
    BY <1>8 DEF PopLog
  <2> HIDE DEF v, a
  <2>2. at' \in [Thread -> Places] /\ at'[Writer] = "popLog" /\ \A u \in Thread \ {Writer} : at'[u] = at[u]
    BY <1>1, <2>1, Enters DEF Places, WriterPlace
  <2>3. info' = info
    BY <1>1, <1>5, <2>1 DEF LogTypeOK
  <2>4. Written' = Written
    BY <2>1 DEF Written
  <2>5. Piped' = Piped /\ PipesApart'
    <3>1. pipes' = pipes
      BY <2>1
    <3>. QED
      BY <3>1 DEF Piped, PipesApart, OwnersInv
  <2>6. LogTypeOK'
    <3>1. TypeOK' /\ leaked' \subseteq Value
      BY <1>2 DEF PoolInv, TypeOK
    <3>2. taskNo' \in Nat /\ formatted' \in Seq(Record) /\ stored' \subseteq Record
      BY <1>1, <1>7, <2>1
    <3>. QED
      BY <2>1, <2>2, <2>3, <3>1, <3>2 DEF LogTypeOK, Places
  <2>7. PlacesInv'
    <3>1. taskNo' > 0
      BY <1>1, <2>1
    <3>. QED
      BY <1>1, <2>2, <2>3, <3>1, ThreadsOfLog DEF PlacesInv, WriterPlace
  <2>8. OwnersInv'
    BY <1>1, <1>2, <2>3, <2>5 DEF OwnersInv
  <2>9. FileInv'
    BY <2>1 DEF FileInv
  <2>10. RecordsInv'
    BY <1>1, <2>2, <2>3, <2>4, <2>5 DEF RecordsInv
  <2>11. TasksInv'
    BY <2>1, <2>2, ThreadsOfLog DEF TasksInv, PipeHasTask
  <2>. QED
    BY <1>6, <2>6, <2>7, <2>8, <2>9, <2>10, <2>11
<1>9. CASE pipes[a] # <<>>
  <2>1. /\ taskNo' = taskNo /\ formatted' = Append(formatted, content[v]) /\ stored' \subseteq stored \cup {content[v]}
        /\ info' = [info EXCEPT ![Writer] = v] /\ Enter(Writer, "dealloc")
        /\ pipes' = [pipes EXCEPT ![a] = Tail(@)]
    BY <1>9 DEF PopLog
  <2>2. at' \in [Thread -> Places] /\ at'[Writer] = "dealloc" /\ \A u \in Thread \ {Writer} : at'[u] = at[u]
    BY <1>1, <2>1, Enters DEF Places, WriterPlace
  <2>3. /\ pipes' \in [Appender -> Seq(Value)] /\ Piped' = Piped \ {v} /\ PipesApart' /\ v \in Piped
        /\ \A b \in Appender : pipes'[b] # <<>> => pipes[b] # <<>>
    BY <1>1, <1>9, <2>1, PipeShrinks DEF OwnersInv
  <2> HIDE DEF v, a
  <2>4. v \in Value /\ v # NoValue /\ v \in held \ leaked /\ v \in held' \ leaked'
    BY <1>2, <2>3, NoValueAssumption DEF Piped, OwnersInv
  <2>5. /\ info' \in [Thread -> Value \cup {NoValue}] /\ info'[Writer] = v
        /\ \A u \in Thread \ {Writer} : info'[u] = info[u]
    BY <1>1, <2>1, <2>4 DEF LogTypeOK
  <2>6. content[v] \in Record \ Written /\ \A t \in Thread : content[v] # rec[t]
    BY <2>3 DEF RecordsInv
  <2>7. Written' = Written \cup {content[v]}
    BY <1>7, <2>1, <2>6, RangeOfAppend DEF Written
  <2>8. LogTypeOK'
    <3>1. formatted' \in Seq(Record) /\ stored' \subseteq Record
      BY <1>7, <2>1, <2>6
    <3>. QED
      BY <1>1, <1>7, <2>1, <2>2, <2>3, <2>5, <3>1 DEF LogTypeOK, PoolInv, Places, TypeOK, OwnersInv
  <2>9. PlacesInv'
    <3>1. \A t \in Thread : info'[t] # NoValue <=> at'[t] \in {"enqueue", "dealloc"}
      BY <2>2, <2>4, <2>5 DEF PlacesInv
    <3>2. mutex' = Writer /\ taskNo' > 0 /\ taskNo' <= Len(tasks')
      BY <1>1, <2>1
    <3>. QED
      BY <1>1, <2>2, <3>1, <3>2, ThreadsOfLog DEF PlacesInv, WriterPlace
  <2>10. OwnersInv'
    <3>1. \A u \in Thread \ {Writer} : info[u] # v
      BY <2>3, <2>4 DEF OwnersInv
    <3>2. \A u \in Thread : info'[u] # NoValue => info'[u] \in held' \ (leaked' \cup Piped')
      BY <1>2, <2>3, <2>4, <2>5 DEF OwnersInv
    <3>3. \A u, x \in Thread : info'[u] # NoValue /\ u # x => info'[u] # info'[x]
      BY <2>5, <3>1 DEF OwnersInv
    <3>4. Piped' \subseteq held' \ leaked'
      BY <1>2, <2>3 DEF OwnersInv
    <3>5. ASSUME NEW w \in held' \ leaked' PROVE w \in Piped' \/ \E u \in Thread : info'[u] = w
      <4>1. w \in Piped \/ \E u \in Thread : info[u] = w
        BY <1>1, <1>2, <3>5 DEF OwnersInv
      <4>2. ASSUME NEW u \in Thread, info[u] = w PROVE u # Writer
        <5>1. w # NoValue
          BY <3>5, NoValueAssumption DEF PoolInv, TypeOK
        <5>. QED
          BY <1>5, <4>2, <5>1
      <4>. QED
        BY <1>1, <2>3, <2>5, <4>1, <4>2
    <3>6. front' # 0
      BY <2>3 DEF OwnersInv
    <3>. QED
      BY <1>2, <2>3, <3>2, <3>3, <3>4, <3>5, <3>6 DEF OwnersInv
  <2>11. FileInv'
    <3>1. /\ Len(formatted') = Len(formatted) + 1 /\ Len(formatted) \in Nat /\ formatted'[Len(formatted) + 1] = content[v]
          /\ \A i \in 1 .. Len(formatted) : formatted'[i] = formatted[i]
      BY <1>7, <2>1, <2>6
    <3>2. \A i \in 1 .. Len(formatted) : formatted[i] # content[v]
      BY <1>7, <2>6, RangeEquality DEF Written
    <3>3. \A i \in 1 .. Len(formatted') : i \in 1 .. Len(formatted) \/ i = Len(formatted) + 1
      BY <3>1
    <3>. QED
      BY <3>1, <3>2, <3>3 DEF FileInv
  <2>12. RecordsInv'
    <3>1. \A w \in Value : content[w] # NoRecord =>
            \/ content[w] \in Written'
            \/ \E x \in Piped' : content[x] = content[w]
            \/ \E t \in Thread : at'[t] = "enqueue" /\ rec'[t] = content[w]
      <4> SUFFICES ASSUME NEW w \in Value, content[w] # NoRecord, content[w] \notin Written'
                   PROVE  \/ \E x \in Piped' : content[x] = content[w]
                          \/ \E t \in Thread : at'[t] = "enqueue" /\ rec'[t] = content[w]
        OBVIOUS
      <4>1. CASE \E x \in Piped : content[x] = content[w]
        BY <2>3, <2>7, <4>1
      <4>2. CASE \E t \in Thread : at[t] = "enqueue" /\ rec[t] = content[w]
        <5>1. at[Writer] # "enqueue"
          OBVIOUS
        <5>. QED
          BY <2>2, <4>2, <5>1
      <4>. QED
        BY <2>7, <4>1, <4>2 DEF RecordsInv
    <3>2. /\ \A u \in Thread : rec[u] # NoRecord <=> at'[u] \in {"register", "publish", "alloc", "popping", "enqueue"}
          /\ \A u \in Thread : rec[u] # NoRecord => rec[u] \notin Written'
          /\ \A u \in Thread : at'[u] = "enqueue" => content[info'[u]] = rec[u]
      BY <1>1, <2>2, <2>5, <2>6, <2>7 DEF RecordsInv
    <3>3. /\ \A w \in Piped' : content[w] \in Record \ Written' /\ \A t \in Thread : content[w] # rec[t]
          /\ \A w, x \in Piped' : w # x => content[w] # content[x]
      BY <2>3, <2>7 DEF RecordsInv
    <3>. QED
      BY <3>1, <3>2, <3>3 DEF RecordsInv
  <2>13. TasksInv'
    BY <2>2, <2>3, ThreadsOfLog DEF TasksInv, PipeHasTask
  <2>. QED
    BY <1>6, <2>8, <2>9, <2>10, <2>11, <2>12, <2>13
<1>. QED
  BY <1>8, <1>9

LEMMA WriteStep ==
  ASSUME LogInv, WriteLogsfile
  PROVE  LogInv'
<1> USE DEF LogInv
<1>0. /\ at[Writer] = "popLog" /\ taskNo <= Len(tasks) /\ CreateFilepath(tasks[taskNo])
      /\ PopLog(IsOpen(path'[tasks[taskNo]]))
      /\ UNCHANGED <<vars, built, mutex, tasks, content, leaked, logger, rec, via>>
  BY DEF WriteLogsfile, loggerVars
<1>1. tasks[taskNo] \in Appender
  <2>1. taskNo \in Nat /\ taskNo > 0 /\ tasks \in Seq(Appender)
    BY <1>0 DEF PlacesInv, LogTypeOK
  <2>. QED
    BY <1>0, <2>1
<1>2. path' \in [Appender -> 0 .. 2] /\ IsOpen(path'[tasks[taskNo]]) \in BOOLEAN
  BY <1>0, <1>1, PathStays DEF IsOpen
<1>3. op[Writer].at = "idle"
  BY <1>0 DEF PlacesInv
<1>. QED
  BY <1>0, <1>2, <1>3, PoolSame, PopLogKeeps DEF vars, ringVars

LEMMA GoOnStep ==
  ASSUME LogInv, GoOn
  PROVE  LogInv'
<1> USE DEF LogInv
<1>0. /\ at[Writer] = "pushing" /\ PopLog(IsOpen(path[tasks[taskNo]])) /\ Writer \in Thread
      /\ UNCHANGED <<built, mutex, tasks, content, path, logger, rec, via>>
      /\ \/ op[Writer].at = "idle" /\ UNCHANGED <<vars, leaked>>
         \/ Return(Writer) /\ leaked' = leaked \cup {op[Writer].val}
  BY ThreadsOfLog DEF GoOn, loggerVars, At
<1>1. taskNo <= Len(tasks) /\ path' \in [Appender -> 0 .. 2] /\ IsOpen(path[tasks[taskNo]]) \in BOOLEAN
  BY <1>0 DEF PlacesInv, LogTypeOK, IsOpen
<1>2. CASE op[Writer].at = "idle" /\ UNCHANGED <<vars, leaked>>
  BY <1>0, <1>1, <1>2, PoolSame, PopLogKeeps DEF vars, ringVars
<1>3. CASE Return(Writer) /\ leaked' = leaked \cup {op[Writer].val}
  <2>1. /\ PoolInv' /\ front' = front /\ \A u \in Thread \ {Writer} : op'[u] = op[u]
        /\ op'[Writer].at = "idle" /\ held' = held \cup {op[Writer].val} /\ op[Writer].val \in Value \ held
    BY <1>0, <1>3, CallReturns
  <2>. QED
    BY <1>0, <1>1, <1>3, <2>1, PopLogKeeps
<1>. QED
  BY <1>0, <1>2, <1>3

-----------------------------------------------------------------------------
(* The constructors. *)

\* Before the writer thread is started there is nothing but the pool.
LEMMA OnlyPool ==
  ASSUME LogInv, ~built
  PROVE  /\ front = 0 /\ Piped = {} /\ \A t \in Thread : info[t] = NoValue
         /\ \A t \in Thread \ {Main} : op[t].at = "idle"
BY DEF LogInv, PoolInv, MainIsFirst, OwnersInv

LEMMA PushNewKeeps ==
  ASSUME LogInv, NEW v \in Value, PushNew(v)
  PROVE  LogInv'
<1> USE DEF LogInv
<1>0. /\ ~ built /\ v \notin Allocated /\ StartSinglePush(Main, v) /\ Main \in Thread
      /\ UNCHANGED <<built, mutex, tasks, pipes, content, leaked, at, info, taskNo, path, formatted, stored, logger, rec, via>>
  BY ThreadsOfLog DEF PushNew, logVars
<1>1. v \in held \ leaked /\ v \in held /\ held' = held \ {v} /\ Call(Main, "single", v)
  BY <1>0 DEF Allocated, StartSinglePush
<1>2. PoolInv' /\ front' = front /\ \A u \in Thread \ {Main} : op'[u] = op[u]
  BY <1>0, <1>1, PushBegins
<1>3. Piped' = Piped /\ PipesApart'
  BY <1>0 DEF Piped, PipesApart, OwnersInv
<1>4. LogTypeOK'
  BY <1>0, <1>2, TypesSame DEF LogTypeOK, PoolInv, Places
<1>5. PlacesInv'
  BY <1>0, <1>2, ThreadsOfLog DEF PlacesInv
<1>6. OwnersInv'
  BY <1>0, <1>1, <1>2, <1>3, OnlyPool DEF OwnersInv
<1>7. SizeInv'
  BY <1>0, SizeSame
<1>8. FileInv' /\ Written' = Written
  BY <1>0, FileSame
<1>9. RecordsInv'
  BY <1>0, <1>3, <1>8, RecordsSame
<1>10. TasksInv'
  BY <1>0 DEF TasksInv, PipeHasTask
<1>. QED
  BY <1>2, <1>4, <1>5, <1>6, <1>7, <1>8, <1>9, <1>10

LEMMA PushNewStepKeeps ==
  ASSUME LogInv, PushNewStep
  PROVE  LogInv'
<1> USE DEF LogInv
<1>0. /\ UNCHANGED <<built, mutex, tasks, pipes, content, at, info, taskNo, path, formatted, stored, logger, rec, via>>
      /\ Main \in Thread
      /\ \/ SinglePush(Main) /\ leaked' = leaked
         \/ Return(Main) /\ op[Main].at = "pushFailed" /\ leaked' = leaked \cup {op[Main].val}
  BY ThreadsOfLog DEF PushNewStep, logVars, loggerVars, fileVars, At
<1>1. op[Main].at # "idle"
  BY <1>0 DEF SinglePush, SingleCheckFull, SingleStore, SinglePublish, At
<1>2. ~ built
  BY <1>1 DEF PoolInv, MainIsFirst
<1>3. /\ PoolInv' /\ front' = front /\ \A u \in Thread \ {Main} : op'[u] = op[u]
      /\ \/ held' = held /\ leaked' = leaked
         \/ \E w \in Value \ held : held' = held \cup {w} /\ leaked' = leaked \cup {w}
  BY <1>0, FillStep, CallReturns
<1>4. Piped' = Piped /\ PipesApart'
  BY <1>0 DEF Piped, PipesApart, OwnersInv
<1>5. LogTypeOK'
  <2>1. TypeOK' /\ leaked' \subseteq Value
    BY <1>3 DEF PoolInv, LogTypeOK
  <2>. QED
    BY <1>0, <2>1 DEF LogTypeOK
<1>6. PlacesInv'
  BY <1>0, <1>3, ThreadsOfLog DEF PlacesInv
<1>7. OwnersInv'
  BY <1>0, <1>2, <1>3, <1>4, OnlyPool DEF OwnersInv
<1>8. SizeInv'
  BY <1>0, <1>2 DEF SizeInv
<1>9. FileInv' /\ Written' = Written
  BY <1>0, FileSame
<1>10. RecordsInv'
  BY <1>0, <1>4, <1>9, RecordsSame
<1>11. TasksInv'
  BY <1>0 DEF TasksInv, PipeHasTask
<1>. QED
  BY <1>3, <1>5, <1>6, <1>7, <1>8, <1>9, <1>10, <1>11

(* Each LogInfo that fits has a slot of its own, and one slot stays empty. *)
LEMMA PoolHolds ==
  ASSUME LogInv, ~built, op[Main].at = "idle", Allocated = Value
  PROVE  Cardinality(Value \ leaked) < Capacity
<1> USE DEF LogInv
<1> DEFINE P == {i \in 0 .. back - 1 : data[i] \in Value \ leaked}
           f == [i \in P |-> data[i]]
<1>1. front = 0 /\ \A t \in Thread : op[t].at = "idle"
  BY OnlyPool
<1>2. back \in Nat /\ back < Capacity /\ back \in Int /\ Published = 0 .. back - 1
  <2>1. Published = front .. back - 1
    BY PublishedIsRange DEF PoolInv, RingIsUnrolled
  <2>. QED
    BY <1>1, <2>1, CapacityAssumption DEF PoolInv, TypeOK, Slot
<1>3. ASSUME NEW v \in Value \ leaked PROVE \E i \in P : f[i] = v
  <2>1. v \notin held
    BY DEF Allocated, PoolInv, TypeOK
  <2>2. Pushing(v) \cup Popped(v) = {}
    BY <1>1 DEF Pushing, Popped, PushPlace
  <2>3. \E i \in Published : data[i] = v
    BY <2>1, <2>2 DEF PoolInv, NoValueLost
  <2>. QED
    BY <1>2, <2>3
<1>4. f \in Surjection(P, Value \ leaked)
  <2>1. f \in [P -> Value \ leaked]
    OBVIOUS
  <2> HIDE DEF f, P
  <2>. QED
    BY <1>3, <2>1 DEF Surjection
<1>5. IsFiniteSet(0 .. back - 1) /\ Cardinality(0 .. back - 1) = back
  <2>1. 0 \in Int /\ back - 1 \in Int
    BY <1>2
  <2>. QED
    BY <1>2, <2>1, FS_Interval
<1>6. IsFiniteSet(P) /\ Cardinality(P) <= back
  <2>1. P \in SUBSET (0 .. back - 1)
    OBVIOUS
  <2> HIDE DEF P, f
  <2>. QED
    BY <1>5, <2>1, FS_Subset
<1> HIDE DEF f, P
<1>7. IsFiniteSet(Value \ leaked) /\ Cardinality(Value \ leaked) <= Cardinality(P)
  BY <1>4, <1>6, FS_Surjection
<1>8. Cardinality(P) \in Nat /\ Cardinality(Value \ leaked) \in Nat
  BY <1>6, <1>7, FS_CardinalityType
<1>. QED
  BY <1>2, <1>6, <1>7, <1>8, CapacityAssumption

LEMMA BuiltKeeps ==
  ASSUME LogInv, Built
  PROVE  LogInv'
<1> USE DEF LogInv
<1>0. /\ ~ built /\ op[Main].at = "idle" /\ Allocated = Value /\ built' = TRUE
      /\ UNCHANGED <<vars, mutex, tasks, pipes, content, leaked, at, info, taskNo, path, formatted, stored, logger, rec, via>>
  BY DEF Built, loggerVars, fileVars, At
<1>1. UNCHANGED <<data, front, back, write, op, held>> /\ Published' = Published
  BY <1>0, SameRing DEF vars, ringVars
<1>2. PoolInv'
  BY <1>0, <1>1 DEF PoolInv, TypeOK, CallPlaces, MainIsFirst, RingIsUnrolled, LoggersKnow, OneOwner, NoValueLost,
     HasValue, Claiming, Pushing, Popped
<1>3. Piped' = Piped /\ PipesApart'
  BY <1>0 DEF Piped, PipesApart, OwnersInv
<1>4. LogTypeOK'
  BY <1>0, <1>2, TypesSame DEF LogTypeOK, PoolInv, Places
<1>5. PlacesInv'
  BY <1>0, <1>1 DEF PlacesInv
<1>6. OwnersInv'
  <2>1. held \subseteq leaked
    BY <1>0 DEF Allocated, PoolInv, TypeOK
  <2>. QED
    BY <1>0, <1>1, <1>3, <2>1 DEF OwnersInv
<1>7. SizeInv'
  BY <1>0, PoolHolds DEF SizeInv
<1>8. FileInv' /\ Written' = Written
  BY <1>0, FileSame
<1>9. RecordsInv'
  BY <1>0, <1>3, <1>8, RecordsSame
<1>10. TasksInv'
  BY <1>0 DEF TasksInv, PipeHasTask
<1>. QED
  BY <1>2, <1>4, <1>5, <1>6, <1>7, <1>8, <1>9, <1>10

LEMMA LogInitial == LogInit => LogInv
<1> SUFFICES ASSUME LogInit PROVE LogInv
  OBVIOUS
<1>1. RingInv /\ NoValueLost /\ TypeOK
  BY RingInitial DEF LogInit, RingInv
<1>2. /\ front = 0 /\ back = 0 /\ write = 0 /\ held = Value /\ \A t \in Thread : op[t].at = "idle"
      /\ OneOwner
  BY <1>1 DEF LogInit, Init, Idle, RingInv
<1>3. PoolInv
  BY <1>1, <1>2, ThreadsOfLog DEF PoolInv, CallPlaces, MainIsFirst, RingIsUnrolled, LoggersKnow, LogInit, Claiming
<1>4. LogTypeOK
  <2>1. pipes \in [Appender -> Seq(Value)] /\ tasks \in Seq(Appender) /\ formatted \in Seq(Record)
        /\ stored \subseteq Record /\ path \in [Appender -> 0 .. 2]
    BY DEF LogInit
  <2>2. at \in [Thread -> LoggerPlace \cup WriterPlace]
    BY DEF LogInit, LoggerPlace, WriterPlace
  <2>. QED
    BY <1>1, <2>1, <2>2 DEF LogTypeOK, LogInit
<1>5. PlacesInv
  BY <1>2, ThreadsOfLog, LogNothingAssumption DEF PlacesInv, LogInit, LoggerPlace, WriterPlace
<1>6. Piped = {} /\ \A a \in Appender : pipes[a] = <<>>
  BY DEF Piped, LogInit
<1>7. OwnersInv /\ SizeInv
  BY <1>2, <1>6 DEF OwnersInv, SizeInv, PipesApart, LogInit
<1>8. FileInv /\ RecordsInv
  <2>1. formatted = <<>> /\ Written = {} /\ Len(formatted) = 0
    BY RangeOfEmpty DEF LogInit, Written
  <2>2. FileInv
    BY <2>1 DEF FileInv
  <2>3. \A t \in Thread : at[t] \in {"lock", "out"} /\ rec[t] = NoRecord
    BY DEF LogInit
  <2>4. RecordsInv
    BY <1>6, <2>3 DEF RecordsInv, LogInit
  <2>. QED
    BY <2>2, <2>4
<1>9. TasksInv
  BY <1>6, LogNothingAssumption, ThreadsOfLog DEF TasksInv, PipeHasTask, LogInit
<1>. QED
  BY <1>3, <1>4, <1>5, <1>7, <1>8, <1>9 DEF LogInv

LEMMA LogNextKeeps == LogInv /\ [LogNext]_allVars => LogInv'
<1> SUFFICES ASSUME LogInv, [LogNext]_allVars PROVE LogInv'
  OBVIOUS
<1>1. CASE MainStep
  BY <1>1, PushNewKeeps, PushNewStepKeeps, BuiltKeeps DEF MainStep
<1>2. ASSUME NEW t \in Logger, NEW r \in Record, GetLogger(t, r) PROVE LogInv'
  BY <1>2, GetLoggerStep
<1>3. ASSUME NEW t \in Logger, LogStep(t) PROVE LogInv'
  BY <1>3, AddTaskStep, SetLoggerStep, AllocStep, AllocAgainStep, FillInStep, EnqueueStep, WakeupStep,
     PoolStepKeeps DEF LogStep
<1>4. CASE WriterStep
  BY <1>4, WriterWaitsStep, WriteStep, DeallocStep, PoolStepKeeps, GoOnStep DEF WriterStep
<1>5. CASE UNCHANGED allVars
  <2>1. /\ UNCHANGED <<vars, built, mutex, tasks, pipes, content, leaked, at, info, taskNo, path, formatted, stored, logger, rec, via>>
        /\ UNCHANGED <<held, front, op>>
    BY <1>5 DEF allVars, logVars, vars, ringVars
  <2>2. PoolInv' /\ OwnersInv' /\ SizeInv' /\ FileInv' /\ Piped' = Piped /\ Written' = Written
    BY <2>1, PoolSame, OwnersSame, SizeSame, FileSame DEF LogInv
  <2>3. RecordsInv'
    BY <2>1, <2>2, RecordsSame DEF LogInv
  <2>4. LogTypeOK'
    BY <2>1, <2>2, TypesSame DEF LogInv, LogTypeOK, PoolInv, Places
  <2>. QED
    BY <2>1, <2>2, <2>3, <2>4 DEF LogInv, PlacesInv, TasksInv, PipeHasTask
<1>. QED
  BY <1>1, <1>2, <1>3, <1>4, <1>5 DEF LogNext

-----------------------------------------------------------------------------
(* The invariant says what the properties say. *)

LEMMA OneElement ==
  ASSUME NEW S, \A x, y \in S : x = y
  PROVE  Cardinality(S) = IF S = {} THEN 0 ELSE 1
<1>1. CASE S = {}
  BY <1>1, FS_EmptySet
<1>2. ASSUME NEW x \in S PROVE Cardinality(S) = 1
  <2>1. S = {x}
    OBVIOUS
  <2>. QED
    BY <2>1, FS_Singleton
<1>. QED
  BY <1>1, <1>2

LEMMA PipeFits ==
  ASSUME LogInv, NEW a \in Appender
  PROVE  /\ pipes[a] \in Seq(Value) /\ Len(pipes[a]) <= Cardinality(Value \ leaked)
         /\ Cardinality(Value \ leaked) <= Cardinality(Value)
         /\ Cardinality(Value \ leaked) \in Nat /\ Cardinality(Value) \in Nat
<1> USE DEF LogInv
<1> DEFINE n == Len(pipes[a])
           f == [i \in 1 .. n |-> pipes[a][i]]
<1>1. pipes[a] \in Seq(Value) /\ n \in Nat
  BY DEF LogTypeOK
<1>2. IsFiniteSet(Value \ leaked) /\ Cardinality(Value \ leaked) <= Cardinality(Value)
  BY FS_Subset, LogInfosAssumption
<1>3. \A i \in 1 .. n : pipes[a][i] \in Value \ leaked
  BY <1>1 DEF OwnersInv, Piped
<1>4. f \in Injection(1 .. n, Value \ leaked)
  <2>1. f \in [1 .. n -> Value \ leaked]
    BY <1>3
  <2>2. \A i, j \in 1 .. n : f[i] = f[j] => i = j
    BY DEF OwnersInv, PipesApart
  <2> HIDE DEF f
  <2>. QED
    BY <2>1, <2>2 DEF Injection, IsInjective
<1> HIDE DEF f
<1>5. Cardinality(1 .. n) <= Cardinality(Value \ leaked)
  BY <1>2, <1>4, FS_Injection
<1>6. Cardinality(1 .. n) = n
  <2>1. 1 \in Int /\ n \in Int
    BY <1>1
  <2>. QED
    BY <1>1, <2>1, FS_Interval
<1>. QED
  BY <1>1, <1>2, <1>5, <1>6, LogInfosAssumption, FS_CardinalityType

\* The positions of the pipes, as InfoInOnePlace and Copies count them.
Position == {x \in Appender \X (1 .. Cardinality(Value)) : x[2] \in DOMAIN pipes[x[1]]}

LEMMA Positions ==
  ASSUME LogInv
  PROVE  /\ \A x \in Position : pipes[x[1]][x[2]] \in Piped
         /\ \A v \in Piped : \E x \in Position : pipes[x[1]][x[2]] = v
         /\ \A x, y \in Position : pipes[x[1]][x[2]] = pipes[y[1]][y[2]] => x = y
<1>1. ASSUME NEW a \in Appender
      PROVE  DOMAIN pipes[a] = 1 .. Len(pipes[a]) /\ 1 .. Len(pipes[a]) \subseteq 1 .. Cardinality(Value)
             /\ \A i \in 1 .. Len(pipes[a]) : pipes[a][i] \in Value
  BY PipeFits
<1>2. ASSUME NEW x \in Position
      PROVE  x[1] \in Appender /\ x[2] \in 1 .. Len(pipes[x[1]]) /\ x = <<x[1], x[2]>>
  BY <1>1 DEF Position
<1>3. \A x \in Position : pipes[x[1]][x[2]] \in Piped
  BY <1>1, <1>2 DEF Piped
<1>4. ASSUME NEW v \in Piped PROVE \E x \in Position : pipes[x[1]][x[2]] = v
  <2>1. PICK a \in Appender : \E i \in 1 .. Len(pipes[a]) : pipes[a][i] = v
    BY DEF Piped
  <2>2. PICK i \in 1 .. Len(pipes[a]) : pipes[a][i] = v
    BY <2>1
  <2>3. <<a, i>> \in Position /\ <<a, i>>[1] = a /\ <<a, i>>[2] = i
    BY <1>1, <2>2 DEF Position
  <2>. QED
    BY <2>2, <2>3
<1>5. ASSUME NEW x \in Position, NEW y \in Position, pipes[x[1]][x[2]] = pipes[y[1]][y[2]]
      PROVE  x = y
  <2>1. x[1] = y[1] /\ x[2] = y[2]
    BY <1>2, <1>5 DEF LogInv, OwnersInv, PipesApart
  <2>. QED
    BY <1>2, <2>1
<1>. QED
  BY <1>3, <1>4, <1>5

LEMMA InfosHaveOnePlace == ASSUME LogInv PROVE InfoInOnePlace
<1> USE DEF LogInv
<1> SUFFICES ASSUME built, NEW v \in Value
             PROVE  Cardinality({i \in Published : data[i] = v})
                      + Cardinality(Pushing(v) \cup Popped(v))
                      + Cardinality({t \in Thread : info[t] = v})
                      + Cardinality({x \in Appender \X (1 .. Cardinality(Value)) :
                                       x[2] \in DOMAIN pipes[x[1]] /\ pipes[x[1]][x[2]] = v})
                      + Cardinality(leaked \cap {v}) = 1
  BY DEF InfoInOnePlace
<1> DEFINE Slots   == {i \in Published : data[i] = v}
           Calls   == Pushing(v) \cup Popped(v)
           Hands   == {t \in Thread : info[t] = v}
           InPipes == {x \in Appender \X (1 .. Cardinality(Value)) :
                         x[2] \in DOMAIN pipes[x[1]] /\ pipes[x[1]][x[2]] = v}
           Lost    == leaked \cap {v}
<1>1. v # NoValue
  BY NoValueAssumption
<1>2. \A x \in InPipes : x \in Position /\ pipes[x[1]][x[2]] = v
  BY DEF Position
<1>3. InPipes # {} <=> v \in Piped
  BY <1>2, Positions DEF Position
<1>4. \A t \in Calls : t \in Thread /\ HasValue(t) /\ op[t].val = v
  BY DEF Pushing, Popped, HasValue
<1>5. /\ \A x, y \in Slots : x = y
      /\ \A x, y \in Calls : x = y
      /\ Slots # {} => Calls = {} /\ v \notin held
      /\ Calls # {} => v \notin held
  BY <1>4 DEF PoolInv, OneOwner
<1>6. v \notin held => Slots # {} \/ Calls # {}
  BY DEF PoolInv, NoValueLost
<1>7. \A x, y \in InPipes : x = y
  BY <1>2, Positions
<1>8. /\ \A x, y \in Hands : x = y
      /\ Hands # {} => v \in held /\ v \notin Piped /\ v \notin leaked
      /\ v \in Piped => v \in held /\ v \notin leaked
      /\ v \in leaked => v \in held
      /\ v \in held => v \in leaked \/ v \in Piped \/ Hands # {}
  BY <1>1 DEF OwnersInv
<1>9. (Lost = {} <=> v \notin leaked) /\ \A x, y \in Lost : x = y
  OBVIOUS
<1> HIDE DEF Slots, Calls, Hands, InPipes, Lost
<1>10. /\ Cardinality(Slots) = IF Slots = {} THEN 0 ELSE 1
       /\ Cardinality(Calls) = IF Calls = {} THEN 0 ELSE 1
       /\ Cardinality(Hands) = IF Hands = {} THEN 0 ELSE 1
       /\ Cardinality(InPipes) = IF InPipes = {} THEN 0 ELSE 1
       /\ Cardinality(Lost) = IF Lost = {} THEN 0 ELSE 1
  BY <1>5, <1>7, <1>8, <1>9, OneElement
<1>11. Cardinality(Slots) + Cardinality(Calls) + Cardinality(Hands) + Cardinality(InPipes) + Cardinality(Lost) = 1
  <2>1. CASE v \notin held
    BY <1>3, <1>5, <1>6, <1>8, <1>9, <1>10, <2>1
  <2>2. CASE v \in held
    BY <1>3, <1>5, <1>8, <1>9, <1>10, <2>2
  <2>. QED
    BY <2>1, <2>2
<1>. QED
  BY <1>11 DEF Slots, Calls, Hands, InPipes, Lost

LEMMA RecordsAreKept == ASSUME LogInv PROVE RecordKeptOnce
<1> USE DEF LogInv
<1> SUFFICES ASSUME NEW r \in Record
             PROVE  Copies(r) <= 1 /\ (r \in Logged \ Range(rec) => Copies(r) = 1)
  BY DEF RecordKeptOnce
<1> DEFINE InPipes  == {x \in Appender \X (1 .. Cardinality(Value)) :
                          x[2] \in DOMAIN pipes[x[1]] /\ content[pipes[x[1]][x[2]]] = r}
           Formatted == {i \in DOMAIN formatted : formatted[i] = r}
           Hands    == {t \in Logger : at[t] = "enqueue" /\ rec[t] = r}
<1>1. r # NoRecord /\ Logger \subseteq Thread
  BY LogNothingAssumption, ThreadsOfLog
<1>2. DOMAIN formatted = 1 .. Len(formatted)
  BY DEF LogTypeOK
<1>3. Formatted # {} <=> r \in Written
  BY DEF Range, Written
<1>4. \A x, y \in Formatted : x = y
  BY <1>2 DEF FileInv
<1>5. \A x \in InPipes : x \in Position /\ pipes[x[1]][x[2]] \in Piped /\ content[pipes[x[1]][x[2]]] = r
  BY Positions DEF Position
<1>6. \A x, y \in InPipes : x = y
  BY <1>5, Positions DEF RecordsInv
<1>7. InPipes # {} => r \notin Written /\ Hands = {}
  BY <1>1, <1>5 DEF RecordsInv
<1>8. \A w \in Piped : content[w] = r => InPipes # {}
  BY Positions DEF Position
<1>9. /\ \A x, y \in Hands : x = y
      /\ Hands # {} => r \notin Written /\ r \in Range(rec)
  <2>1. DOMAIN rec = Thread
    BY DEF LogTypeOK
  <2>. QED
    BY <1>1, <2>1 DEF RecordsInv, Range
<1>12. r \in Logged \ Range(rec) => r \in Written \/ InPipes # {}
  <2>1. r \in Range(content) => \E v \in Value : content[v] = r
    BY DEF LogTypeOK, Range
  <2>2. ASSUME NEW v \in Value, content[v] = r, r \notin Range(rec)
        PROVE  r \in Written \/ InPipes # {}
    <3>1. \/ r \in Written
          \/ \E w \in Piped : content[w] = r
          \/ \E t \in Thread : at[t] = "enqueue" /\ rec[t] = r
      BY <1>1, <2>2 DEF RecordsInv
    <3>2. \A t \in Thread : rec[t] # r
      BY <2>2 DEF LogTypeOK, Range
    <3>. QED
      BY <1>8, <3>1, <3>2
  <2>. QED
    BY <2>1, <2>2 DEF Logged, Written
<1>13. Copies(r) = Cardinality(InPipes) + Cardinality(Formatted) + Cardinality(Hands)
  BY DEF Copies
<1> HIDE DEF InPipes, Formatted, Hands
<1>14. /\ Cardinality(InPipes) = IF InPipes = {} THEN 0 ELSE 1
       /\ Cardinality(Formatted) = IF Formatted = {} THEN 0 ELSE 1
       /\ Cardinality(Hands) = IF Hands = {} THEN 0 ELSE 1
  BY <1>4, <1>6, <1>9, OneElement
<1>. QED
  BY <1>3, <1>7, <1>9, <1>12, <1>13, <1>14

LEMMA PipesHaveRoom == ASSUME LogInv PROVE PipesAreServed
<1> SUFFICES ASSUME NEW a \in Appender PROVE Len(pipes[a]) < Capacity
  BY DEF PipesAreServed, PipeHasRoom, LogInv, TasksInv
<1>0. pipes[a] \in Seq(Value) /\ Len(pipes[a]) \in Nat
  BY PipeFits
<1>1. CASE built
  <2>1. Cardinality(Value \ leaked) < Capacity
    BY <1>1 DEF LogInv, SizeInv
  <2>2. Len(pipes[a]) <= Cardinality(Value \ leaked) /\ Cardinality(Value \ leaked) \in Nat
    BY PipeFits
  <2>. QED
    BY <1>0, <2>1, <2>2, CapacityAssumption
<1>2. CASE ~ built
  <2>1. \A i \in 1 .. Len(pipes[a]) : FALSE
    <3>1. \A i \in 1 .. Len(pipes[a]) : pipes[a][i] \in Piped
      BY <1>0 DEF Piped
    <3>. QED
      BY <1>2, <3>1, OnlyPool
  <2>2. Len(pipes[a]) = 0
    BY <1>0, <2>1
  <2>. QED
    BY <2>2, CapacityAssumption
<1>. QED
  BY <1>1, <1>2

LEMMA LogInvariant == LogSpec => []LogInv
<1>. QED
  BY LogInitial, LogNextKeeps, PTL DEF LogSpec

-----------------------------------------------------------------------------
(* Each LogInfo is at any moment in the pool, in one call on it, in the hands *)
(* of one thread, at one place of one pipe, or leaked: no logger is given a   *)
(* LogInfo whose record is still to be written (AllocLogInfo, DeallocLogInfo *)
(* and the pushes and pops of LogWriter and FileAppender).                    *)
THEOREM InfosKept == LogSpec => []InfosAreKept
<1>1. LogInv => InfosAreKept
  BY InfosHaveOnePlace DEF InfosAreKept, LogInv
<1>. QED
  BY <1>1, LogInvariant, PTL

(* A record that a logger put into a LogInfo is in one pipe, or the writer has *)
(* formatted it, once and as the logger left it: whichever threads take        *)
(* LogInfos from the pool and give them back, none is filled anew before its   *)
(* record was formatted (AllocLogInfo, DeallocLogInfo, writeLogsfile).         *)
THEOREM RecordsKept == LogSpec => []RecordKeptOnce
<1>1. LogInv => RecordKeptOnce
  BY RecordsAreKept
<1>. QED
  BY <1>1, LogInvariant, PTL

(* No pipe is ever full, so that FileAppender::Log does not wait for room, and *)
(* a pipe that holds records is one that LogWriter::loop runs the task of.     *)
THEOREM PipesServed == LogSpec => []PipesAreServed
<1>1. LogInv => PipesAreServed
  BY PipesHaveRoom
<1>. QED
  BY <1>1, LogInvariant, PTL

================================================================================
