------------------------- MODULE LockfreeQueue_proofs -------------------------
(***************************************************************************)
(* The queue for any number of threads, values and slots, as its clients   *)
(* in the server use it: one thread pops at a time, and there are fewer    *)
(* values than slots.                                                      *)
(*                                                                         *)
(* Both are needed.  A second popper may take front_ once round the ring    *)
(* between the read of a slot and the exchange of front_; and where the     *)
(* ring can be full, a pusher that found room may exchange write_ after it  *)
(* went once round, when there is none left.                               *)
(***************************************************************************)
EXTENDS LockfreeQueue, FiniteSetTheorems, SequenceTheorems, TLAPS

\* The indices follow each other round the ring.
IndicesInOrder == Distance(front, back) <= Distance(front, write)

\* The threads that have a value which is not with the clients.
HasValue(t) == op[t].at \in PushPlace \cup {"popped"}
NoSinglePush == \A t \in Thread : op[t].at \notin {"single", "singleStore", "singlePublish"}

\* A value has one owner: the clients, a call, or a published slot.
OneOwner ==
  /\ \A t \in Thread : HasValue(t) => op[t].val \in Value \ held
  /\ \A t, u \in Thread : HasValue(t) /\ HasValue(u) /\ t # u => op[t].val # op[u].val
  /\ \A i \in Published : data[i] \in Value \ held
  /\ \A i, j \in Published : i # j => data[i] # data[j]
  /\ \A i \in Published, t \in Thread : HasValue(t) => data[i] # op[t].val

\* One thread pops at a time, and it knows front_ and what is there.
Popping(t) == op[t].at \in PopPlace \ {"popped"}
PopperIsAlone == \A t, u \in Thread : Popping(t) /\ Popping(u) => t = u
PopperKnows ==
  \A t \in Thread :
    /\ op[t].at \in {"popEmpty", "popRead", "popClaim", "popSingleTake"} => op[t].pos = front
    /\ op[t].at \in {"popRead", "popClaim", "popSingleTake"} => front # back
    /\ op[t].at = "popClaim" => op[t].val = data[front]

\* Each slot between back_ and write_ belongs to one pusher.
SlotsAreClaimed ==
  /\ \A t \in Thread : Claiming(t) => op[t].pos \in SlotsFrom(back, write)
  /\ \A s \in SlotsFrom(back, write) : \E t \in Thread : Claiming(t) /\ op[t].pos = s
  /\ \A t, u \in Thread : Claiming(t) /\ Claiming(u) /\ t # u => op[t].pos # op[u].pos
StoredIsKept == \A t \in Thread : op[t].at = "pushPublish" => data[op[t].pos] = op[t].val

RingInv ==
  /\ TypeOK /\ IndicesInOrder /\ SlotsAreClaimed /\ NoSinglePush
  /\ OneOwner /\ PopperIsAlone /\ PopperKnows /\ StoredIsKept

-----------------------------------------------------------------------------
(* Arcs of the ring. *)

LEMMA ArcGrows ==
  ASSUME NEW i \in Slot, NEW j \in Slot, Succ(j) # i
  PROVE  /\ Succ(j) \in Slot
         /\ Distance(i, Succ(j)) = Distance(i, j) + 1
         /\ SlotsFrom(i, Succ(j)) = SlotsFrom(i, j) \cup {j}
         /\ j \notin SlotsFrom(i, j)
<1>1. Succ(j) \in Slot /\ Distance(i, Succ(j)) = Distance(i, j) + 1
  BY CapacityAssumption DEF Slot, Succ, Distance
<1>2. ASSUME NEW s \in Slot
      PROVE  Distance(i, s) < Distance(i, j) + 1 <=> Distance(i, s) < Distance(i, j) \/ s = j
  BY CapacityAssumption DEF Slot, Distance
<1>3. ~ (Distance(i, j) < Distance(i, j))
  BY CapacityAssumption DEF Slot, Distance
<1>. QED
  BY <1>1, <1>2, <1>3 DEF SlotsFrom

LEMMA ArcShrinks ==
  ASSUME NEW i \in Slot, NEW j \in Slot, i # j
  PROVE  /\ Succ(i) \in Slot
         /\ Distance(Succ(i), j) = Distance(i, j) - 1
         /\ SlotsFrom(Succ(i), j) = SlotsFrom(i, j) \ {i}
         /\ i \in SlotsFrom(i, j)
<1>1. Succ(i) \in Slot /\ Distance(Succ(i), j) = Distance(i, j) - 1
  BY CapacityAssumption DEF Slot, Succ, Distance
<1>2. ASSUME NEW s \in Slot
      PROVE  Distance(Succ(i), s) < Distance(i, j) - 1 <=> Distance(i, s) < Distance(i, j) /\ s # i
  BY CapacityAssumption DEF Slot, Succ, Distance
<1>3. Distance(i, i) < Distance(i, j)
  BY CapacityAssumption DEF Slot, Distance
<1>. QED
  BY <1>1, <1>2, <1>3 DEF SlotsFrom

LEMMA ArcSplits ==
  ASSUME NEW i \in Slot, NEW j \in Slot, NEW k \in Slot, Distance(i, j) <= Distance(i, k)
  PROVE  /\ Distance(i, k) = Distance(i, j) + Distance(j, k)
         /\ SlotsFrom(i, k) = SlotsFrom(i, j) \cup SlotsFrom(j, k)
         /\ SlotsFrom(i, j) \cap SlotsFrom(j, k) = {}
<1>1. Distance(i, k) = Distance(i, j) + Distance(j, k)
  BY CapacityAssumption DEF Slot, Distance
<1>2. ASSUME NEW s \in Slot
      PROVE  /\ Distance(i, s) < Distance(i, k) <=> Distance(i, s) < Distance(i, j) \/ Distance(j, s) < Distance(j, k)
             /\ ~ (Distance(i, s) < Distance(i, j) /\ Distance(j, s) < Distance(j, k))
  BY CapacityAssumption DEF Slot, Distance
<1>. QED
  BY <1>1, <1>2 DEF SlotsFrom

-----------------------------------------------------------------------------
(* What follows of the invariant. *)

LEMMA RingFacts ==
  ASSUME RingInv
  PROVE  /\ front \in Slot /\ back \in Slot /\ write \in Slot
         /\ Published \subseteq Slot
         /\ Published \cap SlotsFrom(back, write) = {}
         /\ SlotsFrom(front, write) = Published \cup SlotsFrom(back, write)
BY ArcSplits DEF RingInv, TypeOK, IndicesInOrder, Published, SlotsFrom

LEMMA RingInitial == Init => RingInv /\ NoValueLost
<1> SUFFICES ASSUME Init PROVE RingInv /\ NoValueLost
  OBVIOUS
<1>1. 0 \in Slot /\ SlotsFrom(0, 0) = {} /\ Distance(0, 0) = 0
  BY CapacityAssumption DEF Slot, SlotsFrom, Distance
<1>2. TypeOK
  BY <1>1 DEF Init, TypeOK, OpType, OpPlace, Idle
<1>. QED
  BY <1>1, <1>2 DEF Init, RingInv, IndicesInOrder, SlotsAreClaimed, NoSinglePush, OneOwner, PopperIsAlone,
       PopperKnows, StoredIsKept, Published, Claiming, HasValue, Popping, PushPlace, PopPlace, Idle, NoValueLost

-----------------------------------------------------------------------------
(* The calls that begin and end. *)

LEMMA IdleIsTyped == Idle \in OpType /\ Idle.at = "idle" /\ Idle.pos = 0
BY CapacityAssumption DEF Idle, OpType, OpPlace, Slot

LEMMA CallIsTyped ==
  ASSUME TypeOK, NEW t \in Thread, NEW place \in {"pushLoad", "single", "popLoad", "popSingle"},
         NEW v \in Value \cup {NoValue}, Call(t, place, v)
  PROVE  /\ op[t].at = "idle" /\ UNCHANGED ringVars
         /\ op' \in [Thread -> OpType] /\ \A u \in Thread \ {t} : op'[u] = op[u]
         /\ op'[t].at = place /\ op'[t].val = v
<1> DEFINE new == [Idle EXCEPT !.at = place, !.val = v]
<1>1. new \in OpType /\ new.at = place /\ new.val = v
  BY IdleIsTyped DEF OpType, OpPlace, PushPlace, PopPlace
<1>2. op \in [Thread -> OpType] /\ op' = [op EXCEPT ![t] = new] /\ op[t].at = "idle" /\ UNCHANGED ringVars
  BY DEF TypeOK, Call, At
<1> HIDE DEF new
<1>. QED
  BY <1>1, <1>2

LEMMA StartPushStep ==
  ASSUME RingInv, NEW t \in Thread, NEW v \in Value, v \in held, held' = held \ {v}, Call(t, "pushLoad", v)
  PROVE  RingInv' /\ (NoValueLost => NoValueLost')
<1> USE DEF RingInv, ringVars
<1>1. /\ op[t].at = "idle" /\ UNCHANGED <<data, front, back, write>>
      /\ op' \in [Thread -> OpType] /\ \A u \in Thread \ {t} : op'[u] = op[u]
      /\ op'[t].at = "pushLoad" /\ op'[t].val = v
  BY CallIsTyped
<1>2. TypeOK'
  BY <1>1 DEF TypeOK
<1>3. IndicesInOrder' /\ Published' = Published /\ SlotsFrom(back, write)' = SlotsFrom(back, write)
  BY <1>1 DEF IndicesInOrder, Distance, Published, SlotsFrom
<1>4. SlotsAreClaimed'
  BY <1>1, <1>3 DEF SlotsAreClaimed, Claiming
<1>5. NoSinglePush' /\ StoredIsKept' /\ PopperIsAlone' /\ PopperKnows'
  BY <1>1 DEF NoSinglePush, StoredIsKept, PopperIsAlone, PopperKnows, Popping, PopPlace
<1>6. OneOwner'
  BY <1>1, <1>3 DEF OneOwner, HasValue, PushPlace
<1>7. ASSUME NoValueLost PROVE NoValueLost'
  BY <1>1, <1>3, <1>7 DEF NoValueLost, Pushing, Popped, PushPlace
<1>. QED
  BY <1>2, <1>3, <1>4, <1>5, <1>6, <1>7

LEMMA StartPopStep ==
  ASSUME RingInv, NEW t \in Thread, StartPop(t), \A u \in Thread : ~ Popping(u)
  PROVE  RingInv' /\ (NoValueLost => NoValueLost')
<1> USE DEF RingInv, ringVars
<1>1. /\ op[t].at = "idle" /\ UNCHANGED <<data, front, back, write, held>>
      /\ op' \in [Thread -> OpType] /\ \A u \in Thread \ {t} : op'[u] = op[u]
      /\ op'[t].at \in {"popLoad", "popSingle"}
  BY CallIsTyped DEF StartPop
<1>2. TypeOK'
  BY <1>1 DEF TypeOK
<1>3. IndicesInOrder' /\ Published' = Published /\ SlotsFrom(back, write)' = SlotsFrom(back, write)
  BY <1>1 DEF IndicesInOrder, Distance, Published, SlotsFrom
<1>4. SlotsAreClaimed'
  BY <1>1, <1>3 DEF SlotsAreClaimed, Claiming
<1>5. NoSinglePush' /\ StoredIsKept' /\ PopperIsAlone' /\ PopperKnows'
  BY <1>1 DEF NoSinglePush, StoredIsKept, PopperIsAlone, PopperKnows, Popping, PopPlace
<1>6. OneOwner'
  BY <1>1, <1>3 DEF OneOwner, HasValue, PushPlace
<1>7. ASSUME NoValueLost PROVE NoValueLost'
  BY <1>1, <1>3, <1>7 DEF NoValueLost, Pushing, Popped, PushPlace
<1>. QED
  BY <1>2, <1>3, <1>4, <1>5, <1>6, <1>7

LEMMA ReturnStep ==
  ASSUME RingInv, NEW t \in Thread, Return(t)
  PROVE  RingInv' /\ (NoValueLost => NoValueLost')
<1> USE DEF RingInv, ringVars
<1>0. op \in [Thread -> OpType] /\ op[t].at \in {"popped", "pushFailed"} /\ UNCHANGED <<data, front, back, write>>
      /\ held' = held \cup {op[t].val} /\ op' = [op EXCEPT ![t] = Idle]
  BY DEF TypeOK, Return
<1>a. HasValue(t) /\ op[t].val \in Value \ held
  BY <1>0 DEF OneOwner, HasValue, PushPlace
<1>1. TypeOK'
  BY <1>0, <1>a, CapacityAssumption DEF TypeOK, OpType, OpPlace, Idle, Slot
<1>2. op'[t] = Idle /\ Idle.at = "idle" /\ \A u \in Thread \ {t} : op'[u] = op[u]
  BY <1>0 DEF Idle
<1>3. IndicesInOrder' /\ Published' = Published /\ SlotsFrom(back, write)' = SlotsFrom(back, write)
  BY <1>0 DEF IndicesInOrder, Distance, Published, SlotsFrom
<1>4. SlotsAreClaimed'
  BY <1>0, <1>2, <1>3 DEF SlotsAreClaimed, Claiming
<1>5. NoSinglePush' /\ StoredIsKept' /\ PopperIsAlone' /\ PopperKnows'
  BY <1>0, <1>2 DEF NoSinglePush, StoredIsKept, PopperIsAlone, PopperKnows, Popping, PopPlace
<1>6. OneOwner'
  BY <1>0, <1>a, <1>2, <1>3 DEF OneOwner, HasValue, PushPlace
<1>7. ASSUME NoValueLost PROVE NoValueLost'
  BY <1>0, <1>2, <1>3, <1>7 DEF NoValueLost, Pushing, Popped, PushPlace
<1>. QED
  BY <1>1, <1>3, <1>4, <1>5, <1>6, <1>7

-----------------------------------------------------------------------------
(* Steps of a call that look at the ring and change nothing of it: the value *)
(* of the call stays, or is the popper's copy of the slot.                   *)
LEMMA LookStep ==
  ASSUME RingInv, NEW t \in Thread,
         \/ PushLoadWrite(t) \/ PushCheckFull(t) \/ PopLoadFront(t) \/ PopCheckEmpty(t) \/ PopRead(t) \/ SingleCheckEmpty(t)
  PROVE  RingInv' /\ (NoValueLost => NoValueLost')
<1> USE DEF RingInv, ringVars
<1>0. op \in [Thread -> OpType] /\ UNCHANGED <<data, front, back, write, held>>
  BY DEF TypeOK, PushLoadWrite, PushCheckFull, PopLoadFront, PopCheckEmpty, PopRead, SingleCheckEmpty
<1>1. /\ \A u \in Thread \ {t} : op'[u] = op[u]
      /\ op' \in [Thread -> OpType]
      /\ \/ op[t].at = "pushLoad" /\ op'[t].at = "pushFull" /\ op'[t].val = op[t].val
         \/ op[t].at = "pushFull" /\ op'[t].at \in {"pushFailed", "pushClaim"} /\ op'[t].val = op[t].val
         \/ op[t].at = "popLoad" /\ op'[t].at = "popEmpty" /\ op'[t].pos = front
         \/ op[t].at = "popEmpty" /\ op'[t].at = "idle"
         \/ op[t].at = "popEmpty" /\ op'[t].at = "popRead" /\ op[t].pos # back /\ op'[t].pos = op[t].pos
         \/ op[t].at = "popRead" /\ op'[t].at = "popClaim" /\ op'[t].pos = op[t].pos /\ op'[t].val = data[op[t].pos]
         \/ op[t].at = "popSingle" /\ op'[t].at = "idle"
         \/ op[t].at = "popSingle" /\ op'[t].at = "popSingleTake" /\ front # back /\ op'[t].pos = front
  <2>1. CASE PushLoadWrite(t)
    <3> DEFINE loaded == [op[t] EXCEPT !.at = "pushFull", !.pos = write]
    <3>1. loaded \in OpType /\ loaded.at = "pushFull" /\ loaded.val = op[t].val
      BY <1>0 DEF TypeOK, OpType, OpPlace, PushPlace
    <3>2. op[t].at = "pushLoad" /\ op' = [op EXCEPT ![t] = loaded]
      BY <2>1 DEF PushLoadWrite, At
    <3> HIDE DEF loaded
    <3>. QED
      BY <1>0, <3>1, <3>2
  <2>2. CASE PushCheckFull(t)
    BY <1>0, <2>2 DEF PushCheckFull, At, GoTo, TypeOK, OpType, OpPlace, PushPlace
  <2>3. CASE PopLoadFront(t)
    BY <1>0, <2>3 DEF PopLoadFront, At, TypeOK, OpType, OpPlace, PopPlace
  <2>4. CASE PopCheckEmpty(t)
    BY <1>0, <2>4, IdleIsTyped DEF PopCheckEmpty, At, GoTo, TypeOK, OpType, OpPlace, PopPlace
  <2>5. CASE PopRead(t)
    BY <1>0, <2>5 DEF PopRead, At, TypeOK, OpType, OpPlace, PopPlace
  <2>6. CASE SingleCheckEmpty(t)
    <3> DEFINE taking == [Idle EXCEPT !.at = "popSingleTake", !.pos = front]
    <3>1. taking \in OpType /\ taking.at = "popSingleTake" /\ taking.pos = front
      BY IdleIsTyped DEF TypeOK, OpType, OpPlace, PopPlace
    <3>2. op[t].at = "popSingle" /\ op' = [op EXCEPT ![t] = IF front = back THEN Idle ELSE taking]
      BY <2>6 DEF SingleCheckEmpty, At
    <3> HIDE DEF taking
    <3>. QED
      BY <1>0, <3>1, <3>2, IdleIsTyped
  <2>. QED
    BY <2>1, <2>2, <2>3, <2>4, <2>5, <2>6
<1>2. TypeOK'
  BY <1>0, <1>1 DEF TypeOK
<1>3. IndicesInOrder' /\ Published' = Published /\ SlotsFrom(back, write)' = SlotsFrom(back, write)
  BY <1>0 DEF IndicesInOrder, Distance, Published, SlotsFrom
<1>4. SlotsAreClaimed'
  BY <1>0, <1>1, <1>3 DEF SlotsAreClaimed, Claiming
<1>5. NoSinglePush' /\ StoredIsKept'
  BY <1>0, <1>1 DEF NoSinglePush, StoredIsKept
<1>6. PopperIsAlone'
  BY <1>0, <1>1 DEF PopperIsAlone, Popping, PopPlace
<1>7. PopperKnows'
  BY <1>0, <1>1 DEF PopperKnows
<1>8. OneOwner'
  BY <1>0, <1>1, <1>3 DEF OneOwner, HasValue, PushPlace
<1>9. ASSUME NoValueLost PROVE NoValueLost'
  BY <1>0, <1>1, <1>3, <1>9 DEF NoValueLost, Pushing, Popped, PushPlace
<1>. QED
  BY <1>2, <1>3, <1>4, <1>5, <1>6, <1>7, <1>8, <1>9

-----------------------------------------------------------------------------
(* Steps that move an index or fill a slot. *)

\* A push that claims its slot has room: see RoomForAll.
LEMMA PushClaimStep ==
  ASSUME RingInv, NEW t \in Thread, PushClaim(t), write = op[t].pos => Succ(write) # front
  PROVE  RingInv' /\ (NoValueLost => NoValueLost')
<1> USE DEF RingInv, ringVars
<1>0. op \in [Thread -> OpType] /\ op[t].at = "pushClaim" /\ UNCHANGED <<data, front, back, held>>
  BY DEF TypeOK, PushClaim, At
<1>1. /\ \A u \in Thread \ {t} : op'[u] = op[u]
      /\ op' \in [Thread -> OpType]
      /\ op'[t].val = op[t].val /\ op'[t].pos = op[t].pos
      /\ \/ op'[t].at = "pushLoad" /\ write' = write
         \/ op'[t].at = "pushStore" /\ write = op[t].pos /\ write' = Succ(write)
  BY <1>0 DEF PushClaim, GoTo, TypeOK, OpType, OpPlace, PushPlace
<1>2. CASE op'[t].at = "pushLoad" /\ write' = write
  <2>1. IndicesInOrder' /\ Published' = Published /\ SlotsFrom(back, write)' = SlotsFrom(back, write) /\ TypeOK'
    BY <1>0, <1>1, <1>2 DEF IndicesInOrder, Distance, Published, SlotsFrom, TypeOK
  <2>2. SlotsAreClaimed'
    BY <1>0, <1>1, <1>2, <2>1 DEF SlotsAreClaimed, Claiming
  <2>3. NoSinglePush' /\ StoredIsKept' /\ PopperIsAlone' /\ PopperKnows'
    BY <1>0, <1>1, <1>2 DEF NoSinglePush, StoredIsKept, PopperIsAlone, PopperKnows, Popping, PopPlace
  <2>4. OneOwner'
    BY <1>0, <1>1, <1>2, <2>1 DEF OneOwner, HasValue, PushPlace
  <2>5. ASSUME NoValueLost PROVE NoValueLost'
    BY <1>0, <1>1, <1>2, <2>1, <2>5 DEF NoValueLost, Pushing, Popped, PushPlace
  <2>. QED
    BY <2>1, <2>2, <2>3, <2>4, <2>5
<1>3. CASE op'[t].at = "pushStore" /\ write = op[t].pos /\ write' = Succ(write)
  <2>0. /\ front \in Slot /\ back \in Slot /\ write \in Slot /\ Succ(write) # front
        /\ Distance(front, write) = Distance(front, back) + Distance(back, write)
    BY <1>3, RingFacts, ArcSplits DEF IndicesInOrder
  <2>1. Succ(write) \in Slot /\ Distance(front, Succ(write)) = Distance(front, write) + 1
    BY <2>0, ArcGrows
  <2>2. Succ(write) # back
    BY <2>0, CapacityAssumption DEF Slot, Distance, Succ
  <2>3. SlotsFrom(back, Succ(write)) = SlotsFrom(back, write) \cup {write} /\ write \notin SlotsFrom(back, write)
    BY <2>0, <2>2, ArcGrows
  <2>4. Published' = Published /\ SlotsFrom(back, write)' = SlotsFrom(back, write) \cup {op[t].pos}
    BY <1>0, <1>3, <2>3 DEF Published, SlotsFrom, Distance
  <2>5. Distance(front, back) \in Int /\ Distance(front, write) \in Int
    BY <2>0, CapacityAssumption DEF Slot, Distance
  <2>6. IndicesInOrder' /\ TypeOK'
    <3>1. Distance(front, back)' = Distance(front, back) /\ Distance(front, write)' = Distance(front, Succ(write))
      BY <1>0, <1>3 DEF Distance
    <3>. QED
      BY <1>0, <1>1, <1>3, <2>1, <2>5, <3>1 DEF IndicesInOrder, TypeOK
  <2>7. SlotsAreClaimed'
    BY <1>0, <1>1, <1>3, <2>3, <2>4 DEF SlotsAreClaimed, Claiming
  <2>8. NoSinglePush' /\ StoredIsKept' /\ PopperIsAlone' /\ PopperKnows'
    BY <1>0, <1>1, <1>3 DEF NoSinglePush, StoredIsKept, PopperIsAlone, PopperKnows, Popping, PopPlace
  <2>9. OneOwner'
    BY <1>0, <1>1, <1>3, <2>4 DEF OneOwner, HasValue, PushPlace
  <2>10. ASSUME NoValueLost PROVE NoValueLost'
    BY <1>0, <1>1, <1>3, <2>4, <2>10 DEF NoValueLost, Pushing, Popped, PushPlace
  <2>. QED
    BY <2>6, <2>7, <2>8, <2>9, <2>10
<1>. QED
  BY <1>1, <1>2, <1>3

LEMMA PushStoreStep ==
  ASSUME RingInv, NEW t \in Thread, PushStore(t)
  PROVE  RingInv' /\ (NoValueLost => NoValueLost')
<1> USE DEF RingInv, ringVars
<1>0. op \in [Thread -> OpType] /\ op[t].at = "pushStore" /\ UNCHANGED <<front, back, write, held>>
      /\ data' = [data EXCEPT ![op[t].pos] = op[t].val]
  BY DEF TypeOK, PushStore, At
<1>1. /\ \A u \in Thread \ {t} : op'[u] = op[u]
      /\ op' \in [Thread -> OpType]
      /\ op'[t].val = op[t].val /\ op'[t].pos = op[t].pos /\ op'[t].at = "pushPublish"
      /\ op[t].pos \in Slot /\ op[t].val \in Value
  <2>1. op[t].val \in Value
    BY <1>0 DEF OneOwner, HasValue, PushPlace
  <2>. QED
    BY <1>0, <2>1 DEF PushStore, GoTo, TypeOK, OpType, OpPlace, PushPlace
<1>2. Claiming(t) /\ op[t].pos \in SlotsFrom(back, write)
  BY <1>0 DEF Claiming, SlotsAreClaimed
<1>3. IndicesInOrder' /\ Published' = Published /\ SlotsFrom(back, write)' = SlotsFrom(back, write)
  BY <1>0 DEF IndicesInOrder, Distance, Published, SlotsFrom
<1>4. Published \subseteq Slot /\ op[t].pos \notin Published
  BY <1>2, RingFacts
<1>5. data \in [Slot -> Value \cup {NoValue}] /\ data'[op[t].pos] = op[t].val
      /\ \A i \in Slot \ {op[t].pos} : data'[i] = data[i]
  BY <1>0, <1>1 DEF TypeOK
<1>6. \A i \in Published : data'[i] = data[i]
  BY <1>4, <1>5
<1>7. TypeOK'
  BY <1>0, <1>1 DEF TypeOK
<1>8. SlotsAreClaimed'
  BY <1>0, <1>1, <1>3 DEF SlotsAreClaimed, Claiming
<1>9. NoSinglePush' /\ PopperIsAlone'
  BY <1>0, <1>1 DEF NoSinglePush, PopperIsAlone, Popping, PopPlace
<1>10. StoredIsKept'
  <2>1. ASSUME NEW u \in Thread \ {t}, op[u].at = "pushPublish"
        PROVE  op[u].pos \in Slot /\ op[u].pos # op[t].pos
    BY <2>1, <1>0, <1>2 DEF SlotsAreClaimed, Claiming, TypeOK, OpType
  <2>. QED
    BY <1>1, <1>5, <2>1 DEF StoredIsKept
<1>11. PopperKnows'
  <2>1. front # back => front \in Published
    BY RingFacts, ArcShrinks DEF Published
  <2>. QED
    BY <1>0, <1>1, <1>6, <2>1 DEF PopperKnows
<1>12. OneOwner'
  BY <1>0, <1>1, <1>3, <1>6 DEF OneOwner, HasValue, PushPlace
<1>13. ASSUME NoValueLost PROVE NoValueLost'
  BY <1>0, <1>1, <1>3, <1>6, <1>13 DEF NoValueLost, Pushing, Popped, PushPlace
<1>. QED
  BY <1>3, <1>7, <1>8, <1>9, <1>10, <1>11, <1>12, <1>13

LEMMA PushPublishStep ==
  ASSUME RingInv, NEW t \in Thread, PushPublish(t)
  PROVE  /\ RingInv' /\ (NoValueLost => NoValueLost')
         /\ Distance(front, back)' = Distance(front, back) + 1
         /\ back' = Succ(back) /\ data'[back] = op[t].val
<1> USE DEF RingInv, ringVars
<1>0. op \in [Thread -> OpType] /\ op[t].at = "pushPublish" /\ UNCHANGED <<data, front, write, held>>
      /\ op[t].pos = back /\ back' = Succ(back) /\ op' = [op EXCEPT ![t] = Idle]
  BY DEF TypeOK, PushPublish, At
<1>1. /\ \A u \in Thread \ {t} : op'[u] = op[u]
      /\ op' \in [Thread -> OpType]
      /\ op'[t].at = "idle" /\ HasValue(t) /\ data[back] = op[t].val
  BY <1>0, IdleIsTyped DEF HasValue, PushPlace, StoredIsKept
<1>2. /\ front \in Slot /\ back \in Slot /\ write \in Slot /\ Claiming(t) /\ back \in SlotsFrom(back, write)
      /\ Distance(front, write) = Distance(front, back) + Distance(back, write)
  BY <1>0, RingFacts, ArcSplits DEF IndicesInOrder, Claiming, SlotsAreClaimed
<1>3. back # write
  BY <1>2, CapacityAssumption DEF SlotsFrom, Distance, Slot
<1>4. Succ(back) # front /\ Succ(back) \in Slot
  BY <1>2, <1>3, CapacityAssumption DEF Slot, Distance, Succ
<1>5. /\ Distance(front, Succ(back)) = Distance(front, back) + 1
      /\ SlotsFrom(front, Succ(back)) = Published \cup {back} /\ back \notin Published
  BY <1>2, <1>4, ArcGrows DEF Published
<1>6. SlotsFrom(Succ(back), write) = SlotsFrom(back, write) \ {back}
  BY <1>2, <1>3, ArcShrinks
<1>7. /\ Published' = Published \cup {back} /\ SlotsFrom(back, write)' = SlotsFrom(back, write) \ {back}
      /\ Distance(front, back)' = Distance(front, Succ(back)) /\ Distance(front, write)' = Distance(front, write)
  BY <1>0, <1>5, <1>6 DEF Published, SlotsFrom, Distance
<1>8. IndicesInOrder' /\ TypeOK'
  <2>1. Distance(front, back) + 1 <= Distance(front, write)
    BY <1>2, <1>3, CapacityAssumption DEF Slot, Distance
  <2>. QED
    BY <1>0, <1>1, <1>4, <1>5, <1>7, <2>1 DEF IndicesInOrder, TypeOK
<1>9. SlotsAreClaimed'
  BY <1>0, <1>1, <1>2, <1>7 DEF SlotsAreClaimed, Claiming
<1>10. NoSinglePush' /\ StoredIsKept' /\ PopperIsAlone'
  BY <1>0, <1>1 DEF NoSinglePush, StoredIsKept, PopperIsAlone, Popping, PopPlace
<1>11. PopperKnows'
  BY <1>0, <1>1, <1>4 DEF PopperKnows
<1>12. OneOwner'
  BY <1>0, <1>1, <1>5, <1>7 DEF OneOwner, HasValue, PushPlace
<1>13. ASSUME NoValueLost PROVE NoValueLost'
  BY <1>0, <1>1, <1>7, <1>13 DEF NoValueLost, Pushing, Popped, PushPlace
<1>. QED
  BY <1>0, <1>1, <1>5, <1>7, <1>8, <1>9, <1>10, <1>11, <1>12, <1>13

\* The exchange of front_ by the only popper succeeds, as the store of SinglePop does.
LEMMA TakeStep ==
  ASSUME RingInv, NEW t \in Thread, PopClaim(t) \/ SingleTake(t)
  PROVE  /\ RingInv' /\ (NoValueLost => NoValueLost')
         /\ front # back /\ front' = Succ(front) /\ UNCHANGED <<data, back, write, held>>
         /\ Distance(front, back)' = Distance(front, back) - 1
         /\ op[t].at \in {"popClaim", "popSingleTake"} /\ op'[t].at = "popped" /\ op'[t].val = data[front]
         /\ \A u \in Thread \ {t} : op'[u] = op[u]
<1> USE DEF RingInv, ringVars
<1>0. op \in [Thread -> OpType] /\ op[t].at \in {"popClaim", "popSingleTake"} /\ UNCHANGED <<data, back, write, held>>
      /\ front # back /\ op[t].pos = front
  BY DEF TypeOK, PopClaim, SingleTake, At, PopperKnows
<1>1. front \in Slot /\ back \in Slot /\ write \in Slot /\ front \in Published /\ data[front] \in Value \ held
  BY <1>0, RingFacts, ArcShrinks DEF Published, OneOwner
<1>2. /\ \A u \in Thread \ {t} : op'[u] = op[u]
      /\ op' \in [Thread -> OpType]
      /\ front' = Succ(front) /\ op'[t].at = "popped" /\ op'[t].val = data[front]
  <2>1. CASE PopClaim(t)
    BY <1>0, <1>1, <2>1 DEF PopClaim, At, GoTo, TypeOK, OpType, OpPlace, PopPlace, PopperKnows
  <2>2. CASE SingleTake(t)
    <3> DEFINE taken == [op[t] EXCEPT !.at = "popped", !.val = data[front]]
    <3>1. taken \in OpType /\ taken.at = "popped" /\ taken.val = data[front]
      BY <1>0, <1>1 DEF OpType, OpPlace, PopPlace
    <3>2. front' = Succ(front) /\ op' = [op EXCEPT ![t] = taken]
      BY <1>0, <2>2 DEF SingleTake
    <3> HIDE DEF taken
    <3>. QED
      BY <1>0, <3>1, <3>2
  <2>. QED
    BY <2>1, <2>2
<1>3. front # write
  BY <1>0, <1>1, CapacityAssumption DEF Slot, Distance, IndicesInOrder
<1>4. /\ Succ(front) \in Slot /\ Distance(Succ(front), back) = Distance(front, back) - 1
      /\ Distance(Succ(front), write) = Distance(front, write) - 1
      /\ SlotsFrom(Succ(front), back) = Published \ {front}
  BY <1>0, <1>1, <1>3, ArcShrinks DEF Published
<1>5. /\ Published' = Published \ {front} /\ SlotsFrom(back, write)' = SlotsFrom(back, write)
      /\ Distance(front, back)' = Distance(Succ(front), back)
      /\ Distance(front, write)' = Distance(Succ(front), write)
  BY <1>0, <1>2, <1>4 DEF Published, SlotsFrom, Distance
<1>6. IndicesInOrder' /\ TypeOK'
  <2>1. Distance(front, back) \in Int /\ Distance(front, write) \in Int
    BY <1>1, CapacityAssumption DEF Slot, Distance
  <2>. QED
    BY <1>0, <1>2, <1>4, <1>5, <2>1 DEF IndicesInOrder, TypeOK
<1>7. SlotsAreClaimed'
  BY <1>0, <1>2, <1>5 DEF SlotsAreClaimed, Claiming
<1>8. NoSinglePush' /\ StoredIsKept' /\ PopperIsAlone'
  BY <1>0, <1>2 DEF NoSinglePush, StoredIsKept, PopperIsAlone, Popping, PopPlace
<1>9. PopperKnows'
  <2>1. ASSUME NEW u \in Thread, u # t
        PROVE  op'[u].at \notin {"popEmpty", "popRead", "popClaim", "popSingleTake"}
    BY <1>0, <1>2, <2>1 DEF PopperIsAlone, Popping, PopPlace
  <2>. QED
    BY <1>2, <2>1 DEF PopperKnows
<1>10. OneOwner'
  BY <1>0, <1>1, <1>2, <1>5 DEF OneOwner, HasValue, PushPlace
<1>11. ASSUME NoValueLost PROVE NoValueLost'
  <2>. SUFFICES ASSUME NEW v \in Value
                PROVE  v \in held' \/ (\E i \in Published' : data'[i] = v) \/ Pushing(v)' \cup Popped(v)' # {}
    BY DEF NoValueLost
  <2>1. CASE v = data[front]
    BY <1>2, <2>1 DEF Popped
  <2>2. CASE v # data[front]
    BY <1>0, <1>2, <1>5, <1>11, <2>2 DEF NoValueLost, Pushing, Popped, PushPlace
  <2>. QED
    BY <2>1, <2>2
<1>. QED
  BY <1>0, <1>2, <1>4, <1>5, <1>6, <1>7, <1>8, <1>9, <1>10, <1>11

-----------------------------------------------------------------------------
(* Values that take their place in the ring are no more than slots.          *)

\* A push that could claim the last slot would have a value more than there are.
LEMMA RoomForAll ==
  ASSUME RingInv, NEW V, IsFiniteSet(V), Cardinality(V) < Capacity,
         \A i \in Published : data[i] \in V,
         \A t \in Thread : op[t].at \in PushPlace => op[t].val \in V,
         NEW t \in Thread, op[t].at = "pushClaim"
  PROVE  Succ(write) # front
<1> SUFFICES ASSUME Succ(write) = front PROVE FALSE
  OBVIOUS
<1> USE DEF RingInv
<1>1. front \in Slot /\ write \in Slot /\ SlotsFrom(front, write) = Published \cup SlotsFrom(back, write)
      /\ Published \cap SlotsFrom(back, write) = {}
  BY RingFacts
<1>2. \A s \in Slot : s = write \/ s \in SlotsFrom(front, write)
  BY <1>1, CapacityAssumption DEF Slot, SlotsFrom, Distance, Succ
<1> DEFINE claims(s) == CHOOSE u \in Thread : Claiming(u) /\ op[u].pos = s
           val(s) == IF s \in Published THEN data[s]
                     ELSE IF s \in SlotsFrom(back, write) THEN op[claims(s)].val ELSE op[t].val
           f == [s \in Slot |-> val(s)]
<1>3. ASSUME NEW s \in SlotsFrom(back, write)
      PROVE  claims(s) \in Thread /\ Claiming(claims(s)) /\ op[claims(s)].pos = s
  BY DEF SlotsAreClaimed
<1>4. \A s \in Slot : val(s) \in V
  <2>1. \A u \in Thread : Claiming(u) => op[u].val \in V
    BY DEF Claiming, PushPlace
  <2>2. op[t].val \in V
    BY DEF PushPlace
  <2> HIDE DEF claims
  <2>. QED
    BY <1>3, <2>1, <2>2
<1>5. ASSUME NEW i \in Slot, NEW j \in Slot, i # j PROVE val(i) # val(j)
  <2>1. \A u \in Thread : Claiming(u) => HasValue(u) /\ u # t
    BY DEF Claiming, HasValue, PushPlace
  <2>2. HasValue(t)
    BY DEF HasValue, PushPlace
  <2>3. \A s \in Slot : s \in Published \/ s \in SlotsFrom(back, write) \/ s = write
    BY <1>1, <1>2
  <2>4. write \notin Published \cup SlotsFrom(back, write)
    BY <1>1, CapacityAssumption DEF SlotsFrom, Slot, Distance
  <2> HIDE DEF claims
  <2>5. i \in SlotsFrom(back, write) /\ j \in SlotsFrom(back, write) => op[claims(i)].val # op[claims(j)].val
    BY <1>3, <1>5, <2>1 DEF OneOwner
  <2>. QED
    BY <1>1, <1>3, <1>5, <2>1, <2>2, <2>3, <2>4, <2>5 DEF OneOwner
<1>6. IsFiniteSet(Slot) /\ Cardinality(Slot) = Capacity
  BY CapacityAssumption, FS_Interval DEF Slot
<1> HIDE DEF val
<1>7. f \in [Slot -> V] /\ \A i, j \in Slot : i # j => f[i] # f[j]
  BY <1>4, <1>5
<1> HIDE DEF f
<1>. QED
  BY <1>6, <1>7, FS_PigeonHole

-----------------------------------------------------------------------------
(* Any step of a call. *)

LEMMA StepKeeps ==
  ASSUME RingInv, NEW t \in Thread, Step(t),
         op[t].at = "pushClaim" /\ write = op[t].pos => Succ(write) # front
  PROVE  RingInv' /\ (NoValueLost => NoValueLost')
<1>1. CASE MultiplePush(t)
  <2>1. CASE PushClaim(t)
    BY <2>1, PushClaimStep DEF PushClaim, At
  <2>2. CASE PushStore(t)
    BY <2>2, PushStoreStep
  <2>3. CASE PushPublish(t)
    BY <2>3, PushPublishStep
  <2>. QED
    BY <1>1, <2>1, <2>2, <2>3, LookStep DEF MultiplePush
<1>2. CASE MultiplePop(t) \/ SinglePop(t)
  BY <1>2, LookStep, TakeStep DEF MultiplePop, SinglePop
<1>. QED
  BY <1>1, <1>2, ReturnStep DEF Step

\* A step is one of its own thread, and nobody begins to pop by it.
LEMMA StepMoves ==
  ASSUME RingInv, NEW t \in Thread, Step(t)
  PROVE  (\A u \in Thread \ {t} : op'[u] = op[u]) /\ (Popping(t)' => Popping(t))
<1>1. op \in [Thread -> OpType]
  BY DEF RingInv, TypeOK
<1>2. CASE MultiplePush(t)
  BY <1>1, <1>2, IdleIsTyped
     DEF MultiplePush, PushLoadWrite, PushCheckFull, PushClaim, PushStore, PushPublish, GoTo, Popping, PopPlace, OpType
<1>3. CASE MultiplePop(t)
  BY <1>1, <1>3, IdleIsTyped
     DEF MultiplePop, PopLoadFront, PopCheckEmpty, PopRead, PopClaim, At, GoTo, Popping, PopPlace, OpType
<1>4. CASE SinglePop(t)
  BY <1>1, <1>4, IdleIsTyped DEF SinglePop, SingleCheckEmpty, SingleTake, At, Popping, PopPlace, OpType
<1>5. CASE Return(t)
  BY <1>1, <1>5, IdleIsTyped DEF Return, Popping, PopPlace
<1>. QED
  BY <1>2, <1>3, <1>4, <1>5 DEF Step

-----------------------------------------------------------------------------
(* The invariant says what QueueInv says. *)

LEMMA ValueInOnePlace ==
  ASSUME OneOwner, NoValueLost, NEW v \in Value
  PROVE  Cardinality({i \in Published : data[i] = v}) + Cardinality(Pushing(v))
           + Cardinality(Popped(v)) + (IF v \in held THEN 1 ELSE 0) = 1
<1> DEFINE in == {i \in Published : data[i] = v}
<1>1. Cardinality({}) = 0 /\ \A x : Cardinality({x}) = 1
  BY FS_EmptySet, FS_Singleton
<1>2. \A t \in Pushing(v) \cup Popped(v) : t \in Thread /\ HasValue(t) /\ op[t].val = v
  BY DEF Pushing, Popped, HasValue
<1>3. Pushing(v) \cap Popped(v) = {}
  BY DEF Pushing, Popped, PushPlace
<1>4. CASE v \in held
  <2>1. in = {} /\ Pushing(v) = {} /\ Popped(v) = {}
    BY <1>2, <1>4 DEF OneOwner
  <2>. QED
    BY <1>1, <1>4, <2>1
<1>5. ASSUME v \notin held, NEW i \in Published, data[i] = v
      PROVE  in = {i} /\ Pushing(v) = {} /\ Popped(v) = {}
  BY <1>2, <1>5 DEF OneOwner
<1>6. ASSUME v \notin held, NEW t \in Pushing(v)
      PROVE  in = {} /\ Pushing(v) = {t} /\ Popped(v) = {}
  BY <1>2, <1>3, <1>6 DEF OneOwner
<1>7. ASSUME v \notin held, NEW t \in Popped(v)
      PROVE  in = {} /\ Pushing(v) = {} /\ Popped(v) = {t}
  BY <1>2, <1>3, <1>7 DEF OneOwner
<1> HIDE DEF in
<1>8. CASE v \notin held
  <2>1. (\E i \in Published : data[i] = v) \/ Pushing(v) # {} \/ Popped(v) # {}
    BY <1>8 DEF NoValueLost
  <2>2. ASSUME NEW i \in Published, data[i] = v
        PROVE  Cardinality(in) = 1 /\ Cardinality(Pushing(v)) = 0 /\ Cardinality(Popped(v)) = 0
    BY <1>1, <1>5, <1>8, <2>2
  <2>3. ASSUME NEW t \in Pushing(v)
        PROVE  Cardinality(in) = 0 /\ Cardinality(Pushing(v)) = 1 /\ Cardinality(Popped(v)) = 0
    BY <1>1, <1>6, <1>8
  <2>4. ASSUME NEW t \in Popped(v)
        PROVE  Cardinality(in) = 0 /\ Cardinality(Pushing(v)) = 0 /\ Cardinality(Popped(v)) = 1
    BY <1>1, <1>7, <1>8
  <2>5. Cardinality(in) + Cardinality(Pushing(v)) + Cardinality(Popped(v)) = 1
    BY <2>1, <2>2, <2>3, <2>4
  <2>6. Cardinality(in) \in Int /\ Cardinality(Pushing(v)) \in Int /\ Cardinality(Popped(v)) \in Int
    BY <2>1, <2>2, <2>3, <2>4
  <2>. QED
    BY <1>8, <2>5, <2>6 DEF in
<1>. QED
  BY <1>4, <1>8

LEMMA RingIsQueue == ASSUME RingInv, NoValueLost PROVE QueueInv
<1>1. EachValueInOnePlace
  BY ValueInOnePlace DEF EachValueInOnePlace, RingInv
<1>2. ClaimedSlotsAreOwned
  BY DEF RingInv, SlotsAreClaimed, ClaimedSlotsAreOwned
<1>. QED
  BY <1>1, <1>2 DEF RingInv, QueueInv

-----------------------------------------------------------------------------
(* The queue as its clients use it. *)

OnePopper == \A t, u \in MultiplePopper \cup SinglePopper : t = u
FewerValues == IsFiniteSet(Value) /\ Cardinality(Value) < Capacity

PoppersPop == \A t \in Thread : Popping(t) => t \in MultiplePopper \cup SinglePopper
QueueIInv == RingInv /\ NoValueLost /\ PoppersPop

LEMMA ClaimHasRoom ==
  ASSUME FewerValues, RingInv, NEW t \in Thread, op[t].at = "pushClaim"
  PROVE  Succ(write) # front
<1>1. \A i \in Published : data[i] \in Value
  BY DEF RingInv, OneOwner
<1>2. \A u \in Thread : op[u].at \in PushPlace => op[u].val \in Value
  BY DEF RingInv, OneOwner, HasValue
<1>. QED
  BY <1>1, <1>2, RoomForAll DEF FewerValues

LEMMA NextKeeps ==
  ASSUME OnePopper, FewerValues, QueueIInv, [Next]_vars
  PROVE  QueueIInv'
<1> USE DEF QueueIInv
<1>1. CASE UNCHANGED vars
  BY <1>1 DEF vars, RingInv, TypeOK, IndicesInOrder, SlotsAreClaimed, NoSinglePush, OneOwner, PopperIsAlone, PopperKnows,
     StoredIsKept, NoValueLost, PoppersPop, Popping, HasValue, Claiming, Pushing, Popped, Published, SlotsFrom, Distance
<1>2. ASSUME NEW t \in Thread, NEW v \in Value, StartPush(t, v)
      PROVE  QueueIInv'
  <2>1. RingInv' /\ NoValueLost'
    BY <1>2, StartPushStep DEF StartPush
  <2>2. PoppersPop'
    BY <1>2, CallIsTyped DEF RingInv, StartPush, PoppersPop, Popping, PopPlace
  <2>. QED
    BY <2>1, <2>2
<1>3. ASSUME NEW t \in Thread, StartPop(t)
      PROVE  QueueIInv'
  <2>1. t \in MultiplePopper \cup SinglePopper /\ op[t].at = "idle"
    BY <1>3 DEF StartPop, Call, At
  <2>2. \A u \in Thread : ~ Popping(u)
    BY <2>1 DEF OnePopper, PoppersPop, Popping, PopPlace
  <2>3. RingInv' /\ NoValueLost'
    BY <1>3, <2>2, StartPopStep
  <2>4. \A u \in Thread \ {t} : op'[u] = op[u]
    BY <1>3, CallIsTyped DEF RingInv, StartPop
  <2>5. PoppersPop'
    BY <2>1, <2>4 DEF PoppersPop, Popping
  <2>. QED
    BY <2>3, <2>5
<1>4. ASSUME NEW t \in Thread, Step(t)
      PROVE  QueueIInv'
  <2>1. RingInv' /\ NoValueLost'
    BY <1>4, StepKeeps, ClaimHasRoom
  <2>2. PoppersPop'
    BY <1>4, StepMoves DEF PoppersPop, Popping
  <2>. QED
    BY <2>1, <2>2
<1>. QED
  BY <1>1, <1>2, <1>3, <1>4 DEF Next

LEMMA QueueInvariant == ASSUME OnePopper, FewerValues PROVE Spec => []QueueIInv
<1>1. Init => QueueIInv
  BY RingInitial DEF QueueIInv, Init, PoppersPop, Popping, PopPlace, Idle
<1>. QED
  BY <1>1, NextKeeps, PTL DEF Spec

(* The ring, the calls and the clients agree, lockfree_queue.h: each value is *)
(* in one place, and each slot between back_ and write_ has one owner; with   *)
(* one popper and fewer values than slots.                                   *)
THEOREM QueueIsKept == ASSUME OnePopper, FewerValues PROVE Spec => []QueueInv
<1>1. QueueIInv => QueueInv
  BY RingIsQueue DEF QueueIInv
<1>. QED
  BY <1>1, QueueInvariant, PTL

(* Every value that was pushed is found again: what one popper and fewer      *)
(* values than slots make of a queue that otherwise loses some.               *)
THEOREM NothingIsLost == ASSUME OnePopper, FewerValues PROVE Spec => []NoValueLost
<1>1. QueueIInv => NoValueLost
  BY DEF QueueIInv
<1>. QED
  BY <1>1, QueueInvariant, PTL

-----------------------------------------------------------------------------
(* The published slots as a sequence. *)

ContentsFit ==
  /\ Distance(front, back) \in 0 .. Capacity - 1
  /\ Contents \in Seq(Value) /\ Len(Contents) = Distance(front, back)
  /\ \A i \in 1 .. Distance(front, back) :
       /\ (front + i - 1) % Capacity \in Published
       /\ Contents[i] = data[(front + i - 1) % Capacity]

LEMMA WrapsOnce ==
  ASSUME NEW i \in Slot, NEW k \in Slot
  PROVE  (i + k) % Capacity = IF i + k < Capacity THEN i + k ELSE i + k - Capacity
BY CapacityAssumption DEF Slot

LEMMA ContentsIsSeq == RingInv => ContentsFit
<1> SUFFICES ASSUME RingInv PROVE ContentsFit
  OBVIOUS
<1>1. front \in Slot /\ back \in Slot /\ Distance(front, back) \in 0 .. Capacity - 1
  BY CapacityAssumption DEF RingInv, TypeOK, Slot, Distance
<1>2. ASSUME NEW i \in 1 .. Distance(front, back)
      PROVE  (front + i - 1) % Capacity \in Published
  <2>1. (front + (i - 1)) % Capacity = IF front + (i - 1) < Capacity THEN front + (i - 1) ELSE front + (i - 1) - Capacity
    <3>1. i - 1 \in Slot
      BY <1>1, CapacityAssumption DEF Slot
    <3>. QED
      BY <1>1, <3>1, WrapsOnce
  <2>2. front + i - 1 = front + (i - 1)
    BY <1>1 DEF Slot
  <2>. QED
    BY <1>1, <2>1, <2>2, CapacityAssumption DEF Slot, Published, SlotsFrom, Distance
<1>3. \A i \in Published : data[i] \in Value
  BY DEF RingInv, OneOwner
<1>4. Contents \in [1 .. Distance(front, back) -> Value]
  BY <1>2, <1>3 DEF Contents
<1>. QED
  BY <1>1, <1>2, <1>4 DEF Contents, ContentsFit

LEMMA PublishAppends ==
  ASSUME RingInv, NEW t \in Thread, PushPublish(t)
  PROVE  Contents' = Append(Contents, op[t].val) /\ op[t].val \in Value /\ op[t].val \notin Range(Contents)
<1>1. /\ RingInv' /\ UNCHANGED <<data, front>> /\ data[back] = op[t].val /\ HasValue(t) /\ op[t].val \in Value
      /\ Distance(front, back)' = Distance(front, back) + 1
  BY PushPublishStep DEF PushPublish, At, HasValue, PushPlace, RingInv, OneOwner
<1>2. /\ Distance(front, back) \in 0 .. Capacity - 1
      /\ Contents \in Seq(Value) /\ Len(Contents) = Distance(front, back)
      /\ \A i \in 1 .. Distance(front, back) : /\ (front + i - 1) % Capacity \in Published
                                                /\ Contents[i] = data[(front + i - 1) % Capacity]
  BY ContentsIsSeq DEF ContentsFit
<1>3. /\ Contents' \in Seq(Value) /\ Len(Contents') = Distance(front, back) + 1
      /\ \A i \in 1 .. Distance(front, back) + 1 : Contents'[i] = data[(front + i - 1) % Capacity]
  <2>1. ContentsFit'
    BY <1>1, ContentsIsSeq, PTL
  <2>. QED
    BY <1>1, <2>1 DEF ContentsFit
<1>4. (front + Distance(front, back)) % Capacity = back
  <2>1. front \in Slot /\ back \in Slot
    BY DEF RingInv, TypeOK
  <2>. QED
    BY <2>1, CapacityAssumption DEF Slot, Distance
<1>5. Contents' = Append(Contents, op[t].val)
  <2>1. Append(Contents, op[t].val) \in Seq(Value) /\ Len(Append(Contents, op[t].val)) = Distance(front, back) + 1
    BY <1>1, <1>2
  <2>2. ASSUME NEW i \in 1 .. Distance(front, back) + 1
        PROVE  Contents'[i] = Append(Contents, op[t].val)[i]
    <3>1. CASE i = Distance(front, back) + 1
      BY <1>1, <1>2, <1>3, <1>4, <3>1
    <3>2. CASE i # Distance(front, back) + 1
      BY <1>1, <1>2, <1>3, <3>2
    <3>. QED
      BY <3>1, <3>2
  <2>. QED
    BY <1>2, <1>3, <2>1, <2>2, SeqEqual
<1>6. op[t].val \notin Range(Contents)
  BY <1>1, <1>2 DEF Range, RingInv, OneOwner
<1>. QED
  BY <1>1, <1>5, <1>6

LEMMA TakeIsTail ==
  ASSUME RingInv, NEW t \in Thread, PopClaim(t) \/ SingleTake(t)
  PROVE  Contents # <<>> /\ Contents' = Tail(Contents) /\ op'[t].val = Head(Contents)
<1>1. /\ RingInv' /\ UNCHANGED <<data, back>> /\ front # back /\ front' = Succ(front) /\ op'[t].val = data[front]
      /\ Distance(front, back)' = Distance(front, back) - 1
  BY TakeStep
<1>2. /\ Distance(front, back) \in 0 .. Capacity - 1
      /\ Contents \in Seq(Value) /\ Len(Contents) = Distance(front, back)
      /\ \A i \in 1 .. Distance(front, back) : Contents[i] = data[(front + i - 1) % Capacity]
  BY ContentsIsSeq DEF ContentsFit
<1>3. /\ Contents' \in Seq(Value) /\ Len(Contents') = Distance(front, back) - 1
      /\ \A i \in 1 .. Distance(front, back) - 1 : Contents'[i] = data[(Succ(front) + i - 1) % Capacity]
  <2>1. ContentsFit'
    BY <1>1, ContentsIsSeq, PTL
  <2>. QED
    BY <1>1, <2>1 DEF ContentsFit
<1>4. front \in Slot /\ back \in Slot /\ Distance(front, back) >= 1
  BY <1>1, CapacityAssumption DEF RingInv, TypeOK, Slot, Distance
<1>5. Contents # <<>> /\ Head(Contents) = data[front]
  <2>1. (front + 1 - 1) % Capacity = front
    BY <1>4, CapacityAssumption DEF Slot
  <2>. QED
    BY <1>2, <1>4, <2>1
<1>6. ASSUME NEW i \in 1 .. Distance(front, back) - 1
      PROVE  (Succ(front) + i - 1) % Capacity = (front + (i + 1) - 1) % Capacity
  <2>1. front \in Slot /\ Succ(front) \in Slot /\ i \in Slot /\ i - 1 \in Slot
    BY <1>2, <1>4, CapacityAssumption DEF Slot, Succ
  <2>2. Succ(front) + i - 1 = Succ(front) + (i - 1) /\ front + (i + 1) - 1 = front + i
    BY <2>1 DEF Slot
  <2>3. (Succ(front) + (i - 1)) % Capacity = (front + i) % Capacity
    <3>1. (Succ(front) + (i - 1)) % Capacity
            = IF Succ(front) + (i - 1) < Capacity THEN Succ(front) + (i - 1) ELSE Succ(front) + (i - 1) - Capacity
      BY <2>1, WrapsOnce
    <3>2. (front + i) % Capacity = IF front + i < Capacity THEN front + i ELSE front + i - Capacity
      BY <2>1, WrapsOnce
    <3>. QED
      BY <2>1, <3>1, <3>2, CapacityAssumption DEF Slot, Succ
  <2>. QED
    BY <2>2, <2>3
<1>7. Contents' = Tail(Contents)
  <2>1. Tail(Contents) \in Seq(Value) /\ Len(Tail(Contents)) = Distance(front, back) - 1
        /\ \A i \in 1 .. Distance(front, back) - 1 : Tail(Contents)[i] = Contents[i + 1]
    BY <1>2, <1>5
  <2>2. ASSUME NEW i \in 1 .. Distance(front, back) - 1
        PROVE  Contents'[i] = Tail(Contents)[i]
    BY <1>2, <1>3, <1>6, <2>1
  <2>. QED
    BY <1>2, <1>3, <2>1, <2>2, SeqEqual
<1>. QED
  BY <1>1, <1>5, <1>7

-----------------------------------------------------------------------------
(* The queue implements the abstract one. *)

LEMMA RefineInitial == Init => Fifo!Init
<1> SUFFICES ASSUME Init PROVE Fifo!Init
  OBVIOUS
<1>1. Distance(front, back) = 0
  BY DEF Init, Distance
<1>2. Contents = <<>>
  BY <1>1 DEF Contents
<1>3. Delivered = [t \in Thread |-> NoValue]
  BY DEF Init, Delivered, Idle
<1>. QED
  BY <1>2, <1>3 DEF Fifo!Init

\* A step that leaves the ring as it is, and takes no value from a popper.
LEMMA Stutters ==
  ASSUME NEW t \in Thread, \A u \in Thread \ {t} : op'[u] = op[u],
         op[t].at # "popped", op'[t].at # "popped",
         UNCHANGED <<front, back>>, Contents' = Contents
  PROVE  UNCHANGED Fifo!vars
<1>1. ASSUME NEW u \in Thread
      PROVE  (IF op'[u].at = "popped" THEN op'[u].val ELSE NoValue) = IF op[u].at = "popped" THEN op[u].val ELSE NoValue
  BY DEF Delivered
<1>2. Delivered' = Delivered
  BY <1>1 DEF Delivered
<1>. QED
  BY <1>2 DEF Fifo!vars

LEMMA SameContents ==
  ASSUME UNCHANGED <<front, back>>, \/ UNCHANGED data
                                    \/ RingInv /\ \A i \in Published : data'[i] = data[i]
  PROVE  Contents' = Contents
<1>1. Distance(front, back)' = Distance(front, back)
  BY DEF Distance
<1>2. CASE UNCHANGED data
  BY <1>1, <1>2 DEF Contents
<1>3. CASE RingInv /\ \A i \in Published : data'[i] = data[i]
  <2>1. \A i \in 1 .. Distance(front, back) : data'[(front + i - 1) % Capacity] = data[(front + i - 1) % Capacity]
    BY <1>3, ContentsIsSeq DEF ContentsFit
  <2>. QED
    BY <1>1, <2>1 DEF Contents
<1>. QED
  BY <1>2, <1>3

LEMMA StepRefines ==
  ASSUME RingInv, NEW t \in Thread, Step(t)
  PROVE  [Fifo!Next]_(Fifo!vars)
<1>0. op \in [Thread -> OpType] /\ \A u \in Thread \ {t} : op'[u] = op[u]
  BY StepMoves DEF RingInv, TypeOK
<1>1. CASE PushPublish(t)
  <2>1. Contents' = Append(Contents, op[t].val) /\ op[t].val \in Value /\ op[t].val \notin Range(Contents)
    BY <1>1, PublishAppends
  <2>2. op[t].at = "pushPublish" /\ op'[t].at = "idle"
    BY <1>0, <1>1, IdleIsTyped DEF PushPublish, At
  <2>3. Delivered' = Delivered
    BY <1>0, <2>2 DEF Delivered
  <2>. QED
    BY <2>1, <2>3 DEF Fifo!Next, Fifo!Push, Fifo!Range, Range
<1>2. CASE PopClaim(t) \/ SingleTake(t)
  <2>1. Contents # <<>> /\ Contents' = Tail(Contents) /\ op'[t].val = Head(Contents)
    BY <1>2, TakeIsTail
  <2>2. op[t].at # "popped" /\ op'[t].at = "popped"
    BY <1>2, TakeStep
  <2>3. Delivered[t] = NoValue /\ Delivered' = [Delivered EXCEPT ![t] = Head(Contents)]
    BY <1>0, <2>1, <2>2 DEF Delivered
  <2>. QED
    BY <2>1, <2>3 DEF Fifo!Next, Fifo!Pop
<1>3. CASE Return(t)
  <2>1. Contents' = Contents /\ op'[t].at = "idle" /\ op' = [op EXCEPT ![t] = Idle] /\ op[t].at \in {"popped", "pushFailed"}
    BY <1>0, <1>3, SameContents, IdleIsTyped DEF Return, ringVars
  <2>2. CASE op[t].at = "popped"
    <3>1. op[t].val \in Value
      BY <2>2 DEF RingInv, OneOwner, HasValue
    <3>2. Delivered[t] # NoValue /\ Delivered' = [Delivered EXCEPT ![t] = NoValue]
      BY <1>0, <2>1, <2>2, <3>1, NoValueAssumption DEF Delivered
    <3>. QED
      BY <2>1, <3>2 DEF Fifo!Next, Fifo!Use
  <2>3. CASE op[t].at = "pushFailed"
    BY <1>0, <1>3, <2>1, <2>3, Stutters DEF Return, ringVars
  <2>. QED
    BY <2>1, <2>2, <2>3
<1>4. CASE PushStore(t)
  <2>1. op[t].at = "pushStore" /\ op'[t].at = "pushPublish" /\ UNCHANGED <<front, back>>
        /\ \A i \in Slot \ {op[t].pos} : data'[i] = data[i]
    BY <1>0, <1>4 DEF PushStore, At, GoTo, RingInv, TypeOK, OpType
  <2>2. op[t].pos \notin Published
    BY <2>1, RingFacts DEF RingInv, SlotsAreClaimed, Claiming
  <2>3. Contents' = Contents
    BY <2>1, <2>2, RingFacts, SameContents
  <2>. QED
    BY <1>0, <2>1, <2>3, Stutters
<1>5. CASE PushLoadWrite(t) \/ PushCheckFull(t) \/ PushClaim(t) \/ PopLoadFront(t) \/ PopCheckEmpty(t) \/ PopRead(t)
            \/ SingleCheckEmpty(t)
  <2>1. UNCHANGED <<data, front, back>> /\ op[t].at # "popped" /\ op'[t].at # "popped"
    <3>1. CASE PushLoadWrite(t) \/ PushCheckFull(t) \/ PushClaim(t)
      <4>1. CASE PushLoadWrite(t)
        BY <1>0, <4>1 DEF PushLoadWrite, At, ringVars, OpType
      <4>2. CASE PushCheckFull(t)
        BY <1>0, <4>2 DEF PushCheckFull, At, GoTo, ringVars, OpType
      <4>3. CASE PushClaim(t)
        BY <1>0, <4>3 DEF PushClaim, At, GoTo, ringVars, OpType
      <4>. QED
        BY <3>1, <4>1, <4>2, <4>3
    <3>2. CASE PopLoadFront(t) \/ PopCheckEmpty(t) \/ PopRead(t) \/ SingleCheckEmpty(t)
      <4>1. CASE PopLoadFront(t) \/ PopRead(t)
        BY <1>0, <4>1 DEF PopLoadFront, PopRead, At, ringVars, OpType
      <4>2. CASE PopCheckEmpty(t)
        BY <1>0, <4>2, IdleIsTyped DEF PopCheckEmpty, At, GoTo, ringVars, OpType
      <4>3. CASE SingleCheckEmpty(t)
        <5>1. UNCHANGED <<data, front, back>> /\ op[t].at = "popSingle"
          BY <4>3 DEF SingleCheckEmpty, At, ringVars
        <5>2. op'[t] \in {Idle, [Idle EXCEPT !.at = "popSingleTake", !.pos = front]}
          BY <1>0, <4>3 DEF SingleCheckEmpty
        <5>3. Idle.at # "popped" /\ [Idle EXCEPT !.at = "popSingleTake", !.pos = front].at # "popped"
          BY DEF Idle
        <5>. QED
          BY <5>1, <5>2, <5>3
      <4>. QED
        BY <3>2, <4>1, <4>2, <4>3
    <3>. QED
      BY <1>5, <3>1, <3>2
  <2>. QED
    BY <1>0, <2>1, SameContents, Stutters
<1>. QED
  BY <1>1, <1>2, <1>3, <1>4, <1>5 DEF Step, MultiplePush, MultiplePop, SinglePop

LEMMA NextRefines == ASSUME QueueIInv, [Next]_vars PROVE [Fifo!Next]_(Fifo!vars)
<1>1. CASE UNCHANGED vars
  <2>1. Contents' = Contents
    BY <1>1, SameContents DEF vars
  <2>2. Delivered' = Delivered
    BY <1>1 DEF vars, Delivered
  <2>. QED
    BY <2>1, <2>2 DEF Fifo!vars
<1>2. ASSUME NEW t \in Thread, NEW place \in {"pushLoad", "popLoad", "popSingle"}, NEW v \in Value \cup {NoValue},
             Call(t, place, v)
      PROVE  UNCHANGED Fifo!vars
  <2>1. /\ op[t].at = "idle" /\ op'[t].at = place /\ UNCHANGED <<data, front, back>>
        /\ \A u \in Thread \ {t} : op'[u] = op[u]
    BY <1>2, CallIsTyped DEF QueueIInv, RingInv, ringVars
  <2>. QED
    BY <2>1, SameContents, Stutters
<1>. QED
  BY <1>1, <1>2, StepRefines DEF Next, StartPush, StartPop, QueueIInv

(* Every behaviour of the ring is one of the FIFO queue, lockfree_queue.h:    *)
(* values come out in the order in which they were published, each once, to   *)
(* one thread; with one popper and fewer values than slots.                  *)
THEOREM QueueIsFifo == ASSUME OnePopper, FewerValues PROVE Spec => ImplementsFifoQueue
<1>1. Init => Fifo!Init
  BY RefineInitial
<1>2. QueueIInv /\ [Next]_vars => [Fifo!Next]_(Fifo!vars)
  BY NextRefines
<1>. QED
  BY <1>1, <1>2, QueueInvariant, PTL DEF Spec, ImplementsFifoQueue, Fifo!Spec
=============================================================================
