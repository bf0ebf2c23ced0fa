------------------------ MODULE DBConnectionPool_proofs ------------------------
(***************************************************************************)
(* A connection has one user, for any number of requests, connections and  *)
(* slots: dbconnection_pool.h over the steps of the lock-free queue.        *)
(*                                                                         *)
(* The pool gives the queue the two things it needs (LockfreeQueue_proofs): *)
(* the mutex keeps all but one thread from popping, and once start-up is    *)
(* over there are fewer connections in the pool than slots, because those   *)
(* that were one too many were dropped.                                    *)
(***************************************************************************)
EXTENDS DBConnectionPool, LockfreeQueue_proofs

PoolTyped ==
  /\ unopened \subseteq Value /\ ready \in BOOLEAN /\ dropped \subseteq Value
  /\ mutex \in Thread \cup {NoThread}
  /\ at \in [Thread -> ClientPlace]
  /\ mine \in [Thread -> Value \cup {NoValue}]

\* Where a thread is in the pool fits where it is in the queue.
PlacesFit ==
  \A t \in Thread :
    /\ at[t] = "popping" => mutex = t /\ op[t].at \in PopPlace \cup {"idle"}
    /\ at[t] = "pushing" => op[t].at \in PushPlace \cup {"idle"}
    /\ at[t] \notin {"popping", "pushing"} => op[t].at = "idle"
    /\ at[t] = "using" <=> mine[t] # NoValue

\* Requests come when start-up is over.
StartUpIsFirst ==
  IF ready THEN at[Main] = "out"
  ELSE at[Main] \in {"out", "pushing", "notifying"} /\ \A t \in Client : at[t] = "out"

\* What is neither in the queue nor in a call is not opened yet, dropped, or
\* used by one request.
HeldIsKnown ==
  /\ unopened \subseteq held /\ dropped \subseteq held /\ unopened \cap dropped = {}
  /\ \A v \in held : v \in unopened \cup dropped \/ \E t \in Thread : mine[t] = v
  /\ \A t \in Thread : mine[t] # NoValue => mine[t] \in held \ (unopened \cup dropped)
  /\ \A t, u \in Thread : t # u /\ mine[t] # NoValue => mine[u] # mine[t]

\* The connections that go round have room, and start-up looks for it.
FitsIn(V) == IsFiniteSet(V) /\ Cardinality(V) < Capacity
PoolHasRoom ==
  IF ready THEN FitsIn(Pooled) ELSE op[Main].at = "pushClaim" => Succ(op[Main].pos) # front

PoolParts == PoolTyped /\ PlacesFit /\ StartUpIsFirst /\ HeldIsKnown /\ PoolHasRoom
PoolIInv == RingInv /\ NoValueLost /\ PoolParts

-----------------------------------------------------------------------------
LEMMA PoolInitial == PoolInit => PoolIInv
<1> SUFFICES ASSUME PoolInit PROVE PoolIInv
  OBVIOUS
<1>1. RingInv /\ NoValueLost
  BY RingInitial DEF PoolInit
<1>2. Main \in Thread /\ \A t \in Thread : op[t].at = "idle"
  BY MainAssumption, ThreadAssumption DEF PoolInit, Init, Idle
<1>3. PoolTyped /\ PlacesFit
  BY <1>2 DEF PoolInit, PoolTyped, PlacesFit, ClientPlace
<1>4. StartUpIsFirst /\ HeldIsKnown /\ PoolHasRoom
  BY <1>2 DEF PoolInit, Init, StartUpIsFirst, HeldIsKnown, PoolHasRoom, Client
<1>. QED
  BY <1>1, <1>3, <1>4 DEF PoolIInv, PoolParts

\* Nobody begins to pop while another thread does.
LEMMA NobodyPops ==
  ASSUME PoolIInv, mutex = NoThread, NEW u \in Thread
  PROVE  ~ Popping(u)
BY NoThreadAssumption DEF PoolIInv, PoolParts, PlacesFit, Popping, PushPlace, PopPlace

LEMMA PooledTakesSlots ==
  ASSUME PoolIInv
  PROVE  /\ \A i \in Published : data[i] \in Pooled
         /\ \A t \in Thread : op[t].at \in PushPlace => op[t].val \in Pooled
BY DEF PoolIInv, PoolParts, HeldIsKnown, RingInv, OneOwner, HasValue, Pooled

LEMMA PushHasRoom ==
  ASSUME PoolIInv, NEW t \in Thread, op[t].at = "pushClaim", write = op[t].pos
  PROVE  Succ(write) # front
<1>1. CASE ready
  <2>1. IsFiniteSet(Pooled) /\ Cardinality(Pooled) < Capacity /\ RingInv
    BY <1>1 DEF PoolIInv, PoolParts, PoolHasRoom, FitsIn
  <2>. QED
    BY <2>1, PooledTakesSlots, RoomForAll
<1>2. CASE ~ ready
  <2>1. t = Main
    BY <1>2 DEF PoolIInv, PoolParts, StartUpIsFirst, PlacesFit, Client
  <2>. QED
    BY <1>2, <2>1 DEF PoolIInv, PoolParts, PoolHasRoom
<1>. QED
  BY <1>1, <1>2

-----------------------------------------------------------------------------
(* Start-up. *)

LEMMA OpenStep == ASSUME PoolIInv, NEW v \in Value, OpenConnection(v) PROVE PoolIInv'
<1> USE DEF PoolIInv, PoolParts
<1>0. Main \in Thread
  BY MainAssumption, ThreadAssumption
<1>1. /\ ~ ready /\ at[Main] = "out" /\ v \in unopened /\ v \in held /\ held' = held \ {v} /\ unopened' = unopened \ {v}
      /\ at' = [at EXCEPT ![Main] = "pushing"] /\ UNCHANGED <<ready, dropped, mutex, mine>>
      /\ Call(Main, "pushLoad", v)
  BY DEF OpenConnection, StartPush, Enter
<1>2. RingInv' /\ NoValueLost'
  BY <1>0, <1>1, StartPushStep
<1>3. UNCHANGED ringVars /\ op'[Main].at = "pushLoad" /\ \A u \in Thread \ {Main} : op'[u] = op[u]
  BY <1>0, <1>1, CallIsTyped DEF RingInv
<1>4. PoolTyped'
  BY <1>1 DEF PoolTyped, ClientPlace
<1>5. PlacesFit'
  BY <1>0, <1>1, <1>3 DEF PlacesFit, PoolTyped, PushPlace
<1>6. StartUpIsFirst'
  BY <1>0, <1>1 DEF StartUpIsFirst, PoolTyped, Client
<1>7. HeldIsKnown'
  <2>1. \A t \in Thread : mine[t] # v
    BY <1>1, NoValueAssumption DEF HeldIsKnown, PoolTyped
  <2>2. v \notin dropped
    BY <1>1 DEF HeldIsKnown
  <2>. QED
    BY <1>1, <2>1, <2>2 DEF HeldIsKnown
<1>8. PoolHasRoom'
  BY <1>1, <1>3 DEF PoolHasRoom
<1>. QED
  BY <1>2, <1>4, <1>5, <1>6, <1>7, <1>8

\* While the queue and what the pool keeps of it do not move.
LEMMA QueueAtRest == ASSUME RingInv, NoValueLost, UNCHANGED vars PROVE RingInv' /\ NoValueLost'
BY DEF vars, RingInv, TypeOK, IndicesInOrder, SlotsAreClaimed, NoSinglePush, OneOwner, PopperIsAlone, PopperKnows,
   StoredIsKept, NoValueLost, Popping, HasValue, Claiming, Pushing, Popped, Published, SlotsFrom, Distance

\* When start-up ends, what has been pushed lies in the ring: one slot is always free.
LEMMA RingHoldsFewer == ASSUME RingInv PROVE IsFiniteSet(Published) /\ Cardinality(Published) < Capacity
<1>1. back \in Slot /\ Published \subseteq Slot \ {back}
  BY RingFacts, CapacityAssumption DEF Published, SlotsFrom, Distance, Slot
<1>2. IsFiniteSet(Slot) /\ Cardinality(Slot) = Capacity
  BY CapacityAssumption, FS_Interval DEF Slot
<1>3. IsFiniteSet(Slot \ {back}) /\ Cardinality(Slot \ {back}) = Capacity - 1
  BY <1>1, <1>2, FS_RemoveElement
<1>4. IsFiniteSet(Published) /\ Cardinality(Published) <= Capacity - 1
  BY <1>1, <1>3, FS_Subset
<1>5. Cardinality(Published) \in Nat
  BY <1>4, FS_CardinalityType
<1>. QED
  BY <1>4, <1>5, CapacityAssumption

LEMMA PoolFits ==
  ASSUME PoolIInv, ~ ready, at[Main] = "out"
  PROVE  FitsIn(Pooled)
<1> USE DEF PoolIInv, PoolParts
<1>1. \A t \in Thread : op[t].at = "idle" /\ mine[t] = NoValue
  BY DEF StartUpIsFirst, PlacesFit, Client
<1>2. ASSUME NEW v \in Pooled PROVE \E i \in Published : data[i] = v
  <2>1. v \in Value /\ v # NoValue /\ v \notin unopened \cup dropped
    BY NoValueAssumption DEF Pooled
  <2>2. Pushing(v) \cup Popped(v) = {}
    BY <1>1 DEF Pushing, Popped, PushPlace
  <2>3. v \notin held
    BY <1>1, <2>1 DEF HeldIsKnown
  <2>. QED
    BY <2>1, <2>2, <2>3 DEF NoValueLost
<1>3. IsFiniteSet(Published) /\ Cardinality(Published) < Capacity /\ Cardinality(Published) \in Nat
  BY RingHoldsFewer, FS_CardinalityType
<1> DEFINE In == {i \in Published : data[i] \in Pooled}
           f == [i \in In |-> data[i]]
<1>4. IsFiniteSet(In) /\ Cardinality(In) <= Cardinality(Published)
  BY <1>3, FS_Subset
<1>5. f \in Surjection(In, Pooled)
  BY <1>2 DEF Surjection
<1>6. IsFiniteSet(Pooled) /\ Cardinality(Pooled) <= Cardinality(In)
  BY <1>4, <1>5, FS_Surjection
<1>7. Cardinality(In) \in Nat /\ Cardinality(Pooled) \in Nat
  BY <1>4, <1>6, FS_CardinalityType
<1>. QED
  BY <1>3, <1>4, <1>6, <1>7, CapacityAssumption DEF FitsIn

LEMMA StartUpEnds == ASSUME PoolIInv, OpenFails \/ InitReturns PROVE PoolIInv'
<1> USE DEF PoolIInv, PoolParts
<1>1. ~ ready /\ at[Main] = "out" /\ ready' = TRUE /\ UNCHANGED <<vars, unopened, dropped, mutex, at, mine>>
  BY DEF OpenFails, InitReturns
<1>2. RingInv' /\ NoValueLost'
  BY <1>1, QueueAtRest
<1>3. PoolTyped' /\ PlacesFit' /\ StartUpIsFirst' /\ HeldIsKnown'
  BY <1>1 DEF vars, PoolTyped, PlacesFit, StartUpIsFirst, HeldIsKnown
<1>4. PoolHasRoom'
  BY <1>1, PoolFits DEF PoolHasRoom, FitsIn, Pooled
<1>. QED
  BY <1>2, <1>3, <1>4

-----------------------------------------------------------------------------
(* GetConnection and ReleaseConnection. *)

\* Steps of a request that leave the queue and the mutex alone.
LEMMA PlaceStep ==
  ASSUME PoolIInv, NEW t \in Thread, Get(t) \/ SpuriousWakeup(t) \/ NotifyAll(t)
  PROVE  PoolIInv'
<1> USE DEF PoolIInv, PoolParts
<1>1. /\ UNCHANGED <<vars, unopened, ready, dropped, mutex, mine>>
      /\ at' \in [Thread -> ClientPlace]
      /\ \A u \in Thread : \/ at'[u] = at[u]
                           \/ at[u] \in {"out", "waiting"} /\ at'[u] = "locking" /\ ready
                           \/ at[u] = "notifying" /\ at'[u] = "out"
      /\ ready => at'[Main] = "out"
  <2>0. at \in [Thread -> ClientPlace] /\ Main \in Thread
    BY MainAssumption, ThreadAssumption DEF PoolTyped
  <2>1. CASE Get(t)
    BY <2>0, <2>1 DEF Get, Enter, ClientPlace, StartUpIsFirst, Client
  <2>2. CASE SpuriousWakeup(t)
    BY <2>0, <2>2 DEF SpuriousWakeup, Enter, ClientPlace, StartUpIsFirst, Client
  <2>3. CASE NotifyAll(t)
    BY <2>0, <2>3 DEF NotifyAll, ClientPlace, StartUpIsFirst, Client
  <2>. QED
    BY <2>1, <2>2, <2>3
<1>2. RingInv' /\ NoValueLost'
  BY <1>1, QueueAtRest
<1>3. PoolTyped' /\ PlacesFit'
  BY <1>1 DEF vars, PoolTyped, PlacesFit
<1>4. StartUpIsFirst'
  BY <1>1, MainAssumption, ThreadAssumption DEF StartUpIsFirst, Client
<1>5. HeldIsKnown' /\ PoolHasRoom'
  BY <1>1 DEF vars, HeldIsKnown, PoolHasRoom, Pooled, FitsIn
<1>. QED
  BY <1>2, <1>3, <1>4, <1>5

LEMMA LockStep == ASSUME PoolIInv, NEW t \in Thread, Lock(t) PROVE PoolIInv'
<1> USE DEF PoolIInv, PoolParts
<1>1. /\ at[t] = "locking" /\ mutex = NoThread /\ mutex' = t /\ StartPop(t) /\ at' = [at EXCEPT ![t] = "popping"]
      /\ UNCHANGED <<unopened, ready, dropped, mine, held>>
  BY DEF Lock, Enter, StartPop
<1>2. RingInv' /\ NoValueLost'
  BY <1>1, NobodyPops, StartPopStep
<1>3. UNCHANGED ringVars /\ op'[t].at \in {"popLoad", "popSingle"} /\ \A u \in Thread \ {t} : op'[u] = op[u]
  BY <1>1, CallIsTyped DEF RingInv, StartPop
<1>4. PoolTyped'
  BY <1>1 DEF PoolTyped, ClientPlace
<1>5. PlacesFit'
  BY <1>1, <1>3, NoThreadAssumption DEF PlacesFit, PoolTyped, PopPlace
<1>6. ready /\ StartUpIsFirst' /\ HeldIsKnown' /\ PoolHasRoom'
  BY <1>1, <1>3 DEF StartUpIsFirst, HeldIsKnown, PoolHasRoom, PoolTyped, Client, Pooled, FitsIn
<1>. QED
  BY <1>2, <1>4, <1>5, <1>6

LEMMA PushMoves ==
  ASSUME RingInv, NEW t \in Thread, MultiplePush(t)
  PROVE  /\ op[t].at \in PushPlace /\ op'[t].at \in PushPlace \cup {"idle"} /\ UNCHANGED <<front, held>>
         /\ op'[t].at = "pushClaim" => Succ(op'[t].pos) # front
<1>1. op \in [Thread -> OpType]
  BY DEF RingInv, TypeOK
<1>. QED
  BY <1>1, IdleIsTyped DEF MultiplePush, PushLoadWrite, PushCheckFull, PushClaim, PushStore, PushPublish, At, GoTo,
     PushPlace, OpType, ringVars

LEMMA PopMoves ==
  ASSUME RingInv, NEW t \in Thread, MultiplePop(t)
  PROVE  op[t].at \in PopPlace /\ op'[t].at \in PopPlace \cup {"idle"} /\ UNCHANGED held
<1>1. op \in [Thread -> OpType]
  BY DEF RingInv, TypeOK
<1>. QED
  BY <1>1, IdleIsTyped DEF MultiplePop, PopLoadFront, PopCheckEmpty, PopRead, PopClaim, At, GoTo, PopPlace, OpType

LEMMA QueueMoves == ASSUME PoolIInv, NEW t \in Thread, QueueStep(t) PROVE PoolIInv'
<1> USE DEF PoolIInv, PoolParts
<1>1. /\ at[t] \in {"popping", "pushing"} /\ Step(t)
      /\ UNCHANGED <<unopened, ready, dropped, mutex, at, mine>>
  BY DEF QueueStep, poolVars, Step
<1>2. RingInv' /\ NoValueLost'
  BY <1>1, StepKeeps, PushHasRoom
<1>3. \A u \in Thread \ {t} : op'[u] = op[u]
  BY <1>1, StepMoves
<1>4. UNCHANGED held /\ \/ at[t] = "popping" /\ op'[t].at \in PopPlace \cup {"idle"}
                        \/ /\ at[t] = "pushing" /\ op'[t].at \in PushPlace \cup {"idle"}
                           /\ UNCHANGED front /\ (op'[t].at = "pushClaim" => Succ(op'[t].pos) # front)
  BY PushMoves, PopMoves DEF QueueStep, PlacesFit, PushPlace, PopPlace
<1>5. PoolTyped' /\ StartUpIsFirst' /\ HeldIsKnown'
  BY <1>1, <1>4 DEF PoolTyped, StartUpIsFirst, HeldIsKnown
<1>6. PlacesFit'
  BY <1>1, <1>3, <1>4 DEF PlacesFit
<1>7. PoolHasRoom'
  <2>1. ~ ready => t = Main /\ at[t] = "pushing"
    BY <1>1 DEF StartUpIsFirst, Client
  <2>2. CASE ready
    BY <1>1, <2>2 DEF PoolHasRoom, Pooled, FitsIn
  <2>3. CASE ~ ready
    BY <1>1, <1>4, <2>1, <2>3 DEF PoolHasRoom, Succ
  <2>. QED
    BY <2>2, <2>3
<1>. QED
  BY <1>2, <1>5, <1>6, <1>7

LEMMA GotStep == ASSUME PoolIInv, NEW t \in Thread, GotConnection(t) PROVE PoolIInv'
<1> USE DEF PoolIInv, PoolParts
<1>1. /\ at[t] = "popping" /\ op[t].at = "popped" /\ Return(t) /\ mine' = [mine EXCEPT ![t] = op[t].val]
      /\ mutex' = NoThread /\ at' = [at EXCEPT ![t] = "using"] /\ UNCHANGED <<unopened, ready, dropped>>
  BY DEF GotConnection, At, Enter
<1>2. RingInv' /\ NoValueLost'
  BY <1>1, ReturnStep
<1>3. /\ op'[t].at = "idle" /\ \A u \in Thread \ {t} : op'[u] = op[u]
      /\ held' = held \cup {op[t].val} /\ op[t].val \in Value \ held
  BY <1>1, IdleIsTyped DEF Return, RingInv, TypeOK, OneOwner, HasValue
<1>4. PoolTyped'
  BY <1>1, <1>3 DEF PoolTyped, ClientPlace
<1>5. PlacesFit'
  <2>1. mutex = t
    BY <1>1 DEF PlacesFit
  <2>. QED
    BY <1>1, <1>3, <2>1, NoValueAssumption DEF PlacesFit, PoolTyped
<1>6. StartUpIsFirst' /\ PoolHasRoom'
  BY <1>1, <1>3 DEF StartUpIsFirst, PoolHasRoom, PoolTyped, Client, Pooled, FitsIn
<1>7. HeldIsKnown'
  <2>1. mine \in [Thread -> Value \cup {NoValue}] /\ op[t].val # NoValue /\ mine[t] = NoValue
    BY <1>1, <1>3, NoValueAssumption DEF PoolTyped, PlacesFit
  <2>2. \A u \in Thread : mine[u] # op[t].val
    BY <1>3, <2>1 DEF HeldIsKnown
  <2>3. \A u \in Thread : mine'[u] = IF u = t THEN op[t].val ELSE mine[u]
    BY <1>1, <2>1
  <2>4. \A v \in held' : v \in unopened \cup dropped \/ \E u \in Thread : mine'[u] = v
    <3>. SUFFICES ASSUME NEW v \in held', v \notin unopened \cup dropped PROVE \E u \in Thread : mine'[u] = v
      OBVIOUS
    <3>1. CASE v = op[t].val
      BY <2>3, <3>1
    <3>2. CASE v # op[t].val
      <4>1. PICK u \in Thread : mine[u] = v
        BY <1>3, <3>2 DEF HeldIsKnown
      <4>2. v # NoValue
        BY <1>3, <3>2, NoValueAssumption DEF RingInv, TypeOK
      <4>. QED
        BY <2>1, <2>3, <4>1, <4>2
    <3>. QED
      BY <3>1, <3>2
  <2>5. \A u \in Thread : mine'[u] # NoValue => mine'[u] \in held' \ (unopened \cup dropped)
    BY <1>3, <2>1, <2>3 DEF HeldIsKnown
  <2>6. \A u, w \in Thread : u # w /\ mine'[u] # NoValue => mine'[w] # mine'[u]
    BY <2>1, <2>2, <2>3 DEF HeldIsKnown
  <2>. QED
    BY <1>1, <1>3, <2>4, <2>5, <2>6 DEF HeldIsKnown
<1>. QED
  BY <1>2, <1>4, <1>5, <1>6, <1>7

LEMMA WaitStep == ASSUME PoolIInv, NEW t \in Thread, Wait(t) PROVE PoolIInv'
<1> USE DEF PoolIInv, PoolParts
<1>1. /\ at[t] = "popping" /\ op[t].at = "idle" /\ mutex' = NoThread /\ at' = [at EXCEPT ![t] = "waiting"]
      /\ UNCHANGED <<vars, unopened, ready, dropped, mine>>
  BY DEF Wait, At, Enter
<1>2. RingInv' /\ NoValueLost'
  BY <1>1, QueueAtRest
<1>3. PoolTyped'
  BY <1>1 DEF PoolTyped, ClientPlace
<1>4. PlacesFit'
  <2>1. mutex = t
    BY <1>1 DEF PlacesFit
  <2>. QED
    BY <1>1, <2>1 DEF vars, PlacesFit, PoolTyped
<1>5. StartUpIsFirst' /\ HeldIsKnown' /\ PoolHasRoom'
  BY <1>1 DEF vars, StartUpIsFirst, HeldIsKnown, PoolHasRoom, PoolTyped, Client, Pooled, FitsIn
<1>. QED
  BY <1>2, <1>3, <1>4, <1>5

LEMMA ReleaseStep == ASSUME PoolIInv, NEW t \in Thread, Release(t) PROVE PoolIInv'
<1> USE DEF PoolIInv, PoolParts
<1>1. /\ at[t] = "using" /\ mine[t] \in held /\ held' = held \ {mine[t]} /\ Call(t, "pushLoad", mine[t])
      /\ mine' = [mine EXCEPT ![t] = NoValue] /\ at' = [at EXCEPT ![t] = "pushing"]
      /\ UNCHANGED <<unopened, ready, dropped, mutex>>
  BY DEF Release, StartPush, Enter
<1>2. mine[t] \in Value /\ mine[t] \notin unopened \cup dropped
  BY <1>1 DEF PoolTyped, PlacesFit, HeldIsKnown
<1>3. RingInv' /\ NoValueLost'
  BY <1>1, <1>2, StartPushStep
<1>4. UNCHANGED ringVars /\ op'[t].at = "pushLoad" /\ \A u \in Thread \ {t} : op'[u] = op[u]
  BY <1>1, <1>2, CallIsTyped DEF RingInv
<1>5. PoolTyped'
  BY <1>1 DEF PoolTyped, ClientPlace
<1>6. PlacesFit'
  BY <1>1, <1>4 DEF PlacesFit, PoolTyped, PushPlace
<1>7. ready /\ StartUpIsFirst' /\ PoolHasRoom'
  BY <1>1 DEF StartUpIsFirst, PoolHasRoom, PoolTyped, Client, Pooled, FitsIn
<1>8. HeldIsKnown'
  <2>1. \A u \in Thread : mine'[u] = IF u = t THEN NoValue ELSE mine[u]
    BY <1>1 DEF PoolTyped
  <2>. QED
    BY <1>1, <1>2, <2>1 DEF HeldIsKnown
<1>. QED
  BY <1>3, <1>5, <1>6, <1>7, <1>8

LEMMA PushedStep == ASSUME PoolIInv, NEW t \in Thread, Pushed(t) PROVE PoolIInv'
<1> USE DEF PoolIInv, PoolParts
<1>1. /\ at[t] = "pushing" /\ at' = [at EXCEPT ![t] = "notifying"] /\ UNCHANGED <<unopened, ready, mutex, mine>>
      /\ \/ op[t].at = "idle" /\ UNCHANGED <<vars, dropped>>
         \/ op[t].at = "pushFailed" /\ Return(t) /\ dropped' = dropped \cup {op[t].val}
  BY DEF Pushed, At, Enter
<1>2. RingInv' /\ NoValueLost'
  BY <1>1, QueueAtRest, ReturnStep
<1>3. /\ op'[t].at = "idle" /\ \A u \in Thread \ {t} : op'[u] = op[u]
      /\ \/ UNCHANGED <<held, dropped>>
         \/ held' = held \cup {op[t].val} /\ dropped' = dropped \cup {op[t].val} /\ op[t].val \in Value \ held
  <2>1. CASE op[t].at = "idle"
    BY <1>1, <2>1 DEF vars
  <2>2. CASE op[t].at = "pushFailed"
    BY <1>1, <2>2, IdleIsTyped DEF Return, RingInv, TypeOK, OneOwner, HasValue, PushPlace
  <2>. QED
    BY <1>1, <2>1, <2>2
<1>4. PoolTyped'
  BY <1>1, <1>3 DEF PoolTyped, ClientPlace
<1>5. PlacesFit'
  BY <1>1, <1>3 DEF PlacesFit, PoolTyped
<1>6. StartUpIsFirst'
  BY <1>1 DEF StartUpIsFirst, PoolTyped, Client
<1>7. HeldIsKnown'
  BY <1>1, <1>3 DEF HeldIsKnown
<1>8. PoolHasRoom'
  <2>1. CASE ready
    <3>1. Pooled' \subseteq Pooled
      BY <1>1, <1>3 DEF Pooled
    <3>2. IsFiniteSet(Pooled) /\ Cardinality(Pooled) < Capacity
      BY <2>1 DEF PoolHasRoom, FitsIn
    <3>3. IsFiniteSet(Pooled') /\ Cardinality(Pooled') <= Cardinality(Pooled)
      BY <3>1, <3>2, FS_Subset
    <3>4. Cardinality(Pooled) \in Nat /\ Cardinality(Pooled') \in Nat
      BY <3>2, <3>3, FS_CardinalityType
    <3>5. IsFiniteSet(Pooled') /\ Cardinality(Pooled') < Capacity
      BY <3>2, <3>3, <3>4, CapacityAssumption
    <3>. QED
      BY <1>1, <2>1, <3>5 DEF PoolHasRoom, FitsIn
  <2>2. CASE ~ ready
    <3>1. t = Main
      BY <1>1, <2>2 DEF StartUpIsFirst, Client
    <3>. QED
      BY <1>1, <1>3, <2>2, <3>1 DEF PoolHasRoom
  <2>. QED
    BY <2>1, <2>2
<1>. QED
  BY <1>2, <1>4, <1>5, <1>6, <1>7, <1>8

-----------------------------------------------------------------------------
(* Every step of the pool. *)

LEMMA PoolNextKeeps == ASSUME PoolIInv, [PoolNext]_allVars PROVE PoolIInv'
<1>1. CASE UNCHANGED allVars
  <2>1. RingInv' /\ NoValueLost'
    BY <1>1, QueueAtRest DEF allVars, PoolIInv
  <2>2. PoolParts'
    BY <1>1 DEF allVars, vars, poolVars, PoolIInv, PoolParts, PoolTyped, PlacesFit, StartUpIsFirst, HeldIsKnown,
       PoolHasRoom, Pooled, FitsIn
  <2>. QED
    BY <2>1, <2>2 DEF PoolIInv
<1>2. CASE StartUp
  BY <1>2, OpenStep, StartUpEnds DEF StartUp
<1>3. ASSUME NEW t \in Thread, Get(t) \/ Proceed(t) \/ SpuriousWakeup(t)
      PROVE  PoolIInv'
  BY <1>3, PlaceStep, LockStep, QueueMoves, GotStep, WaitStep, ReleaseStep, PushedStep DEF Proceed
<1>. QED
  BY <1>1, <1>2, <1>3 DEF PoolNext

LEMMA PoolInvHolds == ASSUME PoolIInv PROVE PoolInv
<1> USE DEF PoolIInv, PoolParts
<1>1. PoolTypeOK
  BY DEF RingInv, PoolTyped, PoolTypeOK
<1>2. ConnectionExclusive
  <2> SUFFICES ASSUME NEW t \in Thread, mine[t] # NoValue
               PROVE  /\ \A u \in Thread \ {t} : mine[u] # mine[t]
                      /\ \A i \in Published : data[i] # mine[t]
                      /\ Pushing(mine[t]) \cup Popped(mine[t]) = {}
    BY DEF ConnectionExclusive
  <2>1. mine[t] \in held /\ \A u \in Thread \ {t} : mine[u] # mine[t]
    BY DEF HeldIsKnown
  <2>2. \A i \in Published : data[i] # mine[t]
    BY <2>1 DEF RingInv, OneOwner
  <2>3. \A u \in Thread : HasValue(u) => op[u].val # mine[t]
    BY <2>1 DEF RingInv, OneOwner
  <2>. QED
    BY <2>1, <2>2, <2>3 DEF Pushing, Popped, HasValue
<1>. QED
  BY <1>1, <1>2 DEF PoolInv

(* A connection serves one request at a time and is then nowhere the pool    *)
(* could hand it out from, dbconnection_pool.h:25-47: for any number of      *)
(* requests and connections, whatever of them start-up could open or push.   *)
THEOREM ConnectionHasOneUser == PoolSpec => []PoolInv
<1>1. PoolInit => PoolIInv
  BY PoolInitial
<1>2. PoolIInv /\ [PoolNext]_allVars => PoolIInv'
  BY PoolNextKeeps
<1>3. PoolIInv => PoolInv
  BY PoolInvHolds
<1>. QED
  BY <1>1, <1>2, <1>3, PTL DEF PoolSpec
=============================================================================
