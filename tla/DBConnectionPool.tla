--------------------------- MODULE DBConnectionPool ---------------------------
(***************************************************************************)
(* db/dbconnection_pool.h over LockfreeQueue: the server opens its         *)
(* connections at start-up (RedisPool::Init, MySQLPool::Init) and pushes   *)
(* each of them with ReleaseConnection; a request takes one with           *)
(* GetConnection and gives it back when its Context dies.                  *)
(*                                                                         *)
(* GetConnection pops with mutex_ held and waits on cond_ while the queue  *)
(* is empty.  ReleaseConnection pushes and notifies without mutex_.        *)
(***************************************************************************)
EXTENDS LockfreeQueue

CONSTANTS
  Main,      \* the thread that constructs Cweb, and with it the pool
  NoThread   \* nobody holds mutex_

Client == Thread \ {Main}

ASSUME MainAssumption == Main \in MultiplePusher
ASSUME NoThreadAssumption == NoThread \notin Thread
ASSUME ClientAssumption ==
  Client \subseteq MultiplePusher /\ Client \subseteq MultiplePopper

VARIABLES
  unopened,  \* the connections Init has still to open
  ready,     \* Init has returned
  dropped,   \* the connections whose push failed: ReleaseConnection forgets them
  mutex,     \* who holds mutex_
  at,        \* where each thread is in GetConnection and ReleaseConnection
  mine       \* the connection a request is using

poolVars == <<unopened, ready, dropped, mutex, at, mine>>
allVars  == <<vars, poolVars>>

ClientPlace == {"out", "locking", "popping", "waiting", "using", "pushing",
                "notifying"}

PoolTypeOK ==
  /\ TypeOK
  /\ unopened \subseteq Value
  /\ ready \in BOOLEAN
  /\ dropped \subseteq Value
  /\ mutex \in Thread \cup {NoThread}
  /\ at \in [Thread -> ClientPlace]
  /\ mine \in [Thread -> Value \cup {NoValue}]

PoolInit ==
  /\ Init
  /\ unopened = Value
  /\ ready = FALSE
  /\ dropped = {}
  /\ mutex = NoThread
  /\ at = [t \in Thread |-> "out"]
  /\ mine = [t \in Thread |-> NoValue]

Enter(t, place) == at' = [at EXCEPT ![t] = place]

-----------------------------------------------------------------------------
(* Start-up.                                                               *)

\* One more connection is opened and handed to ReleaseConnection.
OpenConnection(v) ==
  /\ ~ready
  /\ at[Main] = "out"
  /\ v \in unopened
  /\ StartPush(Main, v)
  /\ unopened' = unopened \ {v}
  /\ Enter(Main, "pushing")
  /\ UNCHANGED <<ready, dropped, mutex, mine>>

\* A connection that cannot be opened ends Init: the pool keeps what it has.
OpenFails ==
  /\ ~ready
  /\ at[Main] = "out"
  /\ unopened # {}
  /\ ready' = TRUE
  /\ UNCHANGED <<vars, unopened, dropped, mutex, at, mine>>

InitReturns ==
  /\ ~ready
  /\ at[Main] = "out"
  /\ unopened = {}
  /\ ready' = TRUE
  /\ UNCHANGED <<vars, unopened, dropped, mutex, at, mine>>

-----------------------------------------------------------------------------
(* GetConnection.                                                          *)

Get(t) ==
  /\ ready
  /\ t \in Client
  /\ at[t] = "out"
  /\ Enter(t, "locking")
  /\ UNCHANGED <<vars, unopened, ready, dropped, mutex, mine>>

\* Fault: the queue is popped without mutex_.
LockNothing(t) ==
  /\ at[t] = "locking"
  /\ StartPop(t)
  /\ Enter(t, "popping")
  /\ UNCHANGED <<unopened, ready, dropped, mutex, mine>>

Lock(t) ==
  /\ at[t] = "locking"
  /\ mutex = NoThread
  /\ mutex' = t
  /\ StartPop(t)
  /\ Enter(t, "popping")
  /\ UNCHANGED <<unopened, ready, dropped, mine>>

\* The steps of the queue's own operations.
QueueStep(t) ==
  /\ at[t] \in {"popping", "pushing"}
  /\ MultiplePop(t) \/ MultiplePush(t)
  /\ UNCHANGED poolVars

GotConnection(t) ==
  /\ at[t] = "popping"
  /\ At(t, "popped")
  /\ Return(t)
  /\ mine' = [mine EXCEPT ![t] = op[t].val]
  /\ mutex' = NoThread
  /\ Enter(t, "using")
  /\ UNCHANGED <<unopened, ready, dropped>>

\* The queue was empty: cond_.wait releases mutex_ and sleeps, in one step.
Wait(t) ==
  /\ at[t] = "popping"
  /\ At(t, "idle")
  /\ mutex' = NoThread
  /\ Enter(t, "waiting")
  /\ UNCHANGED <<vars, unopened, ready, dropped, mine>>

\* A condition variable may wake a thread that nobody notified.
SpuriousWakeup(t) ==
  /\ at[t] = "waiting"
  /\ Enter(t, "locking")
  /\ UNCHANGED <<vars, unopened, ready, dropped, mutex, mine>>

-----------------------------------------------------------------------------
(* ReleaseConnection, which ignores what the push returns.                 *)

Release(t) ==
  /\ at[t] = "using"
  /\ StartPush(t, mine[t])
  /\ mine' = [mine EXCEPT ![t] = NoValue]
  /\ Enter(t, "pushing")
  /\ UNCHANGED <<unopened, ready, dropped, mutex>>

Pushed(t) ==
  /\ at[t] = "pushing"
  /\ \/ At(t, "idle") /\ UNCHANGED <<vars, dropped>>
     \/ At(t, "pushFailed") /\ Return(t) /\ dropped' = dropped \cup {op[t].val}
  /\ Enter(t, "notifying")
  /\ UNCHANGED <<unopened, ready, mutex, mine>>

\* Fault: nobody is notified.
NotifyNobody(t) ==
  /\ at[t] = "notifying"
  /\ Enter(t, "out")
  /\ UNCHANGED <<vars, unopened, ready, dropped, mutex, mine>>

NotifyAll(t) ==
  /\ at[t] = "notifying"
  /\ at' = [u \in Thread |-> IF u = t THEN "out"
                             ELSE IF at[u] = "waiting" THEN "locking"
                             ELSE at[u]]
  /\ UNCHANGED <<vars, unopened, ready, dropped, mutex, mine>>

-----------------------------------------------------------------------------
\* What a thread does once it is inside one of the two calls, or done with
\* the connection it has.
Proceed(t) ==
  Lock(t) \/ QueueStep(t) \/ GotConnection(t) \/ Wait(t) \/ Release(t)
    \/ Pushed(t) \/ NotifyAll(t)

StartUp == (\E v \in Value : OpenConnection(v)) \/ OpenFails \/ InitReturns

PoolNext ==
  \/ StartUp
  \/ \E t \in Thread : Get(t) \/ Proceed(t) \/ SpuriousWakeup(t)

\* Threads are scheduled, requests end, and further requests keep coming.
PoolFairness ==
  /\ WF_allVars(StartUp)
  /\ \A t \in Thread : WF_allVars(Proceed(t)) /\ WF_allVars(Get(t))

PoolSpec     == PoolInit /\ [][PoolNext]_allVars
PoolFairSpec == PoolSpec /\ PoolFairness

-----------------------------------------------------------------------------
(* Properties.                                                             *)

\* A connection serves one request at a time, and none that the pool could
\* hand out: the mutex keeps the poppers apart, and there are fewer
\* connections in the pool than slots.
ConnectionExclusive ==
  \A t \in Thread : mine[t] # NoValue =>
    /\ \A u \in Thread \ {t} : mine[u] # mine[t]
    /\ \A i \in Published : data[i] # mine[t]
    /\ Pushing(mine[t]) \cup Popped(mine[t]) = {}

\* The pool's mutex, its sleepers and its connections stay consistent, and each
\* connection has one user.
PoolInv == PoolTypeOK /\ ConnectionExclusive

Pooled == Value \ (unopened \cup dropped)

\* A request that sleeps for a connection looks again, as long as the pool has
\* any connection and requests keep coming.  A notify that falls between the
\* failed pop and the wait is lost, so only a later release may wake it.
SleeperLooksAgain ==
  \A t \in Client :
    (at[t] = "waiting" /\ Pooled # {}) ~> (at[t] # "waiting")

=============================================================================
