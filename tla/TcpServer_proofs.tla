--------------------------- MODULE TcpServer_proofs ---------------------------
(***************************************************************************)
(* Every connection of the thread version is kept as long as it is         *)
(* connected and ends once, for any number of connections, workers and     *)
(* requests.                                                               *)
(*                                                                         *)
(* The invariant follows a connection through its life: who refers to it,  *)
(* and which callback its worker is in, in each state.  That a connection  *)
(* has one worker, and a worker is in one callback, is what makes the      *)
(* callbacks of a connection follow each other.                            *)
(***************************************************************************)
EXTENDS TcpServer, SequenceTheorems, TLAPS

\* A worker that is in a callback is in one of its own connections.
OwnConnection ==
  \A w \in Worker :
    \/ at[w] = Idle
    \/ at[w].conn \in Conn /\ worker[at[w].conn] = w /\ at[w].place # "idle"

\* How far a callback has got fits the state of its connection.
PlaceFitsState ==
  \A w \in Worker :
    LET c == at[w].conn IN
    /\ at[w].place \in {"insert", "inserting", "reading"} => state[c] = "CONNECT"
    /\ at[w].place \in {"find", "erase", "erasing", "notify"} =>
         state[c] = "CLOSED" /\ c \in living /\ c \notin Range(removals)
    /\ at[w].place \in {"closing", "returning"} => state[c] = "CLOSED"
    /\ at[w].place \in {"find", "erase", "erasing"} => c \notin missed

\* The accept loop knows a connection from the moment it accepts it until it is
\* closed.
OpenIsLiving ==
  \A c \in Conn : /\ state[c] \in {"INIT", "CONNECT"} => c \in living
                  /\ state[c] = "none" => c \notin living

\* What is removed is closed, and was not removed before.
RemovalsAreClosed ==
  /\ \A i \in 1..Len(removals) : state[removals[i]] = "CLOSED" /\ removals[i] \in living
  /\ \A i, j \in 1..Len(removals) : removals[i] = removals[j] => i = j

\* What waits to be established is new, waits at its own worker, and once.
TasksAreNew ==
  \A w \in Worker :
    /\ \A i \in 1..Len(tasks[w]) : state[tasks[w][i]] = "INIT" /\ worker[tasks[w][i]] = w
    /\ \A i, j \in 1..Len(tasks[w]) : tasks[w][i] = tasks[w][j] => i = j

\* The poller knows connected ones only; a missed session is one of a closed
\* connection.
KnownByState ==
  \A c \in Conn : /\ c \in polled => state[c] = "CONNECT"
                  /\ c \in missed => state[c] = "CLOSED"

\* The event waits for room only while there is something to send.
WaitsForRoom == \A c \in Conn : "write" \in interest[c] => out[c] # <<>>

Lives == /\ OwnConnection /\ PlaceFitsState /\ OpenIsLiving /\ RemovalsAreClosed
         /\ TasksAreNew /\ KnownByState /\ WaitsForRoom

\* The values of loop.
LoopSet == [Worker -> [left : Nat, stale : BOOLEAN, from : {"read", "message", "parser", "timer"}]]

LifeInv == TypeOK /\ Lives /\ SessionWhileConnected /\ TimerWhileConnected

(* A worker that is at another place of its pass. *)
LEMMA LoopIsTyped ==
  ASSUME LifeInv, NEW w \in Worker, NEW l \in Nat, NEW b \in BOOLEAN,
         NEW f \in {"read", "message", "parser", "timer"},
         loop' \in {[loop EXCEPT ![w].left = l], [loop EXCEPT ![w].stale = b],
                    [loop EXCEPT ![w].left = l, ![w].from = f], [loop EXCEPT ![w].from = f, ![w].left = l]}
  PROVE  loop' \in LoopSet
<1> DEFINE One == [left : Nat, stale : BOOLEAN, from : {"read", "message", "parser", "timer"}]
           R == {[loop[w] EXCEPT !.left = l], [loop[w] EXCEPT !.stale = b],
                 [loop[w] EXCEPT !.left = l, !.from = f], [loop[w] EXCEPT !.from = f, !.left = l]}
<1>1. loop \in [Worker -> One]
  BY DEF LifeInv, TypeOK
<1>2. \A r \in R : r \in One
  <2>1. loop[w] \in One
    BY <1>1
  <2>2. [loop[w] EXCEPT !.left = l] \in One /\ [loop[w] EXCEPT !.stale = b] \in One
    BY <2>1
  <2>3. [loop[w] EXCEPT !.left = l, !.from = f] \in One
    BY <2>1
  <2>4. [loop[w] EXCEPT !.from = f, !.left = l] \in One
    BY <2>1
  <2>. QED
    BY <2>2, <2>3, <2>4
<1>3. \E r \in R : loop' = [loop EXCEPT ![w] = r]
  OBVIOUS
<1> HIDE DEF One, R
<1>4. loop' \in [Worker -> One]
  BY <1>1, <1>2, <1>3
<1>. QED
  BY <1>4 DEF One, LoopSet

(* The invariant says what the two properties say. *)
LEMMA LifeIsKept == LifeInv => ConnectionInv /\ EndsOnce
<1> SUFFICES ASSUME LifeInv PROVE ConnectionInv /\ EndsOnce
  OBVIOUS
<1>2. RemovedOnce
  <2>1. DOMAIN removals = 1..Len(removals)
    BY DEF LifeInv, TypeOK
  <2>. QED
    BY <2>1 DEF LifeInv, Lives, RemovalsAreClosed, RemovedOnce, Range
<1>3. DestroyedIsDetached
  <2> SUFFICES ASSUME NEW c \in Conn, Destroyed(c)
               PROVE  /\ state[c] = "CLOSED" /\ c \notin polled /\ timer[c] = "none"
                      /\ \A w \in Worker : at[w].conn = c => In(w, "returning")
    BY DEF DestroyedIsDetached
  <2>1. state[c] = "CLOSED"
    BY DEF Destroyed, Refd, LifeInv, Lives, OpenIsLiving, TypeOK
  <2>2. c \notin polled /\ timer[c] = "none"
    BY <2>1 DEF LifeInv, Lives, KnownByState, TimerWhileConnected
  <2>3. \A w \in Worker : at[w].conn = c => In(w, "returning")
    BY DEF Destroyed, Refd
  <2>. QED
    BY <2>1, <2>2, <2>3
<1>. QED
  BY <1>2, <1>3 DEF ConnectionInv, EndsOnce, LifeInv

(* The server starts without a connection. *)
LEMMA ServerInitial == Init => LifeInv
<1> SUFFICES ASSUME Init PROVE LifeInv
  OBVIOUS
<1>1. TypeOK
  <2>1. loop \in [Worker -> [left : Nat, stale : BOOLEAN, from : {"read", "message", "parser", "timer"}]]
    <3>1. [left |-> 0, stale |-> FALSE, from |-> "read"]
            \in [left : Nat, stale : BOOLEAN, from : {"read", "message", "parser", "timer"}]
      OBVIOUS
    <3>. QED
      BY <3>1 DEF Init
  <2>2. client \in [Conn -> [sent : Nat, unread : Nat, open : BOOLEAN]]
    BY DEF Init
  <2>3. out \in [Conn -> Seq(1..MaxParts)] /\ removals \in Seq(Conn) /\ tasks \in [Worker -> Seq(Conn)]
    BY DEF Init
  <2>4. next \in Worker /\ worker \in [Conn -> Worker] /\ lock \in Worker \cup {Workers}
    BY WorkersAssumption DEF Init, Worker, NoWorker
  <2>5. at \in [Worker -> [place : Place, conn : Conn \cup {NoConn}]]
    BY DEF Init, Idle, Place
  <2>6. /\ living \subseteq Conn /\ polled \subseteq Conn /\ sessions \subseteq Conn /\ missed \subseteq Conn
        /\ state \in [Conn -> {"none", "INIT", "CONNECT", "CLOSED"}]
        /\ interest \in [Conn -> SUBSET {"read", "write"}]
        /\ timer \in [Conn -> {"none", "armed", "due", "lost"}] /\ broken \in BOOLEAN
    BY DEF Init
  <2>. QED
    BY <2>1, <2>2, <2>3, <2>4, <2>5, <2>6 DEF TypeOK
<1>2. Lives
  BY <1>1 DEF Init, Lives, OwnConnection, PlaceFitsState, OpenIsLiving, RemovalsAreClosed,
              TasksAreNew, KnownByState, WaitsForRoom, Idle, Range
<1>3. SessionWhileConnected
  <2>1. \A c \in Conn, w \in Worker : at[w].conn # c
    BY NoConnAssumption DEF Init, Idle
  <2>2. sessions = {} /\ missed = {} /\ \A c \in Conn : state[c] = "none"
    BY DEF Init
  <2>. QED
    BY <2>1, <2>2 DEF SessionWhileConnected
<1>4. TimerWhileConnected
  BY DEF Init, TimerWhileConnected
<1>. QED
  BY <1>1, <1>2, <1>3, <1>4 DEF LifeInv

(* A worker is in a callback of a connection only if it is its own, and then   *)
(* the connection is open or has been closed.                                *)
LEMMA OnlyItsWorker ==
  ASSUME LifeInv, NEW w \in Worker
  PROVE  /\ at[w].place \in Place /\ at[w].conn \in Conn \cup {NoConn}
         /\ at[w].conn = NoConn => at[w] = Idle
         /\ at[w].place = "idle" => at[w] = Idle
         /\ at[w] = Idle => at[w].conn \notin Conn /\ at[w].place = "idle"
         /\ at[w].conn \in Conn =>
              /\ worker[at[w].conn] = w /\ at[w].place # "idle"
              /\ state[at[w].conn] \in {"CONNECT", "CLOSED"}
<1>1. at[w].place \in Place /\ at[w].conn \in Conn \cup {NoConn}
  BY DEF LifeInv, TypeOK
<1>2. at[w] = Idle => at[w].conn = NoConn /\ at[w].place = "idle"
  BY DEF Idle
<1>3. at[w].conn \in Conn => worker[at[w].conn] = w /\ at[w].place # "idle"
  BY <1>2, NoConnAssumption DEF LifeInv, Lives, OwnConnection
<1>4. at[w].place \in Place \ {"idle"} => state[at[w].conn] \in {"CONNECT", "CLOSED"}
  BY DEF LifeInv, Lives, PlaceFitsState, Place
<1>. QED
  BY <1>1, <1>2, <1>3, <1>4, NoConnAssumption DEF LifeInv, Lives, OwnConnection

(* A step that changes neither the state nor the timer of a connection, nor who *)
(* is reading one.                                                              *)
LEMMA TimerStays ==
  ASSUME LifeInv, UNCHANGED <<state, timer>>,
         \A v \in Worker : at'[v].place = "reading" \/ at[v].place = "reading" => at'[v] = at[v]
  PROVE  TimerWhileConnected'
BY DEF LifeInv, TimerWhileConnected, In

(* handleAccept: a connection that nobody knew. *)
LEMMA HandleAcceptStep == ASSUME LifeInv, NEW c \in Conn, HandleAccept(c) PROVE LifeInv'
<1> DEFINE v == (next + 1) % Workers
<1>1. /\ state[c] = "none" /\ v \in Worker
      /\ next' = v /\ worker' = [worker EXCEPT ![c] = v] /\ state' = [state EXCEPT ![c] = "INIT"]
      /\ living' = living \cup {c} /\ tasks' = [tasks EXCEPT ![v] = Append(tasks[v], c)]
      /\ UNCHANGED <<removals, polled, interest, timer, out, sessions, missed, lock, at, loop, broken, client>>
  BY WorkersAssumption DEF HandleAccept, serverVars, loopVars, LifeInv, TypeOK, Worker
<1> HIDE DEF v
<1>2. TypeOK'
  BY <1>1, SMTT(60) DEF LifeInv, TypeOK
<1>0. \A w \in Worker : at[w].conn # c
  BY <1>1, OnlyItsWorker
<1>3. OwnConnection' /\ PlaceFitsState'
  <2>1. OwnConnection'
    BY <1>0, <1>1 DEF LifeInv, Lives, TypeOK, OwnConnection
  <2>2. ASSUME NEW w \in Worker, at[w].place # "idle"
        PROVE  at[w].conn \in Conn /\ state'[at[w].conn] = state[at[w].conn]
    BY <1>0, <1>1, <2>2, OnlyItsWorker DEF LifeInv, TypeOK
  <2>3. PlaceFitsState'
    BY <1>1, <2>2 DEF LifeInv, Lives, PlaceFitsState
  <2>. QED
    BY <2>1, <2>3
<1>a. /\ state'[c] = "INIT" /\ worker'[c] = v
      /\ \A d \in Conn \ {c} : state'[d] = state[d] /\ worker'[d] = worker[d]
  BY <1>1 DEF LifeInv, TypeOK
<1>4. OpenIsLiving' /\ KnownByState' /\ WaitsForRoom'
  BY <1>1, <1>a DEF LifeInv, Lives, OpenIsLiving, KnownByState, WaitsForRoom
<1>5. RemovalsAreClosed'
  <2>1. \A i \in 1..Len(removals) : removals[i] \in Conn
    BY DEF LifeInv, TypeOK
  <2>. QED
    BY <1>1, <1>a, <2>1 DEF LifeInv, Lives, RemovalsAreClosed
<1>7. TasksAreNew'
  <2> SUFFICES ASSUME NEW w \in Worker
               PROVE  /\ \A i \in 1..Len(tasks'[w]) :
                           state'[tasks'[w][i]] = "INIT" /\ worker'[tasks'[w][i]] = w
                      /\ \A i, j \in 1..Len(tasks'[w]) : tasks'[w][i] = tasks'[w][j] => i = j
    BY DEF TasksAreNew
  <2>1. tasks[w] \in Seq(Conn) /\ \A i \in 1..Len(tasks[w]) : tasks[w][i] \in Conn
    BY DEF LifeInv, TypeOK
  <2>2. /\ \A i \in 1..Len(tasks[w]) : state[tasks[w][i]] = "INIT" /\ worker[tasks[w][i]] = w
        /\ \A i, j \in 1..Len(tasks[w]) : tasks[w][i] = tasks[w][j] => i = j
    BY DEF LifeInv, Lives, TasksAreNew
  <2>3. \A i \in 1..Len(tasks[w]) : tasks[w][i] # c
    BY <1>1, <2>2
  <2>4. CASE w # v
    <3>1. tasks'[w] = tasks[w]
      BY <1>1, <2>4 DEF LifeInv, TypeOK
    <3>. QED
      BY <1>a, <2>1, <2>2, <2>3, <3>1
  <2>5. CASE w = v
    <3>1. tasks'[w] = Append(tasks[w], c)
      BY <1>1, <2>5 DEF LifeInv, TypeOK
    <3>2. /\ Len(tasks'[w]) = Len(tasks[w]) + 1 /\ tasks'[w][Len(tasks[w]) + 1] = c
          /\ Len(tasks[w]) \in Nat /\ \A i \in 1..Len(tasks[w]) : tasks'[w][i] = tasks[w][i]
      BY <2>1, <3>1
    <3>3. \A i \in 1..Len(tasks'[w]) : i \in 1..Len(tasks[w]) \/ i = Len(tasks[w]) + 1
      BY <3>2
    <3>4. ASSUME NEW i \in 1..Len(tasks'[w])
          PROVE  state'[tasks'[w][i]] = "INIT" /\ worker'[tasks'[w][i]] = w
      BY <1>a, <2>1, <2>2, <2>3, <2>5, <3>2, <3>3, SMTT(30)
    <3>5. ASSUME NEW i \in 1..Len(tasks'[w]), NEW j \in 1..Len(tasks'[w]), tasks'[w][i] = tasks'[w][j]
          PROVE  i = j
      BY <2>2, <2>3, <3>2, <3>3, <3>5
    <3>. QED
      BY <3>4, <3>5
  <2>. QED
    BY <2>4, <2>5
<1>6. SessionWhileConnected'
  <2> SUFFICES ASSUME NEW d \in Conn
               PROVE  /\ state'[d] = "CONNECT" <=> state[d] = "CONNECT"
    BY <1>1 DEF LifeInv, SessionWhileConnected
  <2>. QED
    BY <1>1 DEF LifeInv, TypeOK
<1>8. TimerWhileConnected'
  BY <1>1, <1>a DEF LifeInv, TimerWhileConnected, In
<1>. QED
  BY <1>2, <1>3, <1>4, <1>5, <1>6, <1>7, <1>8 DEF LifeInv, Lives

(* The accept loop forgets a closed connection. *)
LEMMA RemoveStep == ASSUME LifeInv, RemoveConnectionInLoop PROVE LifeInv'
<1>1. /\ removals # <<>> /\ living' = living \ {Head(removals)} /\ removals' = Tail(removals)
      /\ UNCHANGED <<next, worker, tasks, state, polled, interest, timer, out, sessions, missed, lock, at, loop, broken, client>>
  BY DEF RemoveConnectionInLoop, serverVars, connVars, loopVars
<1>2. /\ removals \in Seq(Conn) /\ Head(removals) = removals[1] /\ Len(removals') = Len(removals) - 1
      /\ \A i \in 1..Len(removals') : removals'[i] = removals[i + 1]
      /\ removals' \in Seq(Conn)
  BY <1>1 DEF LifeInv, TypeOK
<1>3. Range(removals') \subseteq Range(removals) /\ Head(removals) \in Range(removals)
  BY <1>1, <1>2 DEF Range
<1>4. TypeOK'
  BY <1>1, <1>2 DEF LifeInv, TypeOK
<1>5. OwnConnection' /\ PlaceFitsState'
  BY <1>1, <1>3 DEF LifeInv, Lives, OwnConnection, PlaceFitsState
<1>6. OpenIsLiving'
  BY <1>1, <1>2 DEF LifeInv, Lives, OpenIsLiving, RemovalsAreClosed
<1>7. RemovalsAreClosed'
  BY <1>1, <1>2 DEF LifeInv, Lives, RemovalsAreClosed
<1>8. TasksAreNew' /\ KnownByState' /\ WaitsForRoom'
  BY <1>1 DEF LifeInv, Lives, TasksAreNew, KnownByState, WaitsForRoom
<1>9. SessionWhileConnected'
  BY <1>1, Zenon DEF LifeInv, SessionWhileConnected
<1>10. TimerWhileConnected'
  BY <1>1, TimerStays
<1>. QED
  BY <1>4, <1>5, <1>6, <1>7, <1>8, <1>9, <1>10 DEF LifeInv, Lives

(* connectEstablished: its worker is in no callback, so nobody is in one of *)
(* this connection.                                                         *)
LEMMA EstablishStep == ASSUME LifeInv, NEW w \in Worker, ConnectEstablished(w) PROVE LifeInv'
<1> DEFINE c == Head(tasks[w])
<1>1. /\ at[w].place = "idle" /\ tasks[w] # <<>>
      /\ state' = [state EXCEPT ![c] = "CONNECT"] /\ polled' = polled \cup {c}
      /\ interest' = [interest EXCEPT ![c] = {"read"}] /\ timer' = [timer EXCEPT ![c] = NewTimer(w)]
      /\ at' = [at EXCEPT ![w] = [place |-> "insert", conn |-> c]]
      /\ tasks' = [tasks EXCEPT ![w] = Tail(tasks[w])]
      /\ UNCHANGED <<next, living, removals, worker, out, sessions, missed, lock, loop, broken, client>>
  BY DEF ConnectEstablished, serverVars, loopVars, In, GoOn
<1>2. /\ tasks[w] \in Seq(Conn) /\ c = tasks[w][1] /\ c \in Conn
      /\ Tail(tasks[w]) \in Seq(Conn) /\ Len(Tail(tasks[w])) = Len(tasks[w]) - 1
      /\ \A i \in 1..Len(Tail(tasks[w])) : Tail(tasks[w])[i] = tasks[w][i + 1]
      /\ 1 \in 1..Len(tasks[w])
  <2>1. tasks[w] \in Seq(Conn) /\ tasks[w] # <<>>
    BY <1>1 DEF LifeInv, TypeOK
  <2>. QED
    BY <2>1
<1>3. state[c] = "INIT" /\ worker[c] = w /\ c \in living
  BY <1>2 DEF LifeInv, Lives, TasksAreNew, OpenIsLiving
<1> HIDE DEF c
<1>c. NewTimer(w) \in {"armed", "lost"}
  BY DEF NewTimer
<1>4. TypeOK'
  BY <1>1, <1>2, <1>c DEF LifeInv, TypeOK, Place
<1>5. at[w] = Idle /\ \A v \in Worker : at[v].conn # c
  BY <1>1, <1>2, <1>3, OnlyItsWorker
<1>a. /\ state'[c] = "CONNECT" /\ \A d \in Conn \ {c} : state'[d] = state[d]
      /\ interest'[c] = {"read"} /\ \A d \in Conn \ {c} : interest'[d] = interest[d]
      /\ timer'[c] = NewTimer(w) /\ \A d \in Conn \ {c} : timer'[d] = timer[d]
  BY <1>1, <1>2 DEF LifeInv, TypeOK
<1>b. /\ at'[w].place = "insert" /\ at'[w].conn = c /\ \A v \in Worker \ {w} : at'[v] = at[v]
  BY <1>1 DEF LifeInv, TypeOK
<1>6. OwnConnection' /\ PlaceFitsState'
  <2>1. OwnConnection'
    BY <1>1, <1>2, <1>3, <1>b DEF LifeInv, Lives, OwnConnection
  <2>2. \A v \in Worker \ {w} : at[v].place # "idle" => state'[at[v].conn] = state[at[v].conn]
    BY <1>5, <1>a, OnlyItsWorker
  <2>3. PlaceFitsState'
    BY <1>1, <1>a, <1>b, <2>2 DEF LifeInv, Lives, PlaceFitsState
  <2>. QED
    BY <2>1, <2>3
<1>7. OpenIsLiving' /\ KnownByState' /\ WaitsForRoom'
  BY <1>1, <1>2, <1>3, <1>a DEF LifeInv, Lives, OpenIsLiving, KnownByState, WaitsForRoom
<1>10. RemovalsAreClosed'
  <2>1. \A i \in 1..Len(removals) : removals[i] \in Conn
    BY DEF LifeInv, TypeOK
  <2>. QED
    BY <1>1, <1>3, <1>a, <2>1 DEF LifeInv, Lives, RemovalsAreClosed
<1>8. TasksAreNew'
  <2> SUFFICES ASSUME NEW v \in Worker
               PROVE  /\ \A i \in 1..Len(tasks'[v]) :
                           state'[tasks'[v][i]] = "INIT" /\ worker'[tasks'[v][i]] = v
                      /\ \A i, j \in 1..Len(tasks'[v]) : tasks'[v][i] = tasks'[v][j] => i = j
    BY DEF TasksAreNew
  <2>1. tasks[v] \in Seq(Conn) /\ \A i \in 1..Len(tasks[v]) : tasks[v][i] \in Conn
    BY DEF LifeInv, TypeOK
  <2>2. /\ \A i \in 1..Len(tasks[v]) : state[tasks[v][i]] = "INIT" /\ worker[tasks[v][i]] = v
        /\ \A i, j \in 1..Len(tasks[v]) : tasks[v][i] = tasks[v][j] => i = j
    BY DEF LifeInv, Lives, TasksAreNew
  <2>3. CASE v # w
    <3>1. tasks'[v] = tasks[v]
      BY <1>1, <2>3 DEF LifeInv, TypeOK
    <3>2. \A i \in 1..Len(tasks[v]) : tasks[v][i] # c
      BY <1>3, <2>2, <2>3
    <3>. QED
      BY <1>1, <1>a, <2>1, <2>2, <3>1, <3>2
  <2>4. CASE v = w
    <3>1. tasks'[v] = Tail(tasks[w])
      BY <1>1, <2>4 DEF LifeInv, TypeOK
    <3>2. \A i \in 1..Len(Tail(tasks[w])) : i + 1 \in 1..Len(tasks[w]) /\ i + 1 # 1
      BY <1>2
    <3>3. \A i \in 1..Len(Tail(tasks[w])) : tasks'[v][i] = tasks[v][i + 1] /\ tasks[v][i + 1] # c
      BY <1>2, <2>2, <2>4, <3>1, <3>2
    <3>4. ASSUME NEW i \in 1..Len(tasks'[v])
          PROVE  state'[tasks'[v][i]] = "INIT" /\ worker'[tasks'[v][i]] = v
      <4>1. i + 1 \in 1..Len(tasks[v]) /\ tasks'[v][i] = tasks[v][i + 1] /\ tasks[v][i + 1] # c
        BY <2>4, <3>1, <3>2, <3>3
      <4>2. tasks[v][i + 1] \in Conn \ {c}
        BY <2>1, <4>1
      <4>. QED
        BY <1>1, <1>a, <2>2, <4>1, <4>2
    <3>5. ASSUME NEW i \in 1..Len(tasks'[v]), NEW j \in 1..Len(tasks'[v]), tasks'[v][i] = tasks'[v][j]
          PROVE  i = j
      <4>1. i + 1 = j + 1
        BY <2>2, <2>4, <3>1, <3>2, <3>3, <3>5
      <4>. QED
        BY <4>1
    <3>. QED
      BY <3>4, <3>5
  <2>. QED
    BY <2>3, <2>4
<1>9. SessionWhileConnected'
  <2>1. \A d \in Conn \ {c} :
           /\ state'[d] = state[d]
           /\ \A v \in Worker : at'[v].conn = d <=> at[v].conn = d
           /\ \A v \in Worker : at[v].conn = d => at'[v] = at[v]
    BY <1>2, <1>5, <1>a, <1>b, OnlyItsWorker
  <2>2. c \notin sessions /\ c \notin missed
    BY <1>2, <1>3, <1>5 DEF LifeInv, Lives, SessionWhileConnected, KnownByState
  <2>. QED
    BY <1>1, <1>2, <1>5, <1>a, <1>b, <2>1, <2>2 DEF LifeInv, SessionWhileConnected
<1>11. TimerWhileConnected'
  <2>1. \A v \in Worker : at'[v].conn = c => at'[v].place # "reading"
    BY <1>5, <1>b
  <2>2. \A d \in Conn \ {c}, v \in Worker :
           (at'[v].conn = d /\ at'[v].place = "reading") <=> (at[v].conn = d /\ at[v].place = "reading")
    BY <1>1, <1>b
  <2>. QED
    BY <1>2, <1>a, <1>c, <2>1, <2>2 DEF LifeInv, TimerWhileConnected, In
<1>. QED
  BY <1>4, <1>6, <1>7, <1>8, <1>9, <1>10, <1>11 DEF LifeInv, Lives

(* A step that leaves the connections and the workers alone. *)
LEMMA LockStep ==
  ASSUME LifeInv, NEW w \in Worker, NEW from, NEW to, Lock(w, from, to),
         <<from, to>> \in {<<"insert", "inserting">>, <<"erase", "erasing">>}
  PROVE  LifeInv'
<1>1. /\ at[w].place = from /\ lock' = w /\ at' = [at EXCEPT ![w] = [place |-> to, conn |-> at[w].conn]]
      /\ UNCHANGED <<next, out, client, sessions, missed, living, removals, worker, tasks,
                     state, polled, interest, timer, loop, broken>>
  BY DEF Lock, In, GoOn, tcpVars, connVars, loopVars
<1>2. /\ at[w].conn \in Conn /\ at'[w].place = to /\ at'[w].conn = at[w].conn /\ to # "idle"
      /\ \A v \in Worker \ {w} : at'[v] = at[v]
  BY <1>1, OnlyItsWorker DEF LifeInv, TypeOK, Idle
<1>3. TypeOK'
  BY <1>1, <1>2 DEF LifeInv, TypeOK, Place
<1>4. OwnConnection' /\ PlaceFitsState'
  <2>1. OwnConnection'
    BY <1>1, <1>2, OnlyItsWorker DEF LifeInv, Lives, OwnConnection
  <2>2. PlaceFitsState'
    BY <1>1, <1>2 DEF LifeInv, Lives, PlaceFitsState
  <2>. QED
    BY <2>1, <2>2
<1>5. OpenIsLiving' /\ RemovalsAreClosed' /\ TasksAreNew' /\ KnownByState' /\ WaitsForRoom'
  BY <1>1 DEF LifeInv, Lives, OpenIsLiving, RemovalsAreClosed, TasksAreNew, KnownByState, WaitsForRoom
<1>6. SessionWhileConnected'
  BY <1>1, <1>2 DEF LifeInv, SessionWhileConnected
<1>7. TimerWhileConnected'
  BY <1>1, <1>2, TimerStays
<1>. QED
  BY <1>3, <1>4, <1>5, <1>6, <1>7 DEF LifeInv, Lives

(* handleConnected gives the connection its session. *)
LEMMA InsertStep == ASSUME LifeInv, NEW w \in Worker, InsertSession(w) PROVE LifeInv'
<1> DEFINE c == at[w].conn
<1>1. /\ at[w].place = "inserting" /\ sessions' = sessions \cup {c} /\ lock' = NoWorker
      /\ at' = [at EXCEPT ![w] = Idle]
      /\ UNCHANGED <<next, out, client, missed, living, removals, worker, tasks,
                     state, polled, interest, timer, loop, broken>>
  BY DEF InsertSession, In, Done, tcpVars, connVars, loopVars
<1>2. /\ c \in Conn /\ at'[w] = Idle /\ state[c] = "CONNECT" /\ worker[c] = w
      /\ \A v \in Worker \ {w} : at'[v] = at[v] /\ at[v].conn # c
  BY <1>1, OnlyItsWorker, SMTT(30) DEF LifeInv, Lives, PlaceFitsState, TypeOK, Idle
<1>3. TypeOK'
  BY <1>1, <1>2 DEF LifeInv, TypeOK, Place, Idle, NoWorker
<1>4. OwnConnection' /\ PlaceFitsState'
  <2>1. OwnConnection'
    BY <1>1, <1>2 DEF LifeInv, Lives, OwnConnection
  <2>2. PlaceFitsState'
    BY <1>1, <1>2 DEF LifeInv, Lives, PlaceFitsState, Idle
  <2>. QED
    BY <2>1, <2>2
<1>5. OpenIsLiving' /\ RemovalsAreClosed' /\ TasksAreNew' /\ KnownByState' /\ WaitsForRoom'
  BY <1>1 DEF LifeInv, Lives, OpenIsLiving, RemovalsAreClosed, TasksAreNew, KnownByState, WaitsForRoom
<1>6. SessionWhileConnected'
  <2>1. at'[w].conn \notin Conn
    BY <1>2, NoConnAssumption DEF Idle
  <2>. QED
    BY <1>1, <1>2, <2>1 DEF LifeInv, SessionWhileConnected
<1>7. TimerWhileConnected'
  BY <1>1, <1>2, TimerStays DEF Idle
<1>. QED
  BY <1>3, <1>4, <1>5, <1>6, <1>7 DEF LifeInv, Lives

(* handleDisconnected searches the session. *)
LEMMA FindStep == ASSUME LifeInv, NEW w \in Worker, FindSession(w) PROVE LifeInv'
<1> DEFINE c == at[w].conn
<1>1. /\ at[w].place = "find"
      /\ UNCHANGED <<next, out, client, sessions, lock, living, removals, worker, tasks,
                     state, polled, interest, timer, loop, broken>>
  BY DEF FindSession, In, tcpVars, connVars, loopVars
<1>2. PICK to \in {"erase", "notify"} :
        /\ at' = [at EXCEPT ![w] = [place |-> to, conn |-> c]]
        /\ missed' = missed \cup (IF to = "erase" THEN {} ELSE {c})
  BY DEF FindSession, GoOn
<1>3. /\ c \in Conn /\ state[c] = "CLOSED" /\ worker[c] = w /\ c \in sessions
      /\ c \in living /\ c \notin Range(removals) /\ c \notin missed
  BY <1>1, OnlyItsWorker DEF LifeInv, Lives, PlaceFitsState, SessionWhileConnected, Idle
<1>4. /\ at'[w].place = to /\ at'[w].conn = c
      /\ \A v \in Worker \ {w} : at'[v] = at[v] /\ at[v].conn # c
  BY <1>2, <1>3, OnlyItsWorker DEF LifeInv, TypeOK
<1>5. TypeOK'
  BY <1>1, <1>2, <1>3 DEF LifeInv, TypeOK, Place
<1>6. OwnConnection' /\ PlaceFitsState'
  <2>1. OwnConnection'
    BY <1>1, <1>3, <1>4 DEF LifeInv, Lives, OwnConnection
  <2>2. PlaceFitsState'
    BY <1>1, <1>2, <1>3, <1>4 DEF LifeInv, Lives, PlaceFitsState
  <2>. QED
    BY <2>1, <2>2
<1>7. OpenIsLiving' /\ RemovalsAreClosed' /\ TasksAreNew' /\ WaitsForRoom'
  BY <1>1 DEF LifeInv, Lives, OpenIsLiving, RemovalsAreClosed, TasksAreNew, WaitsForRoom
<1>8. KnownByState'
  BY <1>1, <1>2, <1>3 DEF LifeInv, Lives, KnownByState
<1>9. SessionWhileConnected'
  BY <1>1, <1>2, <1>3, <1>4 DEF LifeInv, SessionWhileConnected
<1>10. TimerWhileConnected'
  BY <1>1, <1>4, TimerStays
<1>. QED
  BY <1>5, <1>6, <1>7, <1>8, <1>9, <1>10 DEF LifeInv, Lives

(* It erases what it found. *)
LEMMA EraseStep == ASSUME LifeInv, NEW w \in Worker, EraseSession(w) PROVE LifeInv'
<1> DEFINE c == at[w].conn
<1>1. /\ at[w].place = "erasing" /\ sessions' = sessions \ {c} /\ lock' = NoWorker
      /\ at' = [at EXCEPT ![w] = [place |-> "notify", conn |-> c]]
      /\ UNCHANGED <<next, out, client, missed, living, removals, worker, tasks,
                     state, polled, interest, timer, loop, broken>>
  BY DEF EraseSession, In, GoOn, tcpVars, connVars, loopVars
<1>2. /\ c \in Conn /\ state[c] = "CLOSED" /\ worker[c] = w
      /\ c \in living /\ c \notin Range(removals) /\ c \notin missed
  BY <1>1, OnlyItsWorker DEF LifeInv, Lives, PlaceFitsState, Idle
<1>3. /\ at'[w].place = "notify" /\ at'[w].conn = c
      /\ \A v \in Worker \ {w} : at'[v] = at[v] /\ at[v].conn # c
  BY <1>1, <1>2, OnlyItsWorker, SMTT(30) DEF LifeInv, TypeOK
<1>4. TypeOK'
  BY <1>1, <1>2 DEF LifeInv, TypeOK, Place, NoWorker
<1>5. OwnConnection' /\ PlaceFitsState'
  <2>1. OwnConnection'
    BY <1>1, <1>2, <1>3 DEF LifeInv, Lives, OwnConnection
  <2>2. PlaceFitsState'
    BY <1>1, <1>2, <1>3 DEF LifeInv, Lives, PlaceFitsState
  <2>. QED
    BY <2>1, <2>2
<1>6. OpenIsLiving' /\ RemovalsAreClosed' /\ TasksAreNew' /\ KnownByState' /\ WaitsForRoom'
  BY <1>1 DEF LifeInv, Lives, OpenIsLiving, RemovalsAreClosed, TasksAreNew, KnownByState, WaitsForRoom
<1>7. SessionWhileConnected'
  BY <1>1, <1>2, <1>3 DEF LifeInv, SessionWhileConnected
<1>8. TimerWhileConnected'
  BY <1>1, <1>3, TimerStays
<1>. QED
  BY <1>4, <1>5, <1>6, <1>7, <1>8 DEF LifeInv, Lives

(* The accept loop is told, once, because the connection is in no removal. *)
LEMMA NotifyStep == ASSUME LifeInv, NEW w \in Worker, HandleConnectionClose(w) PROVE LifeInv'
<1> DEFINE c == at[w].conn
<1>1. /\ at[w].place = "notify" /\ removals' = Append(removals, c)
      /\ at' = [at EXCEPT ![w] = [place |-> "closing", conn |-> c]]
      /\ UNCHANGED <<next, out, client, sessions, missed, lock, living, worker, tasks,
                     state, polled, interest, timer, loop, broken>>
  BY DEF HandleConnectionClose, In, GoOn, serverVars, connVars, loopVars
<1>2. /\ c \in Conn /\ state[c] = "CLOSED" /\ worker[c] = w /\ c \in living /\ c \notin Range(removals)
  BY <1>1, OnlyItsWorker DEF LifeInv, Lives, PlaceFitsState, Idle
<1>3. /\ at'[w].place = "closing" /\ at'[w].conn = c
      /\ \A v \in Worker \ {w} : at'[v] = at[v] /\ at[v].conn # c
  BY <1>1, <1>2, OnlyItsWorker DEF LifeInv, TypeOK
<1> HIDE DEF c
<1>4. /\ removals \in Seq(Conn) /\ Len(removals') = Len(removals) + 1 /\ removals'[Len(removals) + 1] = c
      /\ \A i \in 1..Len(removals) : removals'[i] = removals[i]
      /\ removals' \in Seq(Conn)
  BY <1>1, <1>2 DEF LifeInv, TypeOK
<1>5. \A i \in 1..Len(removals') : i \in 1..Len(removals) \/ i = Len(removals) + 1
  BY <1>4
<1>6. \A i \in 1..Len(removals) : removals[i] # c
  BY <1>2, <1>4 DEF Range
<1>7. Range(removals') \subseteq Range(removals) \cup {c}
  BY <1>4, <1>5 DEF Range
<1>8. TypeOK'
  BY <1>1, <1>2, <1>4 DEF LifeInv, TypeOK, Place
<1>9. OwnConnection' /\ PlaceFitsState'
  <2>1. OwnConnection'
    BY <1>1, <1>2, <1>3 DEF LifeInv, Lives, OwnConnection
  <2>2. PlaceFitsState'
    BY <1>1, <1>2, <1>3, <1>7 DEF LifeInv, Lives, PlaceFitsState
  <2>. QED
    BY <2>1, <2>2
<1>10. RemovalsAreClosed'
  <2>1. \A i \in 1..Len(removals') : state'[removals'[i]] = "CLOSED" /\ removals'[i] \in living'
    BY <1>1, <1>2, <1>4, <1>5 DEF LifeInv, Lives, RemovalsAreClosed
  <2>2. ASSUME NEW i \in 1..Len(removals'), NEW j \in 1..Len(removals'), removals'[i] = removals'[j]
        PROVE  i = j
    BY <1>4, <1>5, <1>6, <2>2 DEF LifeInv, Lives, RemovalsAreClosed
  <2>. QED
    BY <2>1, <2>2 DEF RemovalsAreClosed
<1>11. OpenIsLiving' /\ TasksAreNew' /\ KnownByState' /\ WaitsForRoom'
  BY <1>1 DEF LifeInv, Lives, OpenIsLiving, TasksAreNew, KnownByState, WaitsForRoom
<1>12. SessionWhileConnected'
  BY <1>1, <1>2, <1>3 DEF LifeInv, SessionWhileConnected, c
<1>13. TimerWhileConnected'
  BY <1>1, <1>3, TimerStays
<1>. QED
  BY <1>8, <1>9, <1>10, <1>11, <1>12, <1>13 DEF LifeInv, Lives

(* The callbacks of a closed connection end. *)
LEMMA BackStep == ASSUME LifeInv, NEW w \in Worker, LeaveCallback(w) \/ Return(w) PROVE LifeInv'
<1> DEFINE c == at[w].conn
<1>1. /\ at[w].place \in {"closing", "returning"}
      /\ \/ at' = [at EXCEPT ![w] = [place |-> "returning", conn |-> c]]
         \/ at' = [at EXCEPT ![w] = Idle]
      /\ timer' = timer \/ ResumeTimer(w, c)
      /\ loop' = loop \/ loop' = [loop EXCEPT ![w].left = 0, ![w].from = "read"]
      /\ broken' = broken \/ broken' \in BOOLEAN
      /\ UNCHANGED <<next, out, client, sessions, missed, lock, living, removals, worker, tasks,
                     state, polled, interest>>
  BY DEF LeaveCallback, Return, In, GoOn, Done, serverVars, connVars, tcpVars, loopVars
<1>2. c \in Conn /\ state[c] = "CLOSED" /\ worker[c] = w
  BY <1>1, OnlyItsWorker DEF LifeInv, Lives, PlaceFitsState, Idle
<1>3. /\ at'[w] = Idle \/ (at'[w].place = "returning" /\ at'[w].conn = c)
      /\ \A v \in Worker \ {w} : at'[v] = at[v] /\ at[v].conn # c
  <2>1. at \in [Worker -> [place : Place, conn : Conn \cup {NoConn}]]
    BY DEF LifeInv, TypeOK
  <2>2. at'[w] = Idle \/ (at'[w].place = "returning" /\ at'[w].conn = c)
    <3>1. CASE at' = [at EXCEPT ![w] = Idle]
      BY <2>1, <3>1
    <3>2. CASE at' = [at EXCEPT ![w] = [place |-> "returning", conn |-> c]]
      BY <2>1, <3>2
    <3>. QED
      BY <1>1, <3>1, <3>2
  <2>3. \A v \in Worker \ {w} : at'[v] = at[v]
    BY <1>1, <2>1
  <2>4. \A v \in Worker \ {w} : at[v].conn # c
    BY <1>2, OnlyItsWorker
  <2>. QED
    BY <2>2, <2>3, <2>4
<1>a. timer' = timer
  <2>1. timer \in [Conn -> {"none", "armed", "due", "lost"}] /\ timer[c] = "none"
    BY <1>2 DEF LifeInv, TypeOK, TimerWhileConnected
  <2>2. ResumeTimer(w, c) => timer' = [timer EXCEPT ![c] = "none"]
    BY <1>2 DEF ResumeTimer
  <2>. QED
    BY <1>1, <2>1, <2>2
<1>4. TypeOK'
  <2>1. at' \in [Worker -> [place : Place, conn : Conn \cup {NoConn}]]
    <3>1. CASE at' = [at EXCEPT ![w] = Idle]
      BY <3>1 DEF LifeInv, TypeOK, Place, Idle
    <3>2. CASE at' = [at EXCEPT ![w] = [place |-> "returning", conn |-> c]]
      BY <1>2, <3>2 DEF LifeInv, TypeOK, Place
    <3>. QED
      BY <1>1, <3>1, <3>2
  <2>2. loop' \in LoopSet /\ broken' \in BOOLEAN
    BY <1>1, LoopIsTyped DEF LifeInv, TypeOK, LoopSet
  <2>. QED
    BY <1>1, <1>a, <2>1, <2>2 DEF LifeInv, TypeOK, LoopSet
<1>5. OwnConnection' /\ PlaceFitsState'
  <2>1. OwnConnection'
    BY <1>1, <1>2, <1>3 DEF LifeInv, Lives, OwnConnection
  <2>2. PlaceFitsState'
    BY <1>1, <1>2, <1>3 DEF LifeInv, Lives, PlaceFitsState, Idle
  <2>. QED
    BY <2>1, <2>2
<1>6. OpenIsLiving' /\ RemovalsAreClosed' /\ TasksAreNew' /\ KnownByState' /\ WaitsForRoom'
  BY <1>1 DEF LifeInv, Lives, OpenIsLiving, RemovalsAreClosed, TasksAreNew, KnownByState, WaitsForRoom
<1>7. SessionWhileConnected'
  <2>1. Idle.conn \notin Conn /\ Idle.place = "idle"
    BY NoConnAssumption DEF Idle
  <2>. QED
    BY <1>1, <1>2, <1>3, <2>1 DEF LifeInv, SessionWhileConnected
<1>8. TimerWhileConnected'
  BY <1>1, <1>3, <1>a, TimerStays DEF Idle
<1>. QED
  BY <1>4, <1>5, <1>6, <1>7, <1>8 DEF LifeInv, Lives

(* A worker serves a connection only when no worker is in a callback of it. *)
LEMMA ServedIsQuiet ==
  ASSUME LifeInv, NEW w \in Worker, NEW c \in Conn, Serves(w, c), state[c] \in {"CONNECT", "CLOSED"}
  PROVE  at[w] = Idle /\ worker[c] = w /\ \A v \in Worker : at[v].conn # c
BY OnlyItsWorker DEF Serves, In

(* Requests that are sent and read are counted. *)
LEMMA ReadIsTyped ==
  ASSUME LifeInv, NEW c \in Conn, client' = [client EXCEPT ![c].unread = 0]
  PROVE  client' \in [Conn -> [sent : Nat, unread : Nat, open : BOOLEAN]]
BY DEF LifeInv, TypeOK

(* handleClose, for whatever reason: a connection that is open, whose worker *)
(* goes on with handleDisconnected.                                          *)
LEMMA DetachStep ==
  ASSUME LifeInv, NEW w \in Worker, NEW c \in Conn, state[c] = "CONNECT", worker[c] = w,
         at[w] = Idle \/ (at[w].conn = c /\ at[w].place = "reading"),
         state' = [state EXCEPT ![c] = "CLOSED"], timer' = [timer EXCEPT ![c] = "none"],
         interest' = [interest EXCEPT ![c] = {}], polled' = polled \ {c}, GoOn(w, "find", c),
         out' \in [Conn -> Seq(1..MaxParts)], \A d \in Conn \ {c} : out'[d] = out[d],
         loop' \in LoopSet,
         UNCHANGED <<next, client, broken, sessions, missed, lock, living, removals, worker, tasks>>
  PROVE  LifeInv'
<1>1. /\ at' = [at EXCEPT ![w] = [place |-> "find", conn |-> c]]
      /\ \A v \in Worker \ {w} : at[v].conn # c
      /\ at[w].conn \in Conn => at[w].conn = c
  BY OnlyItsWorker DEF GoOn
<1>2. /\ at'[w].place = "find" /\ at'[w].conn = c
      /\ \A v \in Worker \ {w} : at'[v] = at[v] /\ at[v].conn # c
  BY <1>1 DEF LifeInv, TypeOK
<1>3. /\ state'[c] = "CLOSED" /\ timer'[c] = "none" /\ interest'[c] = {}
      /\ \A d \in Conn \ {c} : state'[d] = state[d] /\ timer'[d] = timer[d] /\ interest'[d] = interest[d]
  BY DEF LifeInv, TypeOK
<1>5. c \in living /\ c \notin missed /\ c \in sessions
  <2>1. c \in living /\ c \notin missed
    BY DEF LifeInv, Lives, OpenIsLiving, KnownByState
  <2>2. \A v \in Worker : at[v].conn = c => at[v].place = "reading"
    BY <1>1, NoConnAssumption DEF Idle
  <2>3. c \in sessions
    BY <2>1, <2>2 DEF LifeInv, SessionWhileConnected
  <2>. QED
    BY <2>1, <2>3
<1>6. /\ \A i \in 1..Len(removals) : removals[i] \in Conn \ {c}
      /\ c \notin Range(removals)
  <2>1. removals \in Seq(Conn) /\ \A i \in 1..Len(removals) : state[removals[i]] = "CLOSED"
    BY DEF LifeInv, Lives, RemovalsAreClosed, TypeOK
  <2>2. \A i \in 1..Len(removals) : removals[i] \in Conn \ {c}
    BY <2>1
  <2>3. DOMAIN removals = 1..Len(removals)
    BY <2>1
  <2>. QED
    BY <2>2, <2>3 DEF Range
<1>7. TypeOK'
  BY <1>1 DEF LifeInv, TypeOK, Place, LoopSet
<1>8. OwnConnection'
  BY <1>1, <1>2 DEF LifeInv, Lives, OwnConnection
<1>9. PlaceFitsState'
  <2>1. \A v \in Worker \ {w} : at[v].place # "idle" => state'[at[v].conn] = state[at[v].conn]
    BY <1>1, <1>3, OnlyItsWorker
  <2>. QED
    BY <1>2, <1>3, <1>5, <1>6, <2>1 DEF LifeInv, Lives, PlaceFitsState
<1>10. OpenIsLiving' /\ RemovalsAreClosed' /\ KnownByState' /\ WaitsForRoom'
  <2>1. OpenIsLiving'
    BY <1>3, <1>5 DEF LifeInv, Lives, OpenIsLiving
  <2>2. RemovalsAreClosed'
    BY <1>3, <1>6 DEF LifeInv, Lives, RemovalsAreClosed
  <2>3. KnownByState'
    BY <1>3, <1>5 DEF LifeInv, Lives, KnownByState
  <2>4. WaitsForRoom'
    BY <1>3, <1>5 DEF LifeInv, Lives, WaitsForRoom
  <2>. QED
    BY <2>1, <2>2, <2>3, <2>4
<1>11. TasksAreNew'
  <2>1. ASSUME NEW v \in Worker, NEW i \in 1..Len(tasks[v])
        PROVE  tasks[v][i] \in Conn \ {c}
    <3>1. tasks[v] \in Seq(Conn)
      BY DEF LifeInv, TypeOK
    <3>2. state[tasks[v][i]] = "INIT"
      BY DEF LifeInv, Lives, TasksAreNew
    <3>. QED
      BY <3>1, <3>2
  <2>. QED
    BY <1>3, <2>1 DEF LifeInv, Lives, TasksAreNew
<1>a. \A d \in Conn \ {c}, v \in Worker :
        /\ at'[v].conn = d => at'[v] = at[v]
        /\ at[v].conn = d => at'[v] = at[v]
  BY <1>1, <1>2
<1>12. SessionWhileConnected'
  BY <1>1, <1>2, <1>3, <1>5, <1>a DEF LifeInv, SessionWhileConnected
<1>13. TimerWhileConnected'
  BY <1>1, <1>2, <1>3, <1>a DEF LifeInv, TimerWhileConnected, In
<1>. QED
  BY <1>7, <1>8, <1>9, <1>10, <1>11, <1>12, <1>13 DEF LifeInv, Lives

(* The handler may have queued something before. *)
LEMMA QueueGrows ==
  ASSUME LifeInv, NEW c \in Conn, NEW n \in 0..MaxParts, NEW k \in 0..MaxParts, k <= n,
         out' = IF k = n THEN out ELSE [out EXCEPT ![c] = Append(out[c], n - k)]
  PROVE  /\ out' \in [Conn -> Seq(1..MaxParts)]
         /\ k # n => out'[c] # <<>>
         /\ \A d \in Conn \ {c} : out'[d] = out[d]
<1>0. out \in [Conn -> Seq(1..MaxParts)]
  BY DEF LifeInv, TypeOK
<1>1. CASE k = n
  BY <1>0, <1>1
<1>2. CASE k # n
  <2>1. n - k \in 1..MaxParts
    BY <1>2, BoundsAssumption
  <2>2. Append(out[c], n - k) \in Seq(1..MaxParts) /\ Append(out[c], n - k) # <<>>
    <3>1. out[c] \in Seq(1..MaxParts)
      BY <1>0
    <3>. QED
      BY <2>1, <3>1, AppendProperties
  <2>. QED
    BY <1>0, <1>2, <2>2
<1>. QED
  BY <1>1, <1>2

(* The connection whose read its worker is in. *)
LEMMA ReadingIsOpen ==
  ASSUME LifeInv, NEW w \in Worker, at[w].place = "reading"
  PROVE  /\ at[w].conn \in Conn /\ worker[at[w].conn] = w /\ state[at[w].conn] = "CONNECT"
         /\ timer[at[w].conn] = "none" /\ \A v \in Worker \ {w} : at[v].conn # at[w].conn
<1>1. at[w].conn \in Conn /\ worker[at[w].conn] = w /\ state[at[w].conn] = "CONNECT"
  BY OnlyItsWorker DEF LifeInv, Lives, PlaceFitsState, Idle
<1>2. timer[at[w].conn] = "none"
  BY <1>1 DEF LifeInv, TimerWhileConnected, In
<1>. QED
  BY <1>1, <1>2, OnlyItsWorker

(* ForceClose from inside a read. *)
LEMMA ForceCloseStep ==
  ASSUME LifeInv, NEW w \in Worker, at[w].place = "reading",
         NEW from \in {"message", "parser"}, NEW left \in Nat, ForceClose(w, from, left),
         out' \in [Conn -> Seq(1..MaxParts)], \A d \in Conn \ {at[w].conn} : out'[d] = out[d]
  PROVE  LifeInv'
<1> DEFINE c == at[w].conn
<1>1. /\ state' = [state EXCEPT ![c] = "CLOSED"] /\ interest' = [interest EXCEPT ![c] = {}]
      /\ polled' = polled \ {c} /\ GoOn(w, "find", c)
      /\ loop' = [loop EXCEPT ![w].from = from, ![w].left = left]
      /\ UNCHANGED <<next, client, timer, broken, sessions, missed, lock, living, removals, worker, tasks>>
  BY DEF ForceClose, tcpVars, serverVars
<1>2. c \in Conn /\ worker[c] = w /\ state[c] = "CONNECT" /\ timer[c] = "none"
  BY ReadingIsOpen
<1>3. timer' = [timer EXCEPT ![c] = "none"]
  BY <1>1, <1>2 DEF LifeInv, TypeOK
<1>4. loop' \in LoopSet
  BY <1>1, LoopIsTyped
<1>. QED
  BY <1>1, <1>2, <1>3, <1>4, DetachStep

(* The parser's callback closes behind the answer. *)
LEMMA AnswerAndCloseStep == ASSUME LifeInv, NEW w \in Worker, AnswerAndClose(w) PROVE LifeInv'
<1> DEFINE c == at[w].conn
<1>1. at[w].place = "reading" /\ loop[w].left > 0 /\ ForceClose(w, "parser", loop[w].left - 1)
  BY DEF AnswerAndClose, In
<1>2. c \in Conn
  BY <1>1, ReadingIsOpen
<1>3. PICK n \in 0..MaxParts, k \in 0..MaxParts :
        k <= n /\ out' = IF k = n THEN out ELSE [out EXCEPT ![c] = Append(out[c], n - k)]
  BY DEF AnswerAndClose
<1> HIDE DEF c
<1>4. out' \in [Conn -> Seq(1..MaxParts)] /\ \A d \in Conn \ {c} : out'[d] = out[d]
  BY <1>2, <1>3, QueueGrows
<1>5. loop[w].left - 1 \in Nat
  BY <1>1 DEF LifeInv, TypeOK
<1>. QED
  BY <1>1, <1>4, <1>5, ForceCloseStep DEF c

(* The message was bad. *)
LEMMA BadMessageStep == ASSUME LifeInv, NEW w \in Worker, BadMessage(w) PROVE LifeInv'
<1>1. at[w].place = "reading" /\ ForceClose(w, "message", 0) /\ out' = out
  BY DEF BadMessage, In
<1>2. out \in [Conn -> Seq(1..MaxParts)]
  BY DEF LifeInv, TypeOK
<1>. QED
  BY <1>1, <1>2, ForceCloseStep

(* The client or the socket ended the connection. *)
LEMMA EndStep == ASSUME LifeInv, NEW w \in Worker, NEW c \in Conn, HandleEnd(w, c) PROVE LifeInv'
<1>1. /\ Serves(w, c) /\ state[c] = "CONNECT" /\ Detach(w, c) /\ UNCHANGED <<next, out, client, broken>>
      /\ loop' = [loop EXCEPT ![w].from = "read"]
      /\ UNCHANGED <<sessions, missed, lock, living, removals, worker, tasks>>
  BY DEF HandleEnd, Ready, tcpVars, serverVars, LifeInv, Lives, KnownByState
<1>2. out \in [Conn -> Seq(1..MaxParts)] /\ loop' \in LoopSet
  BY <1>1 DEF LifeInv, TypeOK, LoopSet
<1>. QED
  BY <1>1, <1>2, ServedIsQuiet, DetachStep DEF Detach

(* The client was silent for too long. *)
LEMMA TimeoutStep == ASSUME LifeInv, NEW w \in Worker, NEW c \in Conn, HandleTimeout(w, c) PROVE LifeInv'
<1>1. /\ Serves(w, c) /\ state[c] = "CONNECT" /\ Detach(w, c) /\ UNCHANGED <<next, out, client, broken>>
      /\ loop' = [loop EXCEPT ![w].from = "timer"]
      /\ UNCHANGED <<sessions, missed, lock, living, removals, worker, tasks>>
  BY DEF HandleTimeout, tcpVars, serverVars, LifeInv, TimerWhileConnected
<1>2. out \in [Conn -> Seq(1..MaxParts)] /\ loop' \in LoopSet
  BY <1>1 DEF LifeInv, TypeOK, LoopSet
<1>. QED
  BY <1>1, <1>2, ServedIsQuiet, DetachStep DEF Detach

(* A step that leaves the life of the connections and the callbacks alone. *)
LEMMA QuietStep ==
  ASSUME LifeInv,
         out' \in [Conn -> Seq(1..MaxParts)],
         interest' \in [Conn -> SUBSET {"read", "write"}],
         WaitsForRoom',
         client' \in [Conn -> [sent : Nat, unread : Nat, open : BOOLEAN]],
         timer' \in [Conn -> {"none", "armed", "due", "lost"}],
         \A d \in Conn : timer'[d] = "none" <=> timer[d] = "none",
         loop' \in LoopSet, broken' \in BOOLEAN,
         UNCHANGED <<next, at, state, polled, sessions, missed, lock, living, removals, worker, tasks>>
  PROVE  LifeInv'
<1>1. TypeOK'
  BY DEF LifeInv, TypeOK, LoopSet
<1>2. OwnConnection' /\ PlaceFitsState' /\ OpenIsLiving' /\ RemovalsAreClosed' /\ TasksAreNew'
  BY DEF LifeInv, Lives, OwnConnection, PlaceFitsState, OpenIsLiving, RemovalsAreClosed, TasksAreNew
<1>3. KnownByState'
  BY DEF LifeInv, Lives, KnownByState
<1>4. SessionWhileConnected'
  BY DEF LifeInv, SessionWhileConnected
<1>5. TimerWhileConnected'
  <2>1. ASSUME NEW d \in Conn
        PROVE  timer'[d] # "none" <=>
                 (state[d] = "CONNECT" /\ ~\E w \in Worker : at[w].conn = d /\ at[w].place = "reading")
    <3>1. timer'[d] = "none" <=> timer[d] = "none"
      OBVIOUS
    <3>2. timer[d] # "none" <=>
            (state[d] = "CONNECT" /\ ~\E w \in Worker : at[w].conn = d /\ at[w].place = "reading")
      BY DEF LifeInv, TimerWhileConnected, In
    <3>. QED
      BY <3>1, <3>2
  <2>. QED
    BY <2>1 DEF TimerWhileConnected, In
<1>. QED
  BY <1>1, <1>2, <1>3, <1>4, <1>5 DEF LifeInv, Lives

(* An answer is written or queued. *)
LEMMA AnswerStep == ASSUME LifeInv, NEW w \in Worker, Answer(w) PROVE LifeInv'
<1> DEFINE c == at[w].conn
<1>1. /\ Parsing(w) /\ loop' = [loop EXCEPT ![w].left = loop[w].left - 1]
      /\ \/ UNCHANGED out /\ UNCHANGED interest
         \/ \E n \in 1..MaxParts : SendInLoop(c, n)
      /\ UNCHANGED <<next, at, client, state, polled, timer, broken, sessions, missed, lock,
                     living, removals, worker, tasks>>
  BY DEF Answer, tcpVars, serverVars
<1>2. c \in Conn
  BY <1>1, OnlyItsWorker DEF Parsing, In, LifeInv, Lives, OwnConnection, Idle
<1>3. loop' \in LoopSet
  <2>1. loop[w].left - 1 \in Nat
    BY <1>1 DEF Parsing, LifeInv, TypeOK
  <2>. QED
    BY <1>1, <2>1, LoopIsTyped
<1> HIDE DEF c
<1>4. /\ out' \in [Conn -> Seq(1..MaxParts)] /\ interest' \in [Conn -> SUBSET {"read", "write"}]
      /\ WaitsForRoom'
  <2>0. /\ out \in [Conn -> Seq(1..MaxParts)] /\ interest \in [Conn -> SUBSET {"read", "write"}]
        /\ \A d \in Conn : "write" \in interest[d] => out[d] # <<>>
    BY DEF LifeInv, Lives, TypeOK, WaitsForRoom
  <2>1. CASE UNCHANGED out /\ UNCHANGED interest
    BY <2>0, <2>1 DEF WaitsForRoom
  <2>2. ASSUME NEW n \in 1..MaxParts, SendInLoop(c, n)
        PROVE  /\ out' \in [Conn -> Seq(1..MaxParts)] /\ interest' \in [Conn -> SUBSET {"read", "write"}]
               /\ WaitsForRoom'
    <3>1. PICK k \in 0..n :
            /\ out' = IF k = n THEN out ELSE [out EXCEPT ![c] = Append(out[c], n - k)]
            /\ interest' = IF k = n THEN interest ELSE [interest EXCEPT ![c] = interest[c] \cup {"write"}]
      BY <2>2 DEF SendInLoop
    <3>2. n \in 0..MaxParts /\ k \in 0..MaxParts /\ k <= n
      BY BoundsAssumption
    <3>3. /\ out' \in [Conn -> Seq(1..MaxParts)] /\ \A d \in Conn \ {c} : out'[d] = out[d]
          /\ k # n => out'[c] # <<>>
      BY <1>2, <3>1, <3>2, QueueGrows
    <3>. QED
      BY <1>2, <2>0, <3>1, <3>3 DEF WaitsForRoom
  <2>. QED
    BY <1>1, <2>1, <2>2
<1>5. /\ client \in [Conn -> [sent : Nat, unread : Nat, open : BOOLEAN]]
      /\ timer \in [Conn -> {"none", "armed", "due", "lost"}] /\ broken \in BOOLEAN
  BY DEF LifeInv, TypeOK
<1>. QED
  BY <1>1, <1>3, <1>4, <1>5, QuietStep

(* handleRead begins: the timer is cancelled. *)
LEMMA ReadStep == ASSUME LifeInv, NEW w \in Worker, NEW c \in Conn, HandleRead(w, c) PROVE LifeInv'
<1>1. /\ Serves(w, c) /\ c \in polled /\ timer' = [timer EXCEPT ![c] = "none"]
      /\ client' = [client EXCEPT ![c].unread = 0] /\ loop' = [loop EXCEPT ![w].left = client[c].unread]
      /\ at' = [at EXCEPT ![w] = [place |-> "reading", conn |-> c]]
      /\ UNCHANGED <<next, out, state, polled, interest, broken, sessions, missed, lock,
                     living, removals, worker, tasks>>
  BY DEF HandleRead, Ready, GoOn, tcpVars, serverVars
<1>2. state[c] = "CONNECT" /\ at[w] = Idle /\ worker[c] = w /\ \A v \in Worker : at[v].conn # c
  BY <1>1, ServedIsQuiet DEF LifeInv, Lives, KnownByState
<1>3. /\ at'[w].place = "reading" /\ at'[w].conn = c
      /\ \A v \in Worker \ {w} : at'[v] = at[v] /\ at[v].conn # c
      /\ timer'[c] = "none" /\ \A d \in Conn \ {c} : timer'[d] = timer[d]
  BY <1>1, <1>2 DEF LifeInv, TypeOK
<1>4. TypeOK'
  <2>1. client[c].unread \in Nat
    BY DEF LifeInv, TypeOK
  <2>2. loop' \in LoopSet
    BY <1>1, <2>1 DEF LifeInv, TypeOK, LoopSet
  <2>3. client' \in [Conn -> [sent : Nat, unread : Nat, open : BOOLEAN]]
    BY <1>1, ReadIsTyped
  <2>. QED
    BY <1>1, <2>2, <2>3 DEF LifeInv, TypeOK, LoopSet, Place
<1>5. OwnConnection' /\ PlaceFitsState'
  <2>1. OwnConnection'
    BY <1>1, <1>2, <1>3 DEF LifeInv, Lives, OwnConnection
  <2>2. PlaceFitsState'
    BY <1>1, <1>2, <1>3 DEF LifeInv, Lives, PlaceFitsState
  <2>. QED
    BY <2>1, <2>2
<1>6. OpenIsLiving' /\ RemovalsAreClosed' /\ TasksAreNew' /\ KnownByState' /\ WaitsForRoom'
  BY <1>1 DEF LifeInv, Lives, OpenIsLiving, RemovalsAreClosed, TasksAreNew, KnownByState, WaitsForRoom
<1>7. \A d \in Conn \ {c}, v \in Worker :
        /\ at'[v].conn = d => at'[v] = at[v]
        /\ at[v].conn = d => at'[v] = at[v]
  BY <1>2, <1>3, NoConnAssumption DEF Idle
<1>8. SessionWhileConnected'
  BY <1>1, <1>2, <1>3, <1>7 DEF LifeInv, SessionWhileConnected
<1>9. TimerWhileConnected'
  BY <1>1, <1>3, <1>7 DEF LifeInv, TimerWhileConnected, In
<1>. QED
  BY <1>4, <1>5, <1>6, <1>8, <1>9 DEF LifeInv, Lives

(* handleRead ends: the connection is open and gets a timer. *)
LEMMA EndReadStep == ASSUME LifeInv, NEW w \in Worker, EndRead(w) PROVE LifeInv'
<1> DEFINE c == at[w].conn
<1>1. /\ at[w].place = "reading" /\ ResumeTimer(w, c) /\ at' = [at EXCEPT ![w] = Idle]
      /\ UNCHANGED <<next, out, client, state, polled, interest, loop, broken, sessions, missed, lock,
                     living, removals, worker, tasks>>
  BY DEF EndRead, In, Done, tcpVars, serverVars, loopVars
<1>2. c \in Conn /\ worker[c] = w /\ state[c] = "CONNECT"
  BY <1>1, ReadingIsOpen
<1>3. /\ at'[w] = Idle /\ \A v \in Worker \ {w} : at'[v] = at[v] /\ at[v].conn # c
  <2>1. \A v \in Worker \ {w} : at[v].conn # c
    BY <1>1, ReadingIsOpen
  <2>2. DOMAIN at = Worker
    BY DEF LifeInv, TypeOK
  <2>. QED
    BY <1>1, <2>1, <2>2
<1>4. /\ timer'[c] \in {"armed", "lost"} /\ \A d \in Conn \ {c} : timer'[d] = timer[d]
      /\ timer' \in [Conn -> {"none", "armed", "due", "lost"}]
  BY <1>1, <1>2 DEF ResumeTimer, NewTimer, LifeInv, TypeOK
<1>5. TypeOK'
  BY <1>1, <1>4 DEF LifeInv, TypeOK, Idle, Place
<1>6. OwnConnection' /\ PlaceFitsState'
  <2>1. OwnConnection'
    BY <1>1, <1>3 DEF LifeInv, Lives, OwnConnection
  <2>2. PlaceFitsState'
    BY <1>1, <1>3 DEF LifeInv, Lives, PlaceFitsState, Idle
  <2>. QED
    BY <2>1, <2>2
<1>7. OpenIsLiving' /\ RemovalsAreClosed' /\ TasksAreNew' /\ KnownByState' /\ WaitsForRoom'
  BY <1>1 DEF LifeInv, Lives, OpenIsLiving, RemovalsAreClosed, TasksAreNew, KnownByState, WaitsForRoom
<1>8. Idle.conn \notin Conn /\ Idle.place = "idle"
  BY NoConnAssumption DEF Idle
<1>9. SessionWhileConnected'
  BY <1>1, <1>2, <1>3, <1>8 DEF LifeInv, SessionWhileConnected
<1>10. TimerWhileConnected'
  BY <1>1, <1>2, <1>3, <1>4, <1>8 DEF LifeInv, TimerWhileConnected, In
<1>. QED
  BY <1>5, <1>6, <1>7, <1>9, <1>10 DEF LifeInv, Lives

(* What handleRead does with a lost timer is not defined. *)
LEMMA LostStep == ASSUME LifeInv, NEW w \in Worker, NEW c \in Conn, CancelLostTimer(w, c) PROVE LifeInv'
<1>1. /\ broken' = TRUE
      /\ UNCHANGED <<next, out, at, client, loop, state, polled, interest, timer, sessions, missed, lock,
                     living, removals, worker, tasks>>
  BY DEF CancelLostTimer, tcpVars, connVars, serverVars
<1>. QED
  BY <1>1, QuietStep DEF LifeInv, Lives, TypeOK, LoopSet, WaitsForRoom

(* handleWrite takes of the first response, and waits for room as long as one *)
(* is left.                                                                   *)
LEMMA WriteStep == ASSUME LifeInv, NEW w \in Worker, NEW c \in Conn, HandleWrite(w, c) PROVE LifeInv'
<1>1. /\ "write" \in interest[c]
      /\ interest' = [interest EXCEPT ![c] = IF out'[c] = <<>> THEN interest[c] \ {"write"} ELSE interest[c]]
      /\ UNCHANGED <<next, at, client, state, polled, timer, loop, broken, sessions, missed, lock,
                     living, removals, worker, tasks>>
  BY DEF HandleWrite, Ready, tcpVars, serverVars, loopVars
<1>2. PICK k \in 0..Head(out[c]) :
        out' = [out EXCEPT ![c] = IF k = Head(out[c]) THEN Tail(out[c]) ELSE <<Head(out[c]) - k>> \o Tail(out[c])]
  BY DEF HandleWrite
<1>3. /\ out \in [Conn -> Seq(1..MaxParts)] /\ interest \in [Conn -> SUBSET {"read", "write"}]
      /\ \A d \in Conn : "write" \in interest[d] => out[d] # <<>>
  BY DEF LifeInv, Lives, TypeOK, WaitsForRoom
<1>4. Head(out[c]) \in 1..MaxParts /\ Tail(out[c]) \in Seq(1..MaxParts)
  <2>1. out[c] \in Seq(1..MaxParts) /\ out[c] # <<>>
    BY <1>1, <1>3
  <2>. QED
    BY <2>1, HeadTailProperties
<1>5. k # Head(out[c]) => <<Head(out[c]) - k>> \in Seq(1..MaxParts)
  BY <1>4, BoundsAssumption
<1>6. out' \in [Conn -> Seq(1..MaxParts)]
  <2>1. k # Head(out[c]) => <<Head(out[c]) - k>> \o Tail(out[c]) \in Seq(1..MaxParts)
    BY <1>4, <1>5, ConcatProperties
  <2>. QED
    BY <1>2, <1>3, <1>4, <2>1
<1>7. interest' \in [Conn -> SUBSET {"read", "write"}] /\ WaitsForRoom'
  BY <1>1, <1>2, <1>3 DEF WaitsForRoom
<1>. QED
  BY <1>1, <1>6, <1>7, QuietStep DEF LifeInv, TypeOK, LoopSet

(* Time passes, and the client sends or leaves. *)
LEMMA OutsideStep == ASSUME LifeInv, NEW c \in Conn, ComesDue(c) \/ Request(c) \/ Leave(c) PROVE LifeInv'
<1>1. /\ timer' = timer \/ (timer[c] = "armed" /\ timer' = [timer EXCEPT ![c] = "due"])
      /\ \/ client' = client
         \/ client' = [client EXCEPT ![c].sent = client[c].sent + 1, ![c].unread = client[c].unread + 1]
         \/ client' = [client EXCEPT ![c].open = FALSE]
      /\ UNCHANGED <<next, out, at, loop, broken, living, removals, worker, tasks, state, polled, interest,
                     sessions, missed, lock>>
  BY DEF ComesDue, Request, Leave, tcpVars, connVars, serverVars, loopVars
<1>2. client' \in [Conn -> [sent : Nat, unread : Nat, open : BOOLEAN]]
  <2>1. client \in [Conn -> [sent : Nat, unread : Nat, open : BOOLEAN]]
    BY DEF LifeInv, TypeOK
  <2>2. client[c].sent + 1 \in Nat /\ client[c].unread + 1 \in Nat
    BY <2>1
  <2>3. CASE client' = client
    BY <2>1, <2>3
  <2>4. CASE client' = [client EXCEPT ![c].sent = client[c].sent + 1, ![c].unread = client[c].unread + 1]
    BY <2>1, <2>2, <2>4, SMTT(30)
  <2>5. CASE client' = [client EXCEPT ![c].open = FALSE]
    BY <2>1, <2>5
  <2>. QED
    BY <1>1, <2>3, <2>4, <2>5
<1>3. timer' \in [Conn -> {"none", "armed", "due", "lost"}] /\ \A d \in Conn : timer'[d] = "none" <=> timer[d] = "none"
  BY <1>1 DEF LifeInv, TypeOK
<1>. QED
  BY <1>1, <1>2, <1>3, QuietStep DEF LifeInv, Lives, TypeOK, LoopSet, WaitsForRoom

(* A loop sleeps and wakes without a connection. *)
LEMMA PassStep == ASSUME LifeInv, NEW w \in Worker, SleepLong(w) \/ EndPass(w) PROVE LifeInv'
<1>1. /\ loop' = [loop EXCEPT ![w].stale = TRUE] \/ loop' = [loop EXCEPT ![w].stale = FALSE]
      /\ UNCHANGED <<next, out, at, client, broken, sessions, missed, lock, living, removals, worker, tasks,
                     state, polled, interest, timer>>
  BY DEF SleepLong, EndPass, tcpVars, connVars, serverVars
<1>2. loop' \in LoopSet
  BY <1>1, LoopIsTyped
<1>. QED
  BY <1>1, <1>2, QuietStep DEF LifeInv, Lives, TypeOK, LoopSet, WaitsForRoom

-----------------------------------------------------------------------------
(* LifeInv is an invariant of the server, for any connections, workers and   *)
(* bounds.                                                                   *)
LEMMA LifeInvariant == Spec => []LifeInv
<1>1. LifeInv /\ [Next]_vars => LifeInv'
  <2> SUFFICES ASSUME LifeInv, [Next]_vars PROVE LifeInv'
    OBVIOUS
  <2>1. CASE UNCHANGED vars
    <3>1. TypeOK' /\ SessionWhileConnected' /\ TimerWhileConnected'
      BY <2>1 DEF vars, LifeInv, TypeOK, SessionWhileConnected, TimerWhileConnected, In
    <3>2. OwnConnection' /\ PlaceFitsState' /\ OpenIsLiving'
      BY <2>1 DEF vars, LifeInv, Lives, OwnConnection, PlaceFitsState, OpenIsLiving
    <3>3. RemovalsAreClosed' /\ TasksAreNew'
      BY <2>1 DEF vars, LifeInv, Lives, RemovalsAreClosed, TasksAreNew
    <3>4. KnownByState' /\ WaitsForRoom'
      BY <2>1 DEF vars, LifeInv, Lives, KnownByState, WaitsForRoom
    <3>. QED
      BY <3>1, <3>2, <3>3, <3>4 DEF LifeInv, Lives
  <2>2. ASSUME NEW c \in Conn, HandleAccept(c) \/ ComesDue(c) \/ Request(c) \/ Leave(c) PROVE LifeInv'
    BY <2>2, HandleAcceptStep, OutsideStep
  <2>3. ASSUME NEW w \in Worker, Continue(w) PROVE LifeInv'
    <3>1. ASSUME Answer(w) \/ AnswerAndClose(w) \/ BadMessage(w) \/ EndRead(w) PROVE LifeInv'
      BY <3>1, AnswerStep, AnswerAndCloseStep, BadMessageStep, EndReadStep
    <3>. QED
      BY <2>3, <3>1, LockStep, InsertStep, FindStep, EraseStep, NotifyStep, BackStep DEF Continue
  <2>4. ASSUME NEW w \in Worker, ConnectEstablished(w) \/ SleepLong(w) \/ EndPass(w) PROVE LifeInv'
    BY <2>4, EstablishStep, PassStep
  <2>5. ASSUME NEW w \in Worker, NEW c \in Conn, Serve(w, c) \/ HandleWrite(w, c) PROVE LifeInv'
    BY <2>5, ReadStep, EndStep, LostStep, TimeoutStep, WriteStep DEF Serve
  <2>. QED
    BY <2>1, <2>2, <2>3, <2>4, <2>5, RemoveStep DEF Next
<1>. QED
  BY <1>1, ServerInitial, PTL DEF Spec

(* What the poller, the timers and HttpServer keep of a connection they keep *)
(* as long as it is connected (tcpconnection.cc, httpserver.cc).             *)
THEOREM ConnectionIsKept == Spec => []ConnectionInv
<1>. QED
  BY LifeInvariant, LifeIsKept, PTL

(* However a connection ends, it ends once and is destroyed only when nothing *)
(* refers to it any more (tcpconnection.cc, tcpserver.cc).                    *)
THEOREM ConnectionEndsOnce == Spec => []EndsOnce
<1>. QED
  BY LifeInvariant, LifeIsKept, PTL

=============================================================================
